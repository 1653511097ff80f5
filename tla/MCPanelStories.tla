-------------------------- MODULE MCPanelStories --------------------------
(* PanelPower told in three stories.  "walls": a screen among several walls, *)
(* overridden by hand, while every command gets through.  "console": one    *)
(* wall, and what can happen to box, channel and server but half-open       *)
(* sockets and outputs that come and go.  "hello": two screens on a box     *)
(* that drops and reboots between commands.                                 *)
EXTENDS MCPanelPower

CONSTANTS
    First,          \* the wall of the last two stories
    Lead            \* the screen of the first two

VARIABLE story

LeadOnly ==
    \A s \in Screen \ {Lead} : placement'[s] = NoMural /\ cmds'[s] = <<>>

FirstOnly ==
    /\ placement' = placement
    /\ \A w \in Mural \ {First} : verdict'[w] = verdict[w]

WallsNext ==
    /\ \/ ScheduleMoves \/ Operator \/ Tick
       \/ \E m \in Machine : Session(m)
       \/ \E s \in Screen : Executes(s, TRUE) \/ PowerAck(s)
    /\ LeadOnly
    /\ \A s \in Screen : Len(cmds'[s]) <= 1 /\ Len(acks'[s]) <= 1

ConsoleNext == Next /\ FirstOnly /\ LeadOnly

HelloNext ==
    /\ \/ ScheduleMoves \/ Tick
       \/ \E m \in Machine : Session(m) \/ Reboot(m) \/ (NoFrames(m) /\ Drop(m))
       \/ \E s \in Screen : Executes(s, TRUE) \/ PowerAck(s)
    /\ FirstOnly

StoryInit ==
    \/ /\ story = "walls" /\ SteadyInit
       /\ \A s \in Screen \ {Lead} : placement[s] = NoMural
    \/ /\ story = "console" /\ Init
       /\ \A w \in Mural \ {First} : verdict[w] = "none"
       /\ \A s \in Screen : placement[s] \in IF s = Lead THEN {First, NoMural} ELSE {NoMural}
    \/ /\ story = "hello" /\ SteadyInit
       /\ \A s \in Screen : placement[s] \in {First, NoMural}
StoryNext == /\ CASE story = "walls"   -> WallsNext
                  [] story = "console" -> ConsoleNext
                  [] story = "hello"   -> HelloNext
             /\ UNCHANGED story

(* The ticker's interval keeps firing, an agent keeps reconnecting and     *)
(* handles what it receives; inputs and failures owe nothing.  The other    *)
(* two stories ask for no progress.                                         *)
HelloFairness ==
    /\ WF_vars(story = "hello" /\ Tick)
    /\ \A m \in Machine : WF_vars(story = "hello" /\ Session(m))
    /\ \A s \in Screen : WF_vars(story = "hello" /\ Box(s))

StorySpec == StoryInit /\ [][StoryNext]_<<vars, story>> /\ HelloFairness

(* As long as every command gets through, no screen is stranded in a sleep *)
(* of the schedule: neither in its hours, nor when no window is left for   *)
(* it.                                                                     *)
WallsNotStranded ==
    story = "walls" => NeverStrandedInHours /\ NeverStrandedUngoverned

(* Overlapping sockets and re-created outputs apart, what the console shows *)
(* asleep is dark.                                                         *)
ConsoleHonest == story = "console" => AsleepMeansDark

(* What a hello owes the wall: a screen whose box comes back out of its    *)
(* hours sleeps again, and one the schedule has let go is woken.           *)
HelloReconciles ==
    story = "hello" => HelloOutOfHoursSleeps /\ ReleasedScreenWakes
=============================================================================
