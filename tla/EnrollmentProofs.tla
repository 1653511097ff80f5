-------------------------- MODULE EnrollmentProofs --------------------------
(***************************************************************************)
(* Proofs about Enrollment, for every number of boxes, tokens and sockets:  *)
(* the presence count, the cap of a token, and a rejection that stays.      *)
(***************************************************************************)
EXTENDS Enrollment, FiniteSetTheorems, TLAPS

-----------------------------------------------------------------------------
(* Sockets *)

LEMMA FreeType == Free \in Socket /\ Free.hub = FALSE /\ Free.reg = FALSE /\ Free.step = "idle"
  BY DEF Free, Socket, Step, Credential

LEMMA OntoType ==
    ASSUME NEW c \in Socket, NEW s \in Step
    PROVE  /\ Onto(c, s) \in Socket /\ Onto(c, s).step = s
           /\ Onto(c, s).of = c.of /\ Onto(c, s).reg = c.reg /\ Onto(c, s).hub = c.hub
           /\ Onto(c, s).sock = c.sock
  BY DEF Onto, Socket, Credential

LEMMA DialledType ==
    ASSUME TypeOK, NEW m \in Machine
    PROVE  /\ Dialled(m) \in Socket /\ Dialled(m).of = m /\ Dialled(m).step = "idle"
           /\ Dialled(m).reg = FALSE /\ Dialled(m).hub = FALSE
  <1>1. saved[m] \in Credential /\ (required /\ ~bundle[m]) \in BOOLEAN
    BY DEF TypeOK
  <1> QED BY <1>1, FreeType DEF Dialled, Socket

LEMMA KeptType ==
    ASSUME NEW c \in Socket
    PROVE  Kept(c) \in Socket /\ Closing(c) \in Socket /\ Old(c) \in Socket
  <1>1. Closing(c) \in Socket
    BY DEF Closing, Socket
  <1>2. Old(c) \in Socket
    BY DEF Old, Aged, Socket, Credential
  <1> QED BY <1>1, <1>2, FreeType DEF Kept

(* A socket in the hub was counted for its box; one that was counted is in  *)
(* the hub until its close handler has run; what moves belongs to a box.    *)
Sound(c) ==
    /\ c.hub => c.reg /\ c.of \in Machine
    /\ c.reg => c.hub \/ c.sock = "closed"
    /\ c.sock # "none" \/ c.step # "idle" => c.of \in Machine

(* A socket whose box is to be counted against its token. *)
Waits(c) == c.of # None /\ (c.step = "enrolling" \/ (c.step = "signing" /\ c.kind = "enrol"))

(* The same socket, further on or closing. *)
Kin(c, d) ==
    /\ d.of = c.of /\ d.reg = c.reg /\ d.hub = c.hub
    /\ d.sock = c.sock \/ (c.sock = "open" /\ d.sock = "closing")
    /\ d.step # "idle" => c.of \in Machine

(* For the hub the same, and for the token no more than before. *)
Meek(c, d) ==
    /\ Sound(d) /\ d.hub = c.hub /\ (c.hub => d.of = c.of)
    /\ Waits(d) => Waits(c) /\ d.of = c.of

LEMMA KinMeek ==
    ASSUME NEW c \in Socket, NEW d \in Socket, Sound(c), Kin(c, d),
           Waits(d) => Waits(c)
    PROVE  /\ Meek(c, Kept(d)) /\ Meek(c, Closing(d)) /\ Meek(c, Kept(Closing(d)))
           /\ Meek(c, Old(d)) /\ Meek(c, d)
  <1>1. ASSUME NEW e \in Socket, Sound(e), e.hub = c.hub, e.of = c.of, Waits(e) => Waits(c)
        PROVE  Meek(c, Kept(e)) /\ Meek(c, e)
    <2>1. c.hub \in BOOLEAN /\ Free.hub \in BOOLEAN
      BY FreeType DEF Socket
    <2>2. CASE Kept(e) = e
      BY <1>1, <2>2 DEF Meek
    <2>3. CASE Kept(e) = Free /\ ~e.hub
      <3>1. Sound(Free) /\ ~Waits(Free)
        BY DEF Sound, Waits, Free
      <3> QED BY <1>1, <2>1, <2>3, <3>1, FreeType DEF Meek
    <2> QED BY <2>2, <2>3 DEF Kept
  <1>2. Sound(d)
    BY DEF Sound, Kin
  <1>3. Closing(d) \in Socket /\ Sound(Closing(d)) /\ Closing(d).hub = d.hub /\ Closing(d).of = d.of
        /\ (Waits(Closing(d)) => Waits(d))
    BY <1>2, KeptType DEF Closing, Sound, Socket, Waits
  <1>4. Old(d) \in Socket /\ Sound(Old(d)) /\ Old(d).hub = d.hub /\ Old(d).of = d.of
        /\ (Waits(Old(d)) => Waits(d))
    BY <1>2, KeptType DEF Old, Sound, Socket, Waits
  <1> QED BY <1>1, <1>2, <1>3, <1>4 DEF Kin

-----------------------------------------------------------------------------
(* The invariant, and the steps that do not touch the counts *)

(* As CountsSockets, and after a removal the count is never too high.       *)
CountInv ==
    /\ \A k \in Conn : Sound(conn[k])
    /\ \A m \in Machine : /\ count[m] <= Cardinality(InHub(m))
                          /\ m \notin forgotten => count[m] = Cardinality(InHub(m))

EnrolInv == TypeOK /\ CountInv /\ CapNearlyKept

LEMMA ConnFinite ==
    ASSUME NEW S \in SUBSET Conn
    PROVE  IsFiniteSet(S) /\ Cardinality(S) \in 0 .. Sockets
  <1>1. IsFiniteSet(Conn) /\ Cardinality(Conn) = Sockets
    BY FS_Interval, BoundsAssumption DEF Conn
  <1>2. IsFiniteSet(S) /\ Cardinality(S) <= Cardinality(Conn)
    BY <1>1, FS_Subset
  <1> QED BY <1>1, <1>2, FS_CardinalityType, BoundsAssumption

LEMMA SubsetCount ==
    ASSUME NEW S \in SUBSET Conn, NEW T \in SUBSET S
    PROVE  Cardinality(T) <= Cardinality(S) /\ Cardinality(T) \in Nat /\ Cardinality(S) \in Nat
  BY ConnFinite, FS_Subset

LEMMA QuietCount ==
    ASSUME CountInv, \A k \in Conn : Meek(conn[k], conn'[k]), count' = count, forgotten' = forgotten
    PROVE  CountInv'
  <1>1. \A m \in Machine : InHub(m)' = InHub(m)
    BY DEF CountInv, InHub, Of, Meek, Sound
  <1>2. \A k \in Conn : Sound(conn'[k])
    BY DEF Meek
  <1> QED BY <1>1, <1>2 DEF CountInv

LEMMA QuietCap ==
    ASSUME TypeOK, TypeOK', CapNearlyKept, \A k \in Conn : Meek(conn[k], conn'[k]), stick' = stick,
           \A t \in Token : token'[t].uses <= token[t].uses
    PROVE  CapNearlyKept'
  <1> SUFFICES ASSUME NEW t \in Token
               PROVE  token'[t].uses + Cardinality(Uncounted(t)') < Cap + Sockets
    BY DEF CapNearlyKept
  <1>1. Uncounted(t)' \subseteq Uncounted(t)
    BY DEF Uncounted, Meek, Waits
  <1>2. Uncounted(t) \in SUBSET Conn
    BY DEF Uncounted
  <1>3. /\ Cardinality(Uncounted(t)') <= Cardinality(Uncounted(t))
        /\ Cardinality(Uncounted(t)') \in Nat /\ Cardinality(Uncounted(t)) \in Nat
    BY <1>1, <1>2, SubsetCount
  <1>4. token[t].uses \in Nat /\ token'[t].uses \in Nat
    BY DEF TypeOK
  <1> QED BY <1>3, <1>4, BoundsAssumption DEF CapNearlyKept

(* One socket goes on to d, and no count changes. *)
LEMMA BecomesQuiet ==
    ASSUME EnrolInv, TypeOK', NEW k \in Conn, NEW d \in Socket,
           Kin(conn[k], d), Waits(d) => Waits(conn[k]),
           Becomes(k, d) \/ Becomes(k, Closing(d)),
           count' = count, forgotten' = forgotten, stick' = stick,
           \A t \in Token : token'[t].uses <= token[t].uses
    PROVE  EnrolInv'
  <1>1. \A j \in Conn : conn[j] \in Socket /\ Sound(conn[j])
    BY DEF EnrolInv, TypeOK, CountInv
  <1>2. Meek(conn[k], Kept(d)) /\ Meek(conn[k], Kept(Closing(d)))
    BY <1>1, KinMeek
  <1>3. \A j \in Conn \ {k} : Meek(conn[j], conn[j])
    BY <1>1, KinMeek DEF Kin, Sound
  <1>4. \A j \in Conn : Meek(conn[j], conn'[j])
    BY <1>2, <1>3 DEF Becomes, EnrolInv, TypeOK
  <1> QED BY <1>4, QuietCount, QuietCap DEF EnrolInv

LEMMA ConnQuiet ==
    ASSUME EnrolInv, TypeOK', conn' = conn, count' = count, forgotten' = forgotten, stick' = stick,
           \A t \in Token : token'[t].uses <= token[t].uses
    PROVE  EnrolInv'
  <1>1. \A j \in Conn : conn[j] \in Socket /\ Sound(conn[j])
    BY DEF EnrolInv, TypeOK, CountInv
  <1>2. \A j \in Conn : Meek(conn[j], conn'[j])
    BY <1>1, KinMeek DEF Kin, Sound
  <1> QED BY <1>2, QuietCount, QuietCap DEF EnrolInv

-----------------------------------------------------------------------------
(* The box, the operator, and the handler after its awaits *)

LEMMA Agree ==
    ASSUME TypeOK, NEW k \in Conn, NEW d,
           conn' = [conn EXCEPT ![k] = d], d \in Socket
    PROVE  conn' \in [Conn -> Socket]
  BY DEF TypeOK

LEMMA LeavesType ==
    ASSUME TypeOK, NEW m, Leaves(m)
    PROVE  /\ dial' \in [Machine -> Conn \cup {None}]
           /\ told' \in [Machine -> {"nothing", "pending", "applied"}]
           /\ overtaken' \subseteq Machine
  BY DEF Leaves, TypeOK

LEMMA DialStep == ASSUME EnrolInv, NEW m \in Machine, Dial(m) PROVE EnrolInv'
  <1>1. PICK k \in Conn :
          /\ conn[k] = Free
          /\ dial' = [dial EXCEPT ![m] = k]
          /\ conn' = [conn EXCEPT ![k] = Dialled(m)]
    BY DEF Dial
  <1> DEFINE d == Dialled(m)
  <1>2. conn' = [conn EXCEPT ![k] = d]
    BY <1>1
  <1>3. d \in Socket /\ d.of = m /\ d.step = "idle" /\ d.reg = FALSE /\ d.hub = FALSE
    BY DialledType DEF EnrolInv
  <1> HIDE DEF d
  <1>4. Sound(d) /\ ~Waits(d)
    BY <1>3 DEF Sound, Waits
  <1>5. UNCHANGED <<machine, token, count, desk, required, saved, bundle, stick, told, overtaken, forgotten, bounds>>
    BY DEF Dial
  <1>6. TypeOK'
    BY <1>1, <1>2, <1>3, <1>5, Agree DEF EnrolInv, TypeOK, bounds
  <1>7. \A j \in Conn \ {k} : Meek(conn[j], conn[j])
    BY KinMeek DEF Kin, Sound, EnrolInv, TypeOK, CountInv
  <1>8. Meek(conn[k], d)
    BY <1>1, <1>3, <1>4, FreeType DEF Meek
  <1>9. \A j \in Conn : Meek(conn[j], conn'[j])
    BY <1>2, <1>7, <1>8 DEF EnrolInv, TypeOK
  <1>10. \A t \in Token : token'[t].uses <= token[t].uses
    BY <1>5 DEF EnrolInv, TypeOK
  <1> QED BY <1>5, <1>6, <1>9, <1>10, QuietCount, QuietCap DEF EnrolInv

LEMMA LoseStep == ASSUME EnrolInv, NEW m \in Machine, Lose(m) PROVE EnrolInv'
  <1>1. TypeOK'
    BY LeavesType, BoundsAssumption DEF Lose, EnrolInv, TypeOK
  <1>2. \A t \in Token : token'[t].uses <= token[t].uses
    BY DEF Lose, EnrolInv, TypeOK
  <1> QED BY <1>1, <1>2, ConnQuiet DEF Lose

LEMMA TellType ==
    ASSUME TypeOK, NEW k, NEW what \in {"pending", "applied"}, Tell(k, what)
    PROVE  told' \in [Machine -> {"nothing", "pending", "applied"}]
  BY DEF Tell, TypeOK

LEMMA SendType ==
    ASSUME TypeOK, NEW k \in Conn, SendEnrolled(k)
    PROVE  /\ saved' \in [Machine -> Credential] /\ bundle' \in [Machine -> BOOLEAN]
           /\ UNCHANGED <<stick, dial>>
  BY DEF SendEnrolled, TypeOK, Socket

(* The end of a hello, after whatever step. *)
LEMMA DoneStep ==
    ASSUME EnrolInv, NEW k \in Conn, Busy(k), NEW what \in {"pending", "applied"}, Done(k, what)
    PROVE  \E d \in Socket :
              /\ Kin(conn[k], d) /\ ~Waits(d)
              /\ Becomes(k, d) \/ Becomes(k, Closing(d))
              /\ conn' \in [Conn -> Socket]
              /\ told' \in [Machine -> {"nothing", "pending", "applied"}]
  <1> DEFINE d == Onto(conn[k], "idle")
  <1>1. d \in Socket /\ d.step = "idle" /\ d.of = conn[k].of /\ d.reg = conn[k].reg
        /\ d.hub = conn[k].hub /\ d.sock = conn[k].sock
    BY OntoType DEF EnrolInv, TypeOK, Step
  <1>2. Becomes(k, d) \/ Becomes(k, Closing(d))
    BY DEF Done
  <1>3. told' \in [Machine -> {"nothing", "pending", "applied"}]
    BY TellType DEF Done, EnrolInv, TypeOK
  <1> HIDE DEF d
  <1>4. Kin(conn[k], d) /\ ~Waits(d)
    BY <1>1 DEF Kin, Waits
  <1>5. conn' \in [Conn -> Socket]
    BY <1>1, <1>2, KeptType, Agree DEF Becomes, EnrolInv
  <1> QED BY <1>1, <1>2, <1>3, <1>4, <1>5

(* A hello that only goes on, or ends, with tokens, stick and counts as they *)
(* were.                                                                     *)
LEMMA RegisteredStep == ASSUME EnrolInv, NEW k \in Conn, Registered(k) PROVE EnrolInv'
  <1>1. SendEnrolled(k) /\ Done(k, "applied") /\ Busy(k)
        /\ UNCHANGED <<machine, token, count, desk, required, overtaken, forgotten, bounds>>
    BY DEF Registered, Busy
  <1>2. PICK d \in Socket :
           /\ Kin(conn[k], d) /\ ~Waits(d) /\ (Becomes(k, d) \/ Becomes(k, Closing(d)))
           /\ conn' \in [Conn -> Socket]
           /\ told' \in [Machine -> {"nothing", "pending", "applied"}]
    BY <1>1, DoneStep
  <1>3. TypeOK'
    BY <1>1, <1>2, SendType DEF EnrolInv, TypeOK, bounds
  <1>4. \A t \in Token : token'[t].uses <= token[t].uses
    BY <1>1 DEF EnrolInv, TypeOK
  <1> QED BY <1>1, <1>2, <1>3, <1>4, BecomesQuiet, SendType DEF EnrolInv

LEMMA TouchedStep == ASSUME EnrolInv, NEW k \in Conn, Touched(k) PROVE EnrolInv'
  <1>1. SendEnrolled(k) /\ Done(k, "pending") /\ Busy(k)
        /\ UNCHANGED <<machine, token, count, desk, required, overtaken, forgotten, bounds>>
    BY DEF Touched, Busy
  <1>2. PICK d \in Socket :
           /\ Kin(conn[k], d) /\ ~Waits(d) /\ (Becomes(k, d) \/ Becomes(k, Closing(d)))
           /\ conn' \in [Conn -> Socket]
           /\ told' \in [Machine -> {"nothing", "pending", "applied"}]
    BY <1>1, DoneStep
  <1>3. TypeOK'
    BY <1>1, <1>2, SendType DEF EnrolInv, TypeOK, bounds
  <1>4. \A t \in Token : token'[t].uses <= token[t].uses
    BY <1>1 DEF EnrolInv, TypeOK
  <1> QED BY <1>1, <1>2, <1>3, <1>4, BecomesQuiet, SendType DEF EnrolInv

LEMMA AutoApprovedStep == ASSUME EnrolInv, NEW k \in Conn, AutoApproved(k) PROVE EnrolInv'
  <1>1. Done(k, "applied") /\ Busy(k)
        /\ UNCHANGED <<machine, token, count, desk, required, saved, file, overtaken, forgotten, bounds>>
    BY DEF AutoApproved, Busy
  <1>2. PICK d \in Socket :
           /\ Kin(conn[k], d) /\ ~Waits(d) /\ (Becomes(k, d) \/ Becomes(k, Closing(d)))
           /\ conn' \in [Conn -> Socket]
           /\ told' \in [Machine -> {"nothing", "pending", "applied"}]
    BY <1>1, DoneStep
  <1>3. TypeOK'
    BY <1>1, <1>2 DEF EnrolInv, TypeOK, bounds, file
  <1>4. \A t \in Token : token'[t].uses <= token[t].uses
    BY <1>1 DEF EnrolInv, TypeOK
  <1> QED BY <1>1, <1>2, <1>3, <1>4, BecomesQuiet DEF file

(* A step of the handler that goes on without an end. *)
LEMMA OntoStep ==
    ASSUME EnrolInv, NEW k \in Conn, Busy(k), NEW d \in Socket,
           d.of = conn[k].of, d.reg = conn[k].reg, d.hub = conn[k].hub, d.sock = conn[k].sock,
           Becomes(k, d)
    PROVE  Kin(conn[k], d) /\ conn' \in [Conn -> Socket]
  <1>1. conn[k].of \in Machine
    BY DEF Busy, EnrolInv, CountInv, Sound
  <1>2. conn' \in [Conn -> Socket]
    BY KeptType, Agree DEF Becomes, EnrolInv
  <1> QED BY <1>1, <1>2 DEF Kin

LEMMA CountedStep == ASSUME EnrolInv, NEW k \in Conn, Counted(k) PROVE EnrolInv'
  <1>1. SendEnrolled(k) /\ Busy(k)
        /\ UNCHANGED <<machine, token, count, desk, required, overtaken, forgotten, bounds>>
    BY DEF Counted, Busy
  <1>2. \A t \in Token : token'[t].uses <= token[t].uses
    BY <1>1 DEF EnrolInv, TypeOK
  <1>3. CASE Done(k, "pending")
    <2>1. PICK d \in Socket :
             /\ Kin(conn[k], d) /\ ~Waits(d) /\ (Becomes(k, d) \/ Becomes(k, Closing(d)))
             /\ conn' \in [Conn -> Socket]
             /\ told' \in [Machine -> {"nothing", "pending", "applied"}]
      BY <1>1, <1>3, DoneStep
    <2>2. TypeOK'
      BY <1>1, <2>1, SendType DEF EnrolInv, TypeOK, bounds
    <2> QED BY <1>1, <1>2, <2>1, <2>2, BecomesQuiet, SendType DEF EnrolInv
  <1>4. CASE Becomes(k, Onto(conn[k], "naming")) /\ UNCHANGED told
    <2> DEFINE d == Onto(conn[k], "naming")
    <2>1. /\ d \in Socket /\ d.step = "naming" /\ d.of = conn[k].of /\ d.reg = conn[k].reg
          /\ d.hub = conn[k].hub /\ d.sock = conn[k].sock
      BY OntoType DEF EnrolInv, TypeOK, Step
    <2>2. Becomes(k, d)
      BY <1>4
    <2> HIDE DEF d
    <2>3. Kin(conn[k], d) /\ conn' \in [Conn -> Socket] /\ ~Waits(d)
      BY <1>1, <2>1, <2>2, OntoStep DEF Waits
    <2>4. TypeOK'
      BY <1>1, <1>4, <2>3, SendType DEF EnrolInv, TypeOK, bounds
    <2> QED BY <1>1, <1>2, <2>1, <2>2, <2>3, <2>4, BecomesQuiet, SendType DEF EnrolInv
  <1> QED BY <1>3, <1>4 DEF Counted

LEMMA StepType ==
    ASSUME NEW c \in Socket, NEW s \in Step
    PROVE  /\ [c EXCEPT !.step = s] \in Socket /\ [c EXCEPT !.step = s].step = s
           /\ [c EXCEPT !.step = s].of = c.of /\ [c EXCEPT !.step = s].reg = c.reg
           /\ [c EXCEPT !.step = s].hub = c.hub /\ [c EXCEPT !.step = s].sock = c.sock
  BY DEF Socket

LEMMA OvertakingType ==
    ASSUME TypeOK, NEW k \in Conn, conn[k].of \in Machine
    PROVE  Overtaking(k) \subseteq Machine
  BY DEF TypeOK, Overtaking

LEMMA NamedStep == ASSUME EnrolInv, NEW k \in Conn, Named(k) PROVE EnrolInv'
  <1>1. /\ Busy(k)
        /\ UNCHANGED <<token, count, desk, required, saved, file, forgotten, bounds>>
    BY DEF Named, Busy
  <1>2. \A t \in Token : token'[t].uses <= token[t].uses
    BY <1>1 DEF EnrolInv, TypeOK
  <1>3. CASE Done(k, "pending") /\ UNCHANGED <<machine, overtaken>>
    <2>1. PICK d \in Socket :
             /\ Kin(conn[k], d) /\ ~Waits(d) /\ (Becomes(k, d) \/ Becomes(k, Closing(d)))
             /\ conn' \in [Conn -> Socket]
             /\ told' \in [Machine -> {"nothing", "pending", "applied"}]
      BY <1>1, <1>3, DoneStep
    <2>2. TypeOK'
      BY <1>1, <1>3, <2>1 DEF EnrolInv, TypeOK, bounds, file
    <2> QED BY <1>1, <1>2, <2>1, <2>2, BecomesQuiet DEF file
  <1>4. CASE /\ machine' = [machine EXCEPT ![conn[k].of] = "approved"]
             /\ Becomes(k, [conn[k] EXCEPT !.step = "approving"])
             /\ overtaken' = Overtaking(k)
             /\ UNCHANGED told
    <2> DEFINE d == [conn[k] EXCEPT !.step = "approving"]
    <2>1. /\ d \in Socket /\ d.step = "approving" /\ d.of = conn[k].of /\ d.reg = conn[k].reg
          /\ d.hub = conn[k].hub /\ d.sock = conn[k].sock
      BY StepType DEF EnrolInv, TypeOK, Step
    <2>2. Becomes(k, d)
      BY <1>4
    <2> HIDE DEF d
    <2>3. Kin(conn[k], d) /\ conn' \in [Conn -> Socket] /\ ~Waits(d)
      BY <1>1, <2>1, <2>2, OntoStep DEF Waits
    <2>4. conn[k].of \in Machine
      BY <1>1 DEF Busy, EnrolInv, CountInv, Sound
    <2>5. overtaken' \subseteq Machine
      BY <1>4, <2>4, OvertakingType DEF EnrolInv
    <2>6. TypeOK'
      BY <1>1, <1>4, <2>3, <2>5 DEF EnrolInv, TypeOK, bounds, file
    <2> QED BY <1>1, <1>2, <2>1, <2>2, <2>3, <2>6, BecomesQuiet DEF file
  <1> QED BY <1>3, <1>4 DEF Named

(* The box is counted against its token, and waits for that no longer.       *)
LEMMA EnrolledStep == ASSUME EnrolInv, NEW k \in Conn, Enrolled(k) PROVE EnrolInv'
  <1> DEFINE d == [conn[k] EXCEPT !.step = "counting"]
             u == stick[conn[k].of]
  <1>1. /\ conn[k].step = "enrolling"
        /\ token' = IF token[u].state = "gone" THEN token ELSE [token EXCEPT ![u].uses = @ + 1]
        /\ Becomes(k, d)
        /\ UNCHANGED <<machine, count, desk, required, saved, file, told, overtaken, forgotten, bounds>>
    BY DEF Enrolled
  <1>2. /\ d \in Socket /\ d.step = "counting" /\ d.of = conn[k].of /\ d.reg = conn[k].reg
        /\ d.hub = conn[k].hub /\ d.sock = conn[k].sock
    <2>1. conn[k] \in Socket /\ "counting" \in Step
      BY DEF EnrolInv, TypeOK, Step
    <2> QED BY <2>1, StepType
  <1> HIDE DEF d
  <1>3. Kin(conn[k], d) /\ conn' \in [Conn -> Socket] /\ ~Waits(d)
    BY <1>1, <1>2, OntoStep DEF Waits, Busy
  <1>4. /\ token' \in [Token -> [state : {"uncut", "live", "dead", "gone"}, uses : Nat]]
        /\ \A t \in Token : token'[t].uses = token[t].uses
                              \/ (t = u /\ token'[t].uses = token[t].uses + 1)
    <2> HIDE DEF u
    <2>1. token \in [Token -> [state : {"uncut", "live", "dead", "gone"}, uses : Nat]]
      BY DEF EnrolInv, TypeOK
    <2>2. CASE token' = token
      BY <2>1, <2>2
    <2>3. CASE token' = [token EXCEPT ![u].uses = @ + 1]
      <3>1. CASE u \in Token
        <4>1. token' = [token EXCEPT ![u] = [token[u] EXCEPT !.uses = @ + 1]]
          BY <2>3
        <4>2. [token[u] EXCEPT !.uses = @ + 1] \in [state : {"uncut", "live", "dead", "gone"}, uses : Nat]
              /\ [token[u] EXCEPT !.uses = @ + 1].uses = token[u].uses + 1
          BY <2>1, <3>1
        <4> QED BY <2>1, <3>1, <4>1, <4>2
      <3>2. CASE u \notin Token
        BY <2>1, <2>3, <3>2
      <3> QED BY <3>1, <3>2
    <2> QED BY <1>1, <2>2, <2>3
  <1>5. TypeOK'
    BY <1>1, <1>3, <1>4 DEF EnrolInv, TypeOK, bounds, file
  <1>6. \A j \in Conn : Meek(conn[j], conn'[j])
    <2>1. \A j \in Conn : conn[j] \in Socket /\ Sound(conn[j])
      BY DEF EnrolInv, TypeOK, CountInv
    <2>2. Meek(conn[k], Kept(d))
      BY <1>2, <1>3, <2>1, KinMeek
    <2>3. \A j \in Conn \ {k} : Meek(conn[j], conn[j])
      BY <2>1, KinMeek DEF Kin, Sound
    <2> QED BY <1>1, <2>2, <2>3 DEF Becomes, EnrolInv, TypeOK
  <1>7. CountInv'
    BY <1>1, <1>6, QuietCount DEF EnrolInv
  <1>8. ASSUME NEW t \in Token
        PROVE  token'[t].uses + Cardinality(Uncounted(t)') < Cap + Sockets
    <2>1. token[t].uses \in Nat /\ token'[t].uses \in Nat /\ Cap + Sockets \in Nat
          /\ token[t].uses + Cardinality(Uncounted(t)) < Cap + Sockets
      BY <1>5, BoundsAssumption DEF EnrolInv, TypeOK, CapNearlyKept
    <2>2. Uncounted(t) \in SUBSET Conn /\ Uncounted(t)' \in SUBSET Uncounted(t)
      BY <1>1, <1>6 DEF Uncounted, Meek, Waits, file
    <2>3. CASE token'[t].uses = token[t].uses
      BY <2>1, <2>2, <2>3, SubsetCount
    <2>4. CASE t = u /\ token'[t].uses = token[t].uses + 1
      <3>1. k \in Uncounted(t) /\ k \notin Uncounted(t)'
        <4>1. conn[k].of \in Machine /\ conn[k].of # None
          BY <1>1, NoneAssumption DEF EnrolInv, CountInv, Sound
        <4>2. conn'[k].step # "enrolling" /\ conn'[k].step # "signing"
          BY <1>1, <1>2, FreeType DEF Becomes, Kept, EnrolInv, TypeOK
        <4> QED BY <1>1, <2>4, <4>1, <4>2 DEF Uncounted
      <3>2. Uncounted(t)' \in SUBSET (Uncounted(t) \ {k})
        BY <2>2, <3>1
      <3>3. Cardinality(Uncounted(t) \ {k}) = Cardinality(Uncounted(t)) - 1
            /\ Cardinality(Uncounted(t)) \in Nat
        BY <2>2, <3>1, ConnFinite, FS_RemoveElement
      <3>4. Cardinality(Uncounted(t)') <= Cardinality(Uncounted(t) \ {k})
            /\ Cardinality(Uncounted(t)') \in Nat
        BY <2>2, <3>2, SubsetCount
      <3> QED BY <2>1, <2>4, <3>3, <3>4
    <2> QED BY <1>4, <2>3, <2>4
  <1> QED BY <1>5, <1>7, <1>8 DEF EnrolInv, CapNearlyKept

LEMMA AsksStep ==
    ASSUME EnrolInv, NEW m \in Machine, NEW what \in {"approve", "reject", "remove"}, Asks(what, m)
    PROVE  EnrolInv'
  <1>1. \A j \in Conn : conn[j] \in Socket /\ Sound(conn[j])
    BY DEF EnrolInv, TypeOK, CountInv
  <1>2. \A j \in Conn : Old(conn[j]) \in Socket /\ Meek(conn[j], conn[j]) /\ Meek(conn[j], Old(conn[j]))
    BY <1>1, KinMeek, KeptType DEF Kin, Sound
  <1>3. /\ conn' \in [Conn -> Socket]
        /\ \A j \in Conn : Meek(conn[j], conn'[j])
    BY <1>1, <1>2 DEF Asks, EnrolInv, TypeOK
  <1>4. saved' \in [Machine -> Credential]
    BY DEF Asks, EnrolInv, TypeOK, Aged, Credential
  <1>5. removals' \in 0 .. MaxRemovals /\ losses' \in 0 .. MaxLosses
    BY BoundsAssumption DEF Asks, EnrolInv, TypeOK
  <1>6. machine' \in [Machine -> {"unknown", "pending", "approved", "rejected"}]
    <2>1. CASE what = "approve"
      BY <2>1 DEF Asks, EnrolInv, TypeOK
    <2>2. CASE what = "reject"
      BY <2>2 DEF Asks, EnrolInv, TypeOK
    <2>3. CASE what = "remove"
      BY <2>3 DEF Asks, EnrolInv, TypeOK
    <2> QED BY <2>1, <2>2, <2>3
  <1>7. desk' \subseteq {"approve", "reject", "remove"} \X Machine /\ overtaken' \subseteq Machine
    BY DEF Asks, EnrolInv, TypeOK
  <1>8. UNCHANGED <<token, count, required, file, told, forgotten, losses>>
    BY DEF Asks
  <1>9. TypeOK'
    BY <1>3, <1>4, <1>5, <1>6, <1>7, <1>8 DEF EnrolInv, TypeOK, file
  <1>10. \A t \in Token : token'[t].uses <= token[t].uses
    BY <1>8 DEF EnrolInv, TypeOK
  <1> QED BY <1>3, <1>8, <1>9, <1>10, QuietCount, QuietCap DEF EnrolInv, file

LEMMA ClosesAllMeek ==
    ASSUME EnrolInv, NEW S, ClosesAll(S)
    PROVE  conn' \in [Conn -> Socket] /\ \A j \in Conn : Meek(conn[j], conn'[j])
  <1>1. \A j \in Conn : conn[j] \in Socket /\ Sound(conn[j])
    BY DEF EnrolInv, TypeOK, CountInv
  <1>2. \A j \in Conn : Closing(conn[j]) \in Socket
                         /\ Meek(conn[j], conn[j]) /\ Meek(conn[j], Closing(conn[j]))
    BY <1>1, KinMeek, KeptType DEF Kin, Sound
  <1> QED BY <1>1, <1>2 DEF ClosesAll

LEMMA ApproveEndsStep == ASSUME EnrolInv, NEW m \in Machine, ApproveEnds(m) PROVE EnrolInv'
  <1>1. TypeOK'
    BY DEF ApproveEnds, Answered, EnrolInv, TypeOK, bounds, file
  <1>2. \A t \in Token : token'[t].uses <= token[t].uses
    BY DEF ApproveEnds, EnrolInv, TypeOK
  <1> QED BY <1>1, <1>2, ConnQuiet DEF ApproveEnds, file

LEMMA RejectEndsStep == ASSUME EnrolInv, NEW m \in Machine, RejectEnds(m) PROVE EnrolInv'
  <1>1. conn' \in [Conn -> Socket] /\ \A j \in Conn : Meek(conn[j], conn'[j])
    BY ClosesAllMeek DEF RejectEnds
  <1>2. TypeOK'
    BY <1>1 DEF RejectEnds, Answered, EnrolInv, TypeOK, bounds, file
  <1>3. \A t \in Token : token'[t].uses <= token[t].uses
    BY DEF RejectEnds, EnrolInv, TypeOK
  <1> QED BY <1>1, <1>2, <1>3, QuietCount, QuietCap DEF RejectEnds, EnrolInv, file

(* Removing forgets the count; the sockets that are left make up for it.     *)
LEMMA RemoveEndsStep == ASSUME EnrolInv, NEW m \in Machine, RemoveEnds(m) PROVE EnrolInv'
  <1>1. conn' \in [Conn -> Socket] /\ \A j \in Conn : Meek(conn[j], conn'[j])
    BY ClosesAllMeek DEF RemoveEnds
  <1>2. TypeOK'
    BY <1>1 DEF RemoveEnds, Answered, EnrolInv, TypeOK, bounds, file
  <1>3. \A t \in Token : token'[t].uses <= token[t].uses
    BY DEF RemoveEnds, EnrolInv, TypeOK
  <1>4. CapNearlyKept'
    BY <1>1, <1>2, <1>3, QuietCap DEF RemoveEnds, EnrolInv, file
  <1>5. \A n \in Machine : InHub(n)' = InHub(n)
    BY <1>1 DEF EnrolInv, CountInv, InHub, Of, Meek, Sound
  <1>6. \A n \in Machine : Cardinality(InHub(n)) \in Nat /\ (InHub(n) = {} => Cardinality(InHub(n)) = 0)
    BY ConnFinite, FS_EmptySet DEF InHub, Of
  <1>7. count' = [count EXCEPT ![m] = 0]
        /\ forgotten' = IF InHub(m) = {} THEN forgotten ELSE forgotten \cup {m}
    BY DEF RemoveEnds
  <1>8. CountInv'
    <2>1. \A j \in Conn : Sound(conn'[j])
      BY <1>1 DEF Meek
    <2>2. ASSUME NEW n \in Machine
          PROVE  count'[n] <= Cardinality(InHub(n)')
                 /\ (n \notin forgotten' => count'[n] = Cardinality(InHub(n)'))
      BY <1>5, <1>6, <1>7 DEF EnrolInv, CountInv, TypeOK
    <2> QED BY <2>1, <2>2 DEF CountInv
  <1> QED BY <1>2, <1>4, <1>8 DEF EnrolInv

LEMMA TokenTurnsStep == ASSUME EnrolInv, NEW t \in Token, TokenTurns(t) PROVE EnrolInv'
  <1>1. PICK next \in {"live", "dead", "gone"} :
           token' = [token EXCEPT ![t] = [state |-> next, uses |-> IF next = "gone" THEN 0 ELSE @.uses]]
    BY DEF TokenTurns
  <1>2. token' \in [Token -> [state : {"uncut", "live", "dead", "gone"}, uses : Nat]]
        /\ \A u \in Token : token'[u].uses <= token[u].uses
    BY <1>1 DEF EnrolInv, TypeOK
  <1>3. UNCHANGED <<machine, conn, count, desk, required, saved, file, told, overtaken, forgotten, bounds>>
    BY DEF TokenTurns
  <1>4. TypeOK'
    BY <1>2, <1>3 DEF EnrolInv, TypeOK, bounds, file
  <1> QED BY <1>2, <1>3, <1>4, ConnQuiet DEF file

(* A close takes the socket out of the hub and off the count.                *)
LEMMA ClosedStep == ASSUME EnrolInv, NEW k \in Conn, Closed(k) PROVE EnrolInv'
  <1> DEFINE d == [conn[k] EXCEPT !.sock = "closed", !.hub = FALSE]
  <1>0. PICK m \in Machine : conn[k].of = m
    BY DEF Closed, EnrolInv, CountInv, Sound
  <1>1. /\ conn[k].sock \in {"open", "closing"} /\ Becomes(k, d)
        /\ count' = IF conn[k].reg THEN [count EXCEPT ![m] = OneLess(@)] ELSE count
        /\ (Leaves(m) \/ UNCHANGED <<dial, told, overtaken>>)
        /\ forgotten' = IF InHub(m) \subseteq {k} THEN forgotten \ {m} ELSE forgotten
        /\ UNCHANGED <<machine, token, desk, required, saved, bundle, stick, bounds>>
    BY <1>0 DEF Closed
  <1>2. conn[k] \in Socket /\ Sound(conn[k])
    BY DEF EnrolInv, TypeOK, CountInv
  <1>3. d \in Socket /\ d.of = m /\ d.hub = FALSE /\ d.reg = conn[k].reg /\ d.sock = "closed"
        /\ d.step = conn[k].step /\ d.kind = conn[k].kind
    BY <1>0, <1>2 DEF Socket
  <1> HIDE DEF d
  <1>4. conn[k].of = m /\ (conn[k].hub <=> conn[k].reg)
    BY <1>0, <1>1, <1>2 DEF Sound
  <1>5. conn' = [conn EXCEPT ![k] = Kept(d)] /\ Kept(d) \in Socket /\ Kept(d) \in {d, Free}
    BY <1>1, <1>3, KeptType DEF Becomes, Kept
  <1>6. Sound(Kept(d)) /\ Kept(d).hub = FALSE /\ (Waits(Kept(d)) => Waits(conn[k]) /\ Kept(d).of = m)
    <2>1. Sound(Free) /\ ~Waits(Free)
      BY DEF Sound, Waits, Free
    <2>2. Sound(d) /\ (Waits(d) => Waits(conn[k]))
      BY <1>3, <1>4 DEF Sound, Waits
    <2> QED BY <1>3, <1>5, <2>1, <2>2, FreeType
  <1>7. TypeOK'
    <2>1. conn' \in [Conn -> Socket]
      BY <1>5, Agree DEF EnrolInv
    <2>2. count' \in [Machine -> Nat]
      <3>1. OneLess(count[m]) \in Nat
        BY DEF EnrolInv, TypeOK, OneLess
      <3> HIDE DEF OneLess
      <3> QED BY <1>1, <3>1 DEF EnrolInv, TypeOK
    <2>3. /\ dial' \in [Machine -> Conn \cup {None}]
          /\ told' \in [Machine -> {"nothing", "pending", "applied"}]
          /\ overtaken' \subseteq Machine
      BY <1>1, LeavesType DEF EnrolInv, TypeOK
    <2> QED BY <1>1, <2>1, <2>2, <2>3 DEF EnrolInv, TypeOK, bounds
  <1>8. CountInv'
    <2>1. \A j \in Conn : Sound(conn'[j])
      BY <1>5, <1>6 DEF EnrolInv, TypeOK, CountInv
    <2>2. \A n \in Machine : InHub(n)' = IF n = m THEN InHub(n) \ {k} ELSE InHub(n)
      BY <1>4, <1>5, <1>6 DEF EnrolInv, TypeOK, InHub, Of
    <2>3. ASSUME NEW n \in Machine, n # m
          PROVE  count'[n] <= Cardinality(InHub(n)')
                 /\ (n \notin forgotten' => count'[n] = Cardinality(InHub(n)'))
      BY <1>1, <2>2, <2>3 DEF EnrolInv, CountInv, TypeOK
    <2>4. count'[m] <= Cardinality(InHub(m)') /\ (m \notin forgotten' => count'[m] = Cardinality(InHub(m)'))
      <3>1. InHub(m) \in SUBSET Conn /\ (k \in InHub(m) <=> conn[k].reg)
        BY <1>4 DEF InHub, Of
      <3>2. /\ IsFiniteSet(InHub(m)) /\ Cardinality(InHub(m)) \in Nat
            /\ Cardinality(InHub(m) \ {k}) = IF conn[k].reg THEN Cardinality(InHub(m)) - 1
                                                            ELSE Cardinality(InHub(m))
            /\ Cardinality(InHub(m) \ {k}) \in Nat
        BY <3>1, ConnFinite, FS_RemoveElement
      <3>3. InHub(m) \subseteq {k} => Cardinality(InHub(m) \ {k}) = 0
        BY FS_EmptySet, InHub(m) \subseteq {k} => InHub(m) \ {k} = {}
      <3>4. count[m] \in Nat /\ count[m] <= Cardinality(InHub(m))
            /\ (m \notin forgotten => count[m] = Cardinality(InHub(m)))
        BY <1>4 DEF EnrolInv, TypeOK, CountInv
      <3>5. count'[m] = IF conn[k].reg THEN OneLess(count[m]) ELSE count[m]
        BY <1>1, <1>4 DEF EnrolInv, TypeOK
      <3>6. InHub(m)' = InHub(m) \ {k}
        BY <1>4, <2>2
      <3> QED BY <1>1, <3>2, <3>3, <3>4, <3>5, <3>6 DEF OneLess
    <2> QED BY <2>1, <2>3, <2>4 DEF CountInv
  <1>9. CapNearlyKept'
    <2> SUFFICES ASSUME NEW t \in Token
                 PROVE  token'[t].uses + Cardinality(Uncounted(t)') < Cap + Sockets
      BY DEF CapNearlyKept
    <2>1. Uncounted(t) \in SUBSET Conn /\ Uncounted(t)' \in SUBSET Uncounted(t)
      <3>1. \A j \in Conn : Waits(conn'[j]) => Waits(conn[j]) /\ conn'[j].of = conn[j].of
        BY <1>0, <1>5, <1>6 DEF EnrolInv, TypeOK
      <3> QED BY <1>1, <3>1 DEF Uncounted, Waits
    <2>2. token'[t].uses = token[t].uses /\ token[t].uses \in Nat
          /\ token[t].uses + Cardinality(Uncounted(t)) < Cap + Sockets
      BY <1>1 DEF EnrolInv, TypeOK, CapNearlyKept
    <2> QED BY <2>1, <2>2, SubsetCount, BoundsAssumption
  <1> QED BY <1>7, <1>8, <1>9 DEF EnrolInv

-----------------------------------------------------------------------------
(* The hello *)

LEMMA EnteredType ==
    ASSUME NEW c \in Socket
    PROVE  /\ Entered(c) \in Socket /\ [Entered(c) EXCEPT !.cred = "current"] \in Socket
           /\ \A d \in {Entered(c), [Entered(c) EXCEPT !.cred = "current"]} :
                 /\ d.of = c.of /\ d.sock = c.sock
                 /\ d.reg = (c.reg \/ Enters(c)) /\ d.hub = (c.hub \/ Enters(c))
                 /\ d.step = FirstStep(c.kind)
                 /\ d.step \in {"registering", "enrolling", "touching"}
                 /\ d.step = "enrolling" => c.kind = "enrol"
  <1>1. /\ FirstStep(c.kind) \in Step
        /\ FirstStep(c.kind) \in {"registering", "enrolling", "touching"}
        /\ FirstStep(c.kind) = "enrolling" => c.kind = "enrol"
    BY DEF FirstStep, Step
  <1>2. Enters(c) \in BOOLEAN
    BY DEF Enters, Socket
  <1>3. /\ Entered(c) \in Socket
        /\ Entered(c).of = c.of /\ Entered(c).sock = c.sock /\ Entered(c).step = FirstStep(c.kind)
        /\ Entered(c).reg = (c.reg \/ Enters(c)) /\ Entered(c).hub = (c.hub \/ Enters(c))
    BY <1>1, <1>2 DEF Entered, Socket
  <1> HIDE DEF Socket
  <1> DEFINE f == [Entered(c) EXCEPT !.cred = "current"]
  <1>4. /\ f \in Socket
        /\ f.of = Entered(c).of /\ f.sock = Entered(c).sock /\ f.step = Entered(c).step
        /\ f.reg = Entered(c).reg /\ f.hub = Entered(c).hub
    BY <1>3 DEF Socket, Credential
  <1> QED BY <1>1, <1>3, <1>4

(* What entering does to the sockets: k goes on, and where a credential is   *)
(* handed out those of the others of its box are older by one.               *)
LEMMA EnterShape ==
    ASSUME TypeOK, NEW k \in Conn, NEW c \in Socket, NEW m \in Machine, c.of = m, Enter(k, c)
    PROVE  \E d \in {Entered(c), [Entered(c) EXCEPT !.cred = "current"]} :
              /\ conn' \in [Conn -> Socket] /\ conn'[k] = d
              /\ \A j \in Conn \ {k} : conn'[j] \in {conn[j], Old(conn[j])}
              /\ saved' \in [Machine -> Credential]
  <1>0. \A j \in Conn : conn[j] \in Socket /\ Old(conn[j]) \in Socket
    BY KeptType DEF TypeOK
  <1>1. Entered(c) \in Socket /\ [Entered(c) EXCEPT !.cred = "current"] \in Socket
        /\ Entered(c).step # "idle"
    BY EnteredType
  <1>2. CASE c.cred = "none"
    <2>1. conn' = [conn EXCEPT ![k] = Kept(Entered(c))] /\ saved' = saved
      BY <1>2 DEF Enter, Becomes
    <2>2. Kept(Entered(c)) = Entered(c)
      BY <1>1 DEF Kept
    <2> QED BY <1>1, <2>1, <2>2 DEF EnrolInv, TypeOK
  <1>3. CASE c.cred # "none"
    <2>1. /\ conn' = [j \in Conn |-> IF j = k THEN [Entered(c) EXCEPT !.cred = "current"]
                                     ELSE IF j \in Of(m) THEN Old(conn[j]) ELSE conn[j]]
          /\ saved' = [saved EXCEPT ![m] = Aged(@)]
      BY <1>3 DEF Enter
    <2>2. saved' \in [Machine -> Credential]
      BY <2>1 DEF EnrolInv, TypeOK, Aged, Credential
    <2>3. conn' \in [Conn -> Socket]
      BY <1>0, <1>1, <2>1
    <2> QED BY <2>1, <2>2, <2>3
  <1> QED BY <1>2, <1>3

(* Entering: the socket gets into the hub and onto the count together.       *)
LEMMA EnterStep ==
    ASSUME EnrolInv, NEW k \in Conn, NEW c \in Socket, NEW m \in Machine,
           c.of = m, Kin(conn[k], c), c.sock = conn[k].sock, Enter(k, c), forgotten' = forgotten
    PROVE  /\ conn' \in [Conn -> Socket] /\ count' \in [Machine -> Nat]
           /\ saved' \in [Machine -> Credential]
           /\ machine' \in [Machine -> {"unknown", "pending", "approved", "rejected"}]
           /\ CountInv'
           /\ \A j \in Conn \ {k} : Meek(conn[j], conn'[j])
           /\ conn'[k].of = m /\ conn'[k].step # "signing"
           /\ conn'[k].step = "enrolling" => c.kind = "enrol"
  <1>1. \A j \in Conn : conn[j] \in Socket /\ Sound(conn[j])
    BY DEF EnrolInv, TypeOK, CountInv
  <1>2. \A j \in Conn : Old(conn[j]) \in Socket /\ Meek(conn[j], conn[j]) /\ Meek(conn[j], Old(conn[j]))
    BY <1>1, KinMeek, KeptType DEF Kin, Sound
  <1>3. PICK d \in {Entered(c), [Entered(c) EXCEPT !.cred = "current"]} :
           /\ conn' \in [Conn -> Socket] /\ conn'[k] = d
           /\ \A j \in Conn \ {k} : conn'[j] \in {conn[j], Old(conn[j])}
           /\ saved' \in [Machine -> Credential]
    BY EnterShape DEF EnrolInv
  <1>4. /\ d.of = m /\ d.sock = conn[k].sock
        /\ d.reg = (conn[k].reg \/ Enters(c)) /\ d.hub = (conn[k].hub \/ Enters(c))
        /\ d.step \in {"registering", "enrolling", "touching"}
        /\ d.step = "enrolling" => c.kind = "enrol"
    <2>1. /\ d.of = c.of /\ d.sock = c.sock
          /\ d.reg = (c.reg \/ Enters(c)) /\ d.hub = (c.hub \/ Enters(c))
          /\ d.step \in {"registering", "enrolling", "touching"}
          /\ d.step = "enrolling" => c.kind = "enrol"
      BY EnteredType
    <2>2. c.reg = conn[k].reg /\ c.hub = conn[k].hub
      BY DEF Kin
    <2> QED BY <2>1, <2>2
  <1>5. \A j \in Conn \ {k} : Meek(conn[j], conn'[j])
    BY <1>2, <1>3
  <1>6. /\ count' = IF Enters(c) THEN [count EXCEPT ![m] = @ + 1] ELSE count
        /\ Enters(c) => ~conn[k].reg /\ ~conn[k].hub
    BY <1>1 DEF Enter, Enters, Kin, Sound
  <1>7. machine' \in [Machine -> {"unknown", "pending", "approved", "rejected"}]
    BY DEF Enter, EnrolInv, TypeOK
  <1>8. count' \in [Machine -> Nat]
    BY <1>6 DEF EnrolInv, TypeOK
  <1>9. Sound(d)
    BY <1>1, <1>4, <1>6 DEF Sound
  <1>10. CountInv'
    <2>1. \A j \in Conn : Sound(conn'[j])
      BY <1>3, <1>5, <1>9 DEF Meek
    <2>2. conn[k].hub => conn[k].of = m
      BY DEF Kin
    <2>3. \A n \in Machine : InHub(n)' = IF n = m /\ Enters(c) THEN InHub(n) \cup {k} ELSE InHub(n)
      <3> SUFFICES ASSUME NEW n \in Machine, NEW j \in Conn
                   PROVE  (conn'[j].of = n /\ conn'[j].hub)
                            <=> ((conn[j].of = n /\ conn[j].hub) \/ (n = m /\ Enters(c) /\ j = k))
        BY DEF InHub, Of
      <3>1. CASE j = k
        BY <1>3, <1>4, <2>2, <3>1
      <3>2. CASE j # k
        BY <1>1, <1>5, <3>2 DEF Meek, Sound
      <3> QED BY <3>1, <3>2
    <2>4. /\ InHub(m) \in SUBSET Conn /\ (Enters(c) => k \notin InHub(m))
      BY <1>6 DEF InHub, Of
    <2>5. /\ Cardinality(InHub(m)) \in Nat
          /\ Enters(c) => Cardinality(InHub(m) \cup {k}) = Cardinality(InHub(m)) + 1
      BY <2>4, ConnFinite, FS_AddElement
    <2>6. ASSUME NEW n \in Machine
          PROVE  count'[n] <= Cardinality(InHub(n)')
                 /\ (n \notin forgotten' => count'[n] = Cardinality(InHub(n)'))
      <3>1. CASE n = m /\ Enters(c)
        <4>1. /\ count[m] \in Nat /\ count[m] <= Cardinality(InHub(m))
              /\ m \notin forgotten => count[m] = Cardinality(InHub(m))
          BY DEF EnrolInv, TypeOK, CountInv
        <4>2. count'[n] = count[m] + 1
          BY <1>6, <3>1 DEF EnrolInv, TypeOK
        <4>3. Cardinality(InHub(n)') = Cardinality(InHub(m)) + 1
          BY <2>3, <2>5, <3>1
        <4> QED BY <2>5, <3>1, <4>1, <4>2, <4>3
      <3>2. CASE ~(n = m /\ Enters(c))
        <4>1. InHub(n)' = InHub(n) /\ count'[n] = count[n]
          BY <1>6, <2>3, <3>2 DEF EnrolInv, TypeOK
        <4> QED BY <4>1 DEF EnrolInv, CountInv
      <3> QED BY <3>1, <3>2
    <2> QED BY <2>1, <2>6 DEF CountInv
  <1> QED BY <1>3, <1>4, <1>5, <1>7, <1>8, <1>10

(* One more may wait to be counted only where there was room.                *)
LEMMA OneMore ==
    ASSUME TypeOK, CapNearlyKept, conn' \in [Conn -> Socket], NEW k \in Conn,
           stick' = stick, token' = token,
           \A j \in Conn \ {k} : Meek(conn[j], conn'[j]),
           Waits(conn'[k]) => \/ Waits(conn[k]) /\ conn'[k].of = conn[k].of
                             \/ token[stick[conn'[k].of]].uses < Cap
    PROVE  CapNearlyKept'
  <1> SUFFICES ASSUME NEW t \in Token
               PROVE  token[t].uses + Cardinality(Uncounted(t)') < Cap + Sockets
    BY DEF CapNearlyKept
  <1>1. token[t].uses \in Nat /\ Cap \in Nat /\ Sockets \in Nat
        /\ token[t].uses + Cardinality(Uncounted(t)) < Cap + Sockets
    BY BoundsAssumption DEF TypeOK, CapNearlyKept
  <1>2. Uncounted(t) \in SUBSET Conn /\ Uncounted(t)' \in SUBSET Conn
    BY DEF Uncounted
  <1>3. CASE token[t].uses < Cap
    BY <1>1, <1>2, <1>3, ConnFinite
  <1>4. CASE ~(token[t].uses < Cap)
    <2>1. Uncounted(t)' \in SUBSET Uncounted(t)
      BY <1>4 DEF Uncounted, Meek, Waits
    <2> QED BY <1>1, <1>2, <2>1, SubsetCount
  <1> QED BY <1>3, <1>4

LEMMA SignedStep == ASSUME EnrolInv, NEW k \in Conn, Signed(k) PROVE EnrolInv'
  <1>1. /\ conn[k].step = "signing" /\ Enter(k, conn[k]) /\ overtaken' = Overtaking(k)
        /\ UNCHANGED <<token, desk, required, file, told, forgotten, bounds>>
    BY DEF Signed
  <1>2. conn[k] \in Socket /\ conn[k].of \in Machine /\ Kin(conn[k], conn[k])
    BY <1>1 DEF EnrolInv, TypeOK, CountInv, Sound, Kin
  <1>3. PICK m \in Machine : conn[k].of = m
    BY <1>2
  <1>4. /\ conn' \in [Conn -> Socket] /\ count' \in [Machine -> Nat]
        /\ saved' \in [Machine -> Credential]
        /\ machine' \in [Machine -> {"unknown", "pending", "approved", "rejected"}]
        /\ CountInv'
        /\ \A j \in Conn \ {k} : Meek(conn[j], conn'[j])
        /\ conn'[k].of = m /\ conn'[k].step # "signing"
        /\ conn'[k].step = "enrolling" => conn[k].kind = "enrol"
    BY <1>1, <1>2, <1>3, EnterStep
  <1>5. overtaken' \subseteq Machine
    BY <1>1, <1>2, OvertakingType DEF EnrolInv
  <1>6. TypeOK'
    BY <1>1, <1>4, <1>5 DEF EnrolInv, TypeOK, bounds, file
  <1>7. Waits(conn'[k]) => Waits(conn[k]) /\ conn'[k].of = conn[k].of
    BY <1>1, <1>3, <1>4 DEF Waits
  <1> QED BY <1>1, <1>4, <1>6, <1>7, OneMore DEF EnrolInv, file

LEMMA AuthenticateType ==
    ASSUME TypeOK, NEW m \in Machine, NEW g
    PROVE  LET d == Authenticate(m, g) IN
           /\ d.kind \in {"open", "admit", "pending", "enrol", "reject"} /\ d.new \in BOOLEAN
           /\ d.kind = "enrol" => token[stick[m]].uses < Cap
  BY DEF Authenticate, Usable, TypeOK

LEMMA DecidedType ==
    ASSUME NEW c \in Socket, NEW d,
           d.kind \in {"open", "admit", "pending", "enrol", "reject"}, d.new \in BOOLEAN
    PROVE  LET e == Decided(c, d) IN
           /\ e \in Socket /\ [e EXCEPT !.step = "signing"] \in Socket
           /\ \A f \in {e, [e EXCEPT !.step = "signing"]} :
                 /\ f.of = c.of /\ f.reg = c.reg /\ f.hub = c.hub /\ f.sock = c.sock
                 /\ f.kind = IF d.kind = "reject" THEN "none" ELSE d.kind
           /\ e.step = c.step
  <1>1. /\ (IF d.kind = "reject" THEN "none" ELSE d.kind) \in {"none", "open", "admit", "enrol", "pending"}
        /\ (IF d.new THEN "old" ELSE "none") \in Credential
    BY DEF Credential
  <1>2. /\ Decided(c, d) \in Socket
        /\ Decided(c, d).of = c.of /\ Decided(c, d).reg = c.reg /\ Decided(c, d).hub = c.hub
        /\ Decided(c, d).sock = c.sock /\ Decided(c, d).step = c.step
        /\ Decided(c, d).kind = IF d.kind = "reject" THEN "none" ELSE d.kind
    BY <1>1 DEF Decided, Socket, Credential
  <1> DEFINE f == [Decided(c, d) EXCEPT !.step = "signing"]
  <1>3. /\ f \in Socket
        /\ f.of = Decided(c, d).of /\ f.reg = Decided(c, d).reg /\ f.hub = Decided(c, d).hub
        /\ f.sock = Decided(c, d).sock /\ f.kind = Decided(c, d).kind
    BY <1>2 DEF Socket, Step
  <1> QED BY <1>2, <1>3

(* A hello that waits for a signature first: the hub does not see it yet.    *)
LEMMA SigningStep ==
    ASSUME EnrolInv, TypeOK', NEW k \in Conn, NEW m \in Machine, conn[k].of = m,
           NEW e \in Socket, e.of = m, e.reg = conn[k].reg, e.hub = conn[k].hub, e.sock = conn[k].sock,
           conn' = [conn EXCEPT ![k] = e], Waits(e) => token[stick[m]].uses < Cap,
           UNCHANGED <<token, count, stick, forgotten>>
    PROVE  EnrolInv'
  <1>1. \A j \in Conn : conn[j] \in Socket /\ Sound(conn[j])
    BY DEF EnrolInv, TypeOK, CountInv
  <1>2. conn' \in [Conn -> Socket] /\ conn'[k] = e /\ \A j \in Conn \ {k} : conn'[j] = conn[j]
    BY DEF EnrolInv, TypeOK
  <1>3. \A j \in Conn \ {k} : Meek(conn[j], conn'[j])
    BY <1>1, <1>2, KinMeek DEF Kin, Sound
  <1>4. Sound(e)
    BY <1>1 DEF Sound
  <1>5. \A j \in Conn : Sound(conn'[j])
    BY <1>1, <1>2, <1>4
  <1>6. \A n \in Machine : InHub(n)' = InHub(n)
    <2> SUFFICES ASSUME NEW n \in Machine, NEW j \in Conn
                 PROVE  (conn'[j].of = n /\ conn'[j].hub) <=> (conn[j].of = n /\ conn[j].hub)
      BY DEF InHub, Of
    <2> QED BY <1>2
  <1>7. CountInv'
    BY <1>5, <1>6 DEF EnrolInv, CountInv
  <1>8. CapNearlyKept'
    BY <1>2, <1>3, OneMore DEF EnrolInv
  <1> QED BY <1>7, <1>8 DEF EnrolInv

LEMMA HelloStep == ASSUME EnrolInv, NEW k \in Conn, Hello(k) PROVE EnrolInv'
  <1>0. PICK m \in Machine : conn[k].of = m
    BY DEF Hello, EnrolInv, CountInv, Sound
  <1>1. PICK g : g = IF conn[k].reg THEN saved[m] ELSE conn[k].given
    OBVIOUS
  <1> DEFINE a == Authenticate(m, g)
             c == Decided(conn[k], a)
             begins == IF dial[m] = k THEN overtaken \ {m} ELSE overtaken
  <1>2. /\ conn[k].sock = "open" /\ conn[k].step = "idle"
        /\ \/ /\ a.kind = "reject" /\ Becomes(k, Closing(c)) /\ overtaken' = begins
              /\ UNCHANGED <<machine, count, saved>>
           \/ /\ a.kind # "reject" /\ Enter(k, c)
              /\ overtaken' = IF dial[m] = k THEN begins ELSE Overtaking(k)
           \/ /\ a.kind # "reject" /\ Becomes(k, [c EXCEPT !.step = "signing"]) /\ overtaken' = begins
              /\ UNCHANGED <<machine, count, saved>>
        /\ UNCHANGED <<token, desk, required, file, told, forgotten, bounds>>
    BY <1>0, <1>1 DEF Hello, Busy
  <1>3. /\ a.kind \in {"open", "admit", "pending", "enrol", "reject"} /\ a.new \in BOOLEAN
        /\ a.kind = "enrol" => token[stick[m]].uses < Cap
    BY AuthenticateType DEF EnrolInv
  <1>4. conn[k] \in Socket /\ Sound(conn[k])
    BY DEF EnrolInv, TypeOK, CountInv
  <1>5. /\ c \in Socket /\ [c EXCEPT !.step = "signing"] \in Socket /\ c.step = "idle"
        /\ \A f \in {c, [c EXCEPT !.step = "signing"]} :
              /\ f.of = m /\ f.reg = conn[k].reg /\ f.hub = conn[k].hub /\ f.sock = conn[k].sock
              /\ f.kind = IF a.kind = "reject" THEN "none" ELSE a.kind
    <2> HIDE DEF a
    <2> QED BY <1>0, <1>2, <1>3, <1>4, DecidedType
  <1>6. begins \subseteq Machine /\ Overtaking(k) \subseteq Machine
    BY <1>0, OvertakingType DEF EnrolInv, TypeOK
  <1> HIDE DEF a, c, begins
  <1>7. \A t \in Token : token'[t].uses <= token[t].uses
    BY <1>2 DEF EnrolInv, TypeOK
  <1>8. CASE /\ Becomes(k, Closing(c)) /\ overtaken' = begins
             /\ UNCHANGED <<machine, count, saved>>
    <2>1. Kin(conn[k], c) /\ ~Waits(c)
      BY <1>0, <1>5 DEF Kin, Waits
    <2>2. conn' \in [Conn -> Socket]
      BY <1>5, <1>8, KeptType, Agree DEF Becomes, EnrolInv
    <2>3. TypeOK'
      BY <1>2, <1>6, <1>8, <2>2 DEF EnrolInv, TypeOK, bounds, file
    <2> QED BY <1>2, <1>5, <1>7, <1>8, <2>1, <2>3, BecomesQuiet DEF file
  <1>9. CASE Enter(k, c) /\ overtaken' = IF dial[m] = k THEN begins ELSE Overtaking(k)
    <2>1. Kin(conn[k], c)
      BY <1>0, <1>5 DEF Kin
    <2>2. /\ conn' \in [Conn -> Socket] /\ count' \in [Machine -> Nat]
          /\ saved' \in [Machine -> Credential]
          /\ machine' \in [Machine -> {"unknown", "pending", "approved", "rejected"}]
          /\ CountInv'
          /\ \A j \in Conn \ {k} : Meek(conn[j], conn'[j])
          /\ conn'[k].of = m /\ conn'[k].step # "signing"
          /\ conn'[k].step = "enrolling" => c.kind = "enrol"
      BY <1>2, <1>5, <1>9, <2>1, EnterStep
    <2>3. TypeOK'
      BY <1>2, <1>6, <1>9, <2>2 DEF EnrolInv, TypeOK, bounds, file
    <2>4. Waits(conn'[k]) => token[stick[conn'[k].of]].uses < Cap
      BY <1>3, <1>5, <2>2 DEF Waits
    <2> QED BY <1>2, <2>2, <2>3, <2>4, OneMore DEF EnrolInv, file
  <1>10. CASE /\ Becomes(k, [c EXCEPT !.step = "signing"]) /\ overtaken' = begins
              /\ UNCHANGED <<machine, count, saved>>
    <2>1. PICK e : e = [c EXCEPT !.step = "signing"]
      OBVIOUS
    <2>2. /\ e \in Socket /\ e.of = m /\ e.kind = (IF a.kind = "reject" THEN "none" ELSE a.kind)
          /\ e.reg = conn[k].reg /\ e.hub = conn[k].hub /\ e.sock = conn[k].sock
      BY <1>5, <2>1
    <2>3. e.step = "signing"
      BY <1>5, <2>1 DEF Socket
    <2>4. conn' = [conn EXCEPT ![k] = e]
      BY <1>10, <2>1, <2>3 DEF Becomes, Kept
    <2>5. conn' \in [Conn -> Socket]
      BY <2>2, <2>4, Agree DEF EnrolInv
    <2>6. TypeOK'
      BY <1>2, <1>6, <1>10, <2>5 DEF EnrolInv, TypeOK, bounds, file
    <2>7. Waits(e) => token[stick[m]].uses < Cap
      BY <1>3, <2>2, <2>3 DEF Waits
    <2> QED BY <1>0, <1>2, <1>10, <2>2, <2>4, <2>6, <2>7, SigningStep DEF file
  <1> QED BY <1>2, <1>8, <1>9, <1>10

-----------------------------------------------------------------------------
(* What a box was told *)

(* How far the handler of the box's socket has got agrees with the registry; *)
(* and when it is through, the box was told what the registry says, or a     *)
(* request of an operator that will tell it, or put it out, is not answered. *)
Agrees(c, m) ==
    /\ c.step = "signing" => c.kind # "none" /\ (c.kind = "pending" => machine[m] = "pending")
    /\ c.step \in {"registering", "approving"} => machine[m] = "approved"
    /\ c.step \in {"enrolling", "counting", "naming", "touching"} => machine[m] = "pending"
    /\ c.step = "idle" /\ c.reg =>
          /\ machine[m] = "approved" => told[m] = "applied" \/ <<"approve", m>> \in desk
          /\ machine[m] \in {"rejected", "unknown"} =>
                <<"reject", m>> \in desk \/ <<"remove", m>> \in desk

OnSocket(c, m) ==
    /\ c.of = m /\ c.sock \in {"open", "closing"}
    /\ c.sock = "open" /\ m \notin overtaken => Agrees(c, m)

(* The socket a box is on is its own, and agrees unless it was overtaken.    *)
SessionInv == \A m \in Machine : dial[m] \in Conn => OnSocket(conn[dial[m]], m)

LEMMA OldSame ==
    ASSUME NEW c \in Socket
    PROVE  /\ Old(c).of = c.of /\ Old(c).sock = c.sock /\ Old(c).step = c.step
           /\ Old(c).kind = c.kind /\ Old(c).reg = c.reg
  BY DEF Old, Socket

(* A handler of one socket leaves the boxes alone that are not on it, but for *)
(* those it overtakes.                                                       *)
LEMMA OneSocket ==
    ASSUME TypeOK, SessionInv, NEW k \in Conn, NEW m \in Machine, conn[k].of = m,
           dial' = dial, desk' = desk,
           \A j \in Conn \ {k} : conn'[j] \in {conn[j], Old(conn[j])},
           \A n \in Machine \ {m} : machine'[n] = machine[n] /\ told'[n] = told[n],
           \A n \in Machine \ {m} : n \in overtaken => n \in overtaken',
           dial[m] \in Conn \ {k} => /\ told'[m] = told[m]
                                     /\ m \in overtaken' \/ (m \notin overtaken /\ machine'[m] = machine[m]),
           dial[m] = k => OnSocket(conn[k], m)'
    PROVE  SessionInv'
  <1> SUFFICES ASSUME NEW n \in Machine, dial[n] \in Conn
               PROVE  OnSocket(conn[dial[n]], n)'
    BY DEF SessionInv
  <1>1. PICK j \in Conn : dial[n] = j
    OBVIOUS
  <1>2. CASE j # k
    <2>1. OnSocket(conn[j], n)
      BY <1>1 DEF SessionInv
    <2>2. conn[j] \in Socket
      BY DEF TypeOK
    <2>3. /\ conn'[j].of = n /\ conn'[j].sock = conn[j].sock /\ conn'[j].step = conn[j].step
          /\ conn'[j].kind = conn[j].kind /\ conn'[j].reg = conn[j].reg
      BY <1>2, <2>1, <2>2, OldSame DEF OnSocket
    <2>4. n \in overtaken' \/ (n \notin overtaken /\ machine'[n] = machine[n] /\ told'[n] = told[n])
      BY <1>1, <1>2
    <2>5. OnSocket(conn[j], n)'
      BY <2>1, <2>3, <2>4 DEF OnSocket, Agrees
    <2> QED BY <1>1, <2>5
  <1>3. CASE j = k
    <2>1. n = m
      BY <1>1, <1>3 DEF SessionInv, OnSocket
    <2> QED BY <1>1, <1>3, <2>1
  <1> QED BY <1>2, <1>3

(* Nothing moves that the sockets agree with. *)
LEMMA SameSockets ==
    ASSUME SessionInv, UNCHANGED <<machine, conn, desk, dial, told, overtaken>>
    PROVE  SessionInv'
  BY DEF SessionInv, OnSocket, Agrees

LEMMA KeptOpen ==
    ASSUME TypeOK, NEW k \in Conn, NEW d \in Socket, Becomes(k, d)
    PROVE  /\ \A j \in Conn \ {k} : conn'[j] = conn[j]
           /\ d.sock # "closed" => conn'[k] = d
  BY DEF TypeOK, Becomes, Kept

LEMMA ClosingShape ==
    ASSUME NEW c \in Socket, c.sock \in {"open", "closing"}
    PROVE  Closing(c) \in Socket /\ Closing(c).sock = "closing" /\ Closing(c).of = c.of
  BY DEF Closing, Socket

(* At the end of a hello the box is told what the registry says. *)
LEMMA DoneAgrees ==
    ASSUME TypeOK, SessionInv, NEW k \in Conn, NEW m \in Machine, conn[k].of = m,
           NEW what \in {"pending", "applied"}, Done(k, what),
           UNCHANGED <<machine, desk, dial, overtaken>>,
           dial[m] = k /\ conn[k].sock = "open" /\ m \notin overtaken =>
              machine[m] = IF what = "applied" THEN "approved" ELSE "pending"
    PROVE  SessionInv'
  <1> DEFINE c == Onto(conn[k], "idle")
  <1>1. c \in Socket /\ c.step = "idle" /\ c.of = m /\ c.sock = conn[k].sock
    BY OntoType DEF TypeOK, Step
  <1>2. \/ Becomes(k, Closing(c)) /\ told' = told
        \/ Becomes(k, c) /\ Tell(k, what)
    BY DEF Done
  <1> HIDE DEF c
  <1>3. \A j \in Conn \ {k} : conn'[j] = conn[j]
    BY <1>1, <1>2, KeptOpen, KeptType
  <1>4. \A n \in Machine : told'[n] = IF n = m /\ told' # told /\ Hears(k) THEN what ELSE told[n]
    BY <1>2 DEF Tell, TypeOK
  <1>5. ~Hears(k) => told' = told
    BY <1>2 DEF Tell
  <1>6. dial[m] = k => OnSocket(conn[k], m)'
    <2> HAVE dial[m] = k
    <2>1. conn[k].sock \in {"open", "closing"}
      BY DEF SessionInv, OnSocket
    <2>2. CASE Becomes(k, Closing(c))
      <3>1. Closing(c) \in Socket /\ Closing(c).sock = "closing" /\ Closing(c).of = m
        BY <1>1, <2>1, ClosingShape
      <3>2. conn'[k] = Closing(c)
        BY <2>2, <3>1, KeptOpen
      <3> QED BY <3>1, <3>2 DEF OnSocket
    <2>3. CASE Becomes(k, c) /\ Tell(k, what)
      <3>1. conn'[k] = c
        BY <1>1, <2>1, <2>3, KeptOpen
      <3>2. conn[k].sock = "open" => told'[m] = what
        BY <2>3 DEF Tell, Hears, TypeOK
      <3> QED BY <1>1, <2>1, <3>1, <3>2 DEF OnSocket, Agrees
    <2> QED BY <1>2, <2>2, <2>3
  <1>7. dial[m] \in Conn \ {k} => told'[m] = told[m]
    BY <1>5 DEF Hears
  <1> QED BY <1>3, <1>4, <1>6, <1>7, OneSocket

(* A step of the handler that goes on: the registry agrees with the next one. *)
LEMMA OntoAgrees ==
    ASSUME TypeOK, SessionInv, NEW k \in Conn, NEW m \in Machine, conn[k].of = m,
           NEW d \in Socket, Becomes(k, d), d.of = m, d.sock = conn[k].sock,
           UNCHANGED <<desk, dial, told>>,
           \A n \in Machine \ {m} : machine'[n] = machine[n],
           overtaken' = Overtaking(k),
           dial[m] = k /\ conn[k].sock = "open" /\ m \notin overtaken => Agrees(d, m)'
    PROVE  SessionInv'
  <1>1. \A j \in Conn \ {k} : conn'[j] = conn[j]
    BY KeptOpen
  <1>2. dial[m] = k => OnSocket(conn[k], m)'
    <2> HAVE dial[m] = k
    <2>1. conn[k].sock \in {"open", "closing"}
      BY DEF SessionInv, OnSocket
    <2>2. conn'[k] = d /\ overtaken' = overtaken
      BY <2>1, KeptOpen DEF Overtaking
    <2> QED BY <2>1, <2>2 DEF OnSocket, Agrees
  <1> QED BY <1>1, <1>2, OneSocket DEF Overtaking

LEMMA HandlerAgrees ==
    ASSUME EnrolInv, SessionInv, NEW k \in Conn,
           Registered(k) \/ Enrolled(k) \/ Counted(k) \/ Named(k) \/ AutoApproved(k) \/ Touched(k)
    PROVE  SessionInv'
  <1>1. PICK m \in Machine : conn[k].of = m
    BY DEF Registered, Enrolled, Counted, Named, AutoApproved, Touched, EnrolInv, CountInv, Sound
  <1>2. TypeOK /\ conn[k] \in Socket
    BY DEF EnrolInv, TypeOK
  <1>3. dial[m] = k /\ conn[k].sock = "open" /\ m \notin overtaken => Agrees(conn[k], m)
    BY DEF SessionInv, OnSocket
  <1>4. ASSUME Done(k, "applied"), UNCHANGED <<machine, desk, dial, overtaken>>,
               conn[k].step \in {"registering", "approving"}
        PROVE  SessionInv'
    BY <1>1, <1>2, <1>3, <1>4, DoneAgrees DEF Agrees
  <1>5. ASSUME Done(k, "pending"), UNCHANGED <<machine, desk, dial, overtaken>>,
               conn[k].step \in {"counting", "naming", "touching"}
        PROVE  SessionInv'
    BY <1>1, <1>2, <1>3, <1>5, DoneAgrees DEF Agrees
  <1>6. CASE Registered(k)
    BY <1>4, <1>6 DEF Registered, SendEnrolled
  <1>7. CASE Enrolled(k)
    <2>1. PICK d : d = [conn[k] EXCEPT !.step = "counting"]
      OBVIOUS
    <2>2. d \in Socket /\ d.step = "counting" /\ d.of = m /\ d.sock = conn[k].sock
      BY <1>1, <1>2, <2>1, StepType DEF Step
    <2>3. conn[k].step = "enrolling" /\ Becomes(k, d) /\ UNCHANGED <<machine, desk, dial, told, overtaken>>
      BY <1>7, <2>1 DEF Enrolled, file
    <2>4. SessionInv'
      <3>1. \A j \in Conn \ {k} : conn'[j] = conn[j]
        BY <1>2, <2>2, <2>3, KeptOpen
      <3>2. dial[m] = k => OnSocket(conn[k], m)'
        <4> HAVE dial[m] = k
        <4>1. conn[k].sock \in {"open", "closing"}
          BY DEF SessionInv, OnSocket
        <4>2. conn'[k] = d
          BY <1>2, <2>2, <2>3, <4>1, KeptOpen
        <4> QED BY <1>3, <2>2, <2>3, <4>1, <4>2 DEF OnSocket, Agrees
      <3> QED BY <1>1, <1>2, <2>3, <3>1, <3>2, OneSocket
    <2> QED BY <2>4
  <1>8. CASE Counted(k)
    <2>1. conn[k].step = "counting" /\ UNCHANGED <<machine, desk, dial, overtaken>>
      BY <1>8 DEF Counted, SendEnrolled
    <2>2. CASE Done(k, "pending")
      BY <1>5, <2>1, <2>2
    <2>3. CASE Becomes(k, Onto(conn[k], "naming")) /\ UNCHANGED told
      <3>1. PICK d : d = Onto(conn[k], "naming")
        OBVIOUS
      <3>2. d \in Socket /\ d.step = "naming" /\ d.of = m /\ d.sock = conn[k].sock
        BY <1>1, <1>2, <3>1, OntoType DEF Step
      <3>3. \A j \in Conn \ {k} : conn'[j] = conn[j]
        BY <1>2, <2>3, <3>1, <3>2, KeptOpen
      <3>4. dial[m] = k => OnSocket(conn[k], m)'
        <4> HAVE dial[m] = k
        <4>1. conn[k].sock \in {"open", "closing"}
          BY DEF SessionInv, OnSocket
        <4>2. conn'[k] = d
          BY <1>2, <2>3, <3>1, <3>2, <4>1, KeptOpen
        <4> QED BY <1>3, <2>1, <3>2, <4>1, <4>2 DEF OnSocket, Agrees
      <3> QED BY <1>1, <1>2, <2>1, <2>3, <3>3, <3>4, OneSocket
    <2> QED BY <1>8, <2>2, <2>3 DEF Counted
  <1>9. CASE Named(k)
    <2>1. conn[k].step = "naming" /\ UNCHANGED <<desk, dial>>
      BY <1>9 DEF Named, file
    <2>2. CASE Done(k, "pending") /\ UNCHANGED <<machine, overtaken>>
      BY <1>5, <2>1, <2>2
    <2>3. CASE /\ machine' = [machine EXCEPT ![conn[k].of] = "approved"]
               /\ Becomes(k, [conn[k] EXCEPT !.step = "approving"])
               /\ overtaken' = Overtaking(k)
               /\ UNCHANGED told
      <3>1. PICK d : d = [conn[k] EXCEPT !.step = "approving"]
        OBVIOUS
      <3>2. d \in Socket /\ d.step = "approving" /\ d.of = m /\ d.sock = conn[k].sock
        BY <1>1, <1>2, <3>1, StepType DEF Step
      <3>3. machine'[m] = "approved" /\ \A n \in Machine \ {m} : machine'[n] = machine[n]
        BY <1>1, <1>2, <2>3 DEF TypeOK
      <3>4. Agrees(d, m)'
        BY <3>2, <3>3 DEF Agrees
      <3> QED BY <1>1, <1>2, <2>1, <2>3, <3>1, <3>2, <3>3, <3>4, OntoAgrees
    <2> QED BY <1>9, <2>2, <2>3 DEF Named
  <1>10. CASE AutoApproved(k)
    BY <1>4, <1>10 DEF AutoApproved, file
  <1>11. CASE Touched(k)
    BY <1>5, <1>11 DEF Touched, SendEnrolled
  <1> QED BY <1>6, <1>7, <1>8, <1>9, <1>10, <1>11

(* Past authenticate the registry says what was decided. *)
LEMMA EnterAgrees ==
    ASSUME TypeOK, SessionInv, NEW k \in Conn, NEW m \in Machine, conn[k].of = m,
           NEW c \in Socket, c.of = m, c.sock = conn[k].sock, Enter(k, c),
           UNCHANGED <<desk, dial, told>>,
           overtaken' = Overtaking(k) \/ (dial[m] = k /\ overtaken' = overtaken \ {m}),
           dial[m] = k /\ conn[k].sock = "open" /\ m \notin overtaken' =>
              c.kind # "none" /\ (c.kind = "pending" => machine[m] = "pending")
    PROVE  SessionInv'
  <1>1. PICK d \in {Entered(c), [Entered(c) EXCEPT !.cred = "current"]} :
           /\ conn'[k] = d
           /\ \A j \in Conn \ {k} : conn'[j] \in {conn[j], Old(conn[j])}
    BY EnterShape
  <1>2. d.of = m /\ d.sock = conn[k].sock /\ d.step = FirstStep(c.kind)
    BY EnteredType
  <1>3. /\ machine'[m] = CASE FirstStep(c.kind) = "registering" -> "approved"
                           [] FirstStep(c.kind) = "enrolling" -> "pending"
                           [] OTHER -> machine[m]
        /\ \A n \in Machine \ {m} : machine'[n] = machine[n]
    BY DEF Enter, TypeOK, FirstStep
  <1>4. c.kind # "none" /\ (c.kind = "pending" => machine[m] = "pending") => Agrees(d, m)'
    BY <1>2, <1>3 DEF Agrees, FirstStep, Socket
  <1>5. dial[m] = k => OnSocket(conn[k], m)'
    <2> HAVE dial[m] = k
    <2>1. conn[k].sock \in {"open", "closing"}
      BY DEF SessionInv, OnSocket
    <2> QED BY <1>1, <1>2, <1>4, <2>1 DEF OnSocket, Agrees
  <1> QED BY <1>1, <1>3, <1>5, OneSocket DEF Overtaking

LEMMA SignedAgrees == ASSUME EnrolInv, SessionInv, NEW k \in Conn, Signed(k) PROVE SessionInv'
  <1>1. PICK m \in Machine : conn[k].of = m
    BY DEF Signed, EnrolInv, CountInv, Sound
  <1>2. TypeOK /\ conn[k] \in Socket
    BY DEF EnrolInv, TypeOK
  <1>3. dial[m] = k /\ conn[k].sock = "open" /\ m \notin overtaken => Agrees(conn[k], m)
    BY DEF SessionInv, OnSocket
  <1>4. /\ conn[k].step = "signing" /\ Enter(k, conn[k]) /\ overtaken' = Overtaking(k)
        /\ UNCHANGED <<desk, dial, told>>
    BY DEF Signed, file
  <1>5. dial[m] = k => overtaken' = overtaken
    BY <1>1, <1>4 DEF Overtaking
  <1> QED BY <1>1, <1>2, <1>3, <1>4, <1>5, EnterAgrees DEF Agrees

LEMMA AuthenticateAgrees ==
    ASSUME TypeOK, NEW m \in Machine, NEW g
    PROVE  Authenticate(m, g).kind = "pending" => machine[m] = "pending"
  BY DEF Authenticate, TypeOK

LEMMA HelloAgrees == ASSUME EnrolInv, SessionInv, NEW k \in Conn, Hello(k) PROVE SessionInv'
  <1>0. PICK m \in Machine : conn[k].of = m
    BY DEF Hello, EnrolInv, CountInv, Sound
  <1>1. PICK g : g = IF conn[k].reg THEN saved[m] ELSE conn[k].given
    OBVIOUS
  <1> DEFINE a == Authenticate(m, g)
             c == Decided(conn[k], a)
             begins == IF dial[m] = k THEN overtaken \ {m} ELSE overtaken
  <1>2. /\ conn[k].sock = "open"
        /\ \/ /\ a.kind = "reject" /\ Becomes(k, Closing(c)) /\ overtaken' = begins
              /\ UNCHANGED machine
           \/ /\ a.kind # "reject" /\ Enter(k, c)
              /\ overtaken' = IF dial[m] = k THEN begins ELSE Overtaking(k)
           \/ /\ a.kind # "reject" /\ Becomes(k, [c EXCEPT !.step = "signing"]) /\ overtaken' = begins
              /\ UNCHANGED machine
        /\ UNCHANGED <<desk, dial, told>>
    BY <1>0, <1>1 DEF Hello, file
  <1>3. /\ a.kind \in {"open", "admit", "pending", "enrol", "reject"} /\ a.new \in BOOLEAN
        /\ a.kind = "pending" => machine[m] = "pending"
    BY AuthenticateType, AuthenticateAgrees DEF EnrolInv
  <1>4. TypeOK /\ conn[k] \in Socket
    BY DEF EnrolInv, TypeOK
  <1>5. PICK e : e = [c EXCEPT !.step = "signing"]
    OBVIOUS
  <1>6. /\ c \in Socket /\ e \in Socket
        /\ c.of = m /\ c.sock = "open" /\ c.kind = (IF a.kind = "reject" THEN "none" ELSE a.kind)
        /\ e.of = m /\ e.sock = "open" /\ e.kind = c.kind
    <2> HIDE DEF a
    <2> QED BY <1>0, <1>2, <1>3, <1>4, <1>5, DecidedType
  <1>7. e.step = "signing"
    BY <1>5, <1>6 DEF Socket
  <1>8. \A n \in Machine \ {m} : n \in overtaken => n \in begins
    OBVIOUS
  <1>9. dial[m] # k => begins = overtaken
    OBVIOUS
  <1>10. dial[m] = k => begins = overtaken \ {m}
    OBVIOUS
  <1>11. a.kind # "reject" => c.kind # "none" /\ (c.kind = "pending" => machine[m] = "pending")
    BY <1>3, <1>6
  <1> HIDE DEF a, c, begins
  <1>12. ASSUME NEW d \in Socket, Becomes(k, d), UNCHANGED machine, overtaken' = begins,
                d.of = m, d.sock = "closing" \/ (d.sock = "open" /\ Agrees(d, m)')
         PROVE  SessionInv'
    <2>1. conn'[k] = d /\ \A j \in Conn \ {k} : conn'[j] = conn[j]
      BY <1>4, <1>12, KeptOpen
    <2>2. OnSocket(conn[k], m)'
      BY <1>12, <2>1 DEF OnSocket, Agrees
    <2> QED BY <1>0, <1>2, <1>4, <1>8, <1>9, <1>12, <2>1, <2>2, OneSocket
  <1>13. CASE Becomes(k, Closing(c)) /\ overtaken' = begins /\ UNCHANGED machine
    BY <1>6, <1>12, <1>13, ClosingShape
  <1>14. CASE /\ a.kind # "reject" /\ Enter(k, c)
              /\ overtaken' = IF dial[m] = k THEN begins ELSE Overtaking(k)
    BY <1>0, <1>2, <1>4, <1>6, <1>10, <1>11, <1>14, EnterAgrees
  <1>15. CASE /\ a.kind # "reject" /\ Becomes(k, [c EXCEPT !.step = "signing"]) /\ overtaken' = begins
              /\ UNCHANGED machine
    <2>1. Agrees(e, m)'
      BY <1>6, <1>7, <1>11, <1>15 DEF Agrees
    <2> QED BY <1>5, <1>6, <1>12, <1>15, <2>1
  <1> QED BY <1>2, <1>13, <1>14, <1>15

(* A box leaves its socket, or a fresh one is its own. *)
LEMMA DialAgrees == ASSUME EnrolInv, SessionInv, NEW m \in Machine, Dial(m) PROVE SessionInv'
  <1>1. PICK k \in Conn :
          /\ conn[k] = Free
          /\ dial' = [dial EXCEPT ![m] = k]
          /\ conn' = [conn EXCEPT ![k] = Dialled(m)]
    BY DEF Dial
  <1>2. UNCHANGED <<machine, desk, told, overtaken>>
    BY DEF Dial
  <1>3. /\ Dialled(m).of = m /\ Dialled(m).step = "idle" /\ Dialled(m).reg = FALSE
        /\ Dialled(m).sock = "open"
    BY DialledType DEF EnrolInv, Dialled, Free
  <1>4. /\ conn'[k] = Dialled(m) /\ dial'[m] = k
        /\ \A j \in Conn \ {k} : conn'[j] = conn[j]
        /\ \A n \in Machine \ {m} : dial'[n] = dial[n]
    BY <1>1 DEF EnrolInv, TypeOK
  <1> SUFFICES ASSUME NEW n \in Machine, dial'[n] \in Conn
               PROVE  OnSocket(conn[dial[n]], n)'
    BY DEF SessionInv
  <1>5. CASE n = m
    BY <1>3, <1>4, <1>5 DEF OnSocket, Agrees
  <1>6. CASE n # m
    <2>1. OnSocket(conn[dial[n]], n) /\ dial'[n] = dial[n]
      BY <1>4, <1>6 DEF SessionInv
    <2>2. dial[n] # k
      BY <1>1, <2>1 DEF OnSocket, Free
    <2> QED BY <1>2, <1>4, <2>1, <2>2 DEF OnSocket, Agrees
  <1> QED BY <1>5, <1>6

LEMMA LeavesAgrees ==
    ASSUME TypeOK, SessionInv, NEW m \in Machine, Leaves(m), UNCHANGED <<machine, desk>>,
           \A n \in Machine \ {m} : dial[n] \in Conn => conn'[dial[n]] = conn[dial[n]]
    PROVE  SessionInv'
  <1>1. /\ dial'[m] = None
        /\ \A n \in Machine \ {m} : dial'[n] = dial[n] /\ told'[n] = told[n]
        /\ overtaken' = overtaken \ {m}
    BY DEF Leaves, TypeOK
  <1> SUFFICES ASSUME NEW n \in Machine, dial'[n] \in Conn
               PROVE  OnSocket(conn[dial[n]], n)'
    BY DEF SessionInv
  <1>2. n # m
    BY <1>1, NoneAssumption DEF Conn
  <1>3. OnSocket(conn[dial[n]], n) /\ conn'[dial[n]] = conn[dial[n]] /\ dial'[n] = dial[n]
    BY <1>1, <1>2 DEF SessionInv
  <1> QED BY <1>1, <1>2, <1>3 DEF OnSocket, Agrees

LEMMA ClosedAgrees == ASSUME EnrolInv, SessionInv, NEW k \in Conn, Closed(k) PROVE SessionInv'
  <1>0. PICK m \in Machine : conn[k].of = m
    BY DEF Closed, EnrolInv, CountInv, Sound
  <1>1. /\ IF dial[m] = k THEN Leaves(m) ELSE UNCHANGED <<dial, told, overtaken>>
        /\ UNCHANGED <<machine, desk>>
        /\ \A j \in Conn \ {k} : conn'[j] = conn[j]
    BY <1>0 DEF Closed, Becomes, EnrolInv, TypeOK
  <1>2. \A n \in Machine \ {m} : dial[n] \in Conn => dial[n] # k
    BY <1>0 DEF SessionInv, OnSocket
  <1>3. CASE dial[m] = k
    BY <1>1, <1>2, <1>3, LeavesAgrees DEF EnrolInv
  <1>4. CASE dial[m] # k
    <2>1. \A n \in Machine : dial[n] \in Conn => conn'[dial[n]] = conn[dial[n]]
      BY <1>1, <1>2, <1>4
    <2> QED BY <1>1, <1>4, <2>1 DEF SessionInv, OnSocket, Agrees
  <1> QED BY <1>3, <1>4

(* A request overtakes a hello that is being handled, and stays on the desk  *)
(* for a box whose hello is through.                                        *)
LEMMA AsksAgrees ==
    ASSUME EnrolInv, SessionInv,
           NEW m \in Machine, NEW what \in {"approve", "reject", "remove"}, Asks(what, m)
    PROVE  SessionInv'
  <1>1. /\ desk' = desk \cup {<<what, m>>} /\ dial' = dial /\ told' = told
        /\ overtaken' = IF dial[m] # None /\ Busy(dial[m]) THEN overtaken \cup {m} ELSE overtaken
        /\ \A j \in Conn : conn'[j] \in {conn[j], Old(conn[j])}
    BY DEF Asks, file, EnrolInv, TypeOK
  <1>2. /\ machine'[m] = CASE what = "approve" -> "approved" [] what = "reject" -> "rejected"
                           [] OTHER -> "unknown"
        /\ \A n \in Machine \ {m} : machine'[n] = machine[n]
    BY DEF Asks, EnrolInv, TypeOK
  <1> SUFFICES ASSUME NEW n \in Machine, dial[n] \in Conn
               PROVE  OnSocket(conn[dial[n]], n)'
    BY <1>1 DEF SessionInv
  <1>3. PICK j \in Conn : dial[n] = j
    OBVIOUS
  <1>4. OnSocket(conn[j], n) /\ conn[j] \in Socket
    BY <1>3 DEF SessionInv, EnrolInv, TypeOK
  <1>5. /\ conn'[j].of = n /\ conn'[j].sock = conn[j].sock /\ conn'[j].step = conn[j].step
        /\ conn'[j].kind = conn[j].kind /\ conn'[j].reg = conn[j].reg
    BY <1>1, <1>4, OldSame DEF OnSocket
  <1>6. CASE n # m
    <2>1. n \notin overtaken' => n \notin overtaken
      BY <1>1
    <2>2. OnSocket(conn[j], n)'
      BY <1>1, <1>2, <1>4, <1>5, <1>6, <2>1 DEF OnSocket, Agrees
    <2> QED BY <1>1, <1>3, <2>2
  <1>7. CASE n = m
    <2>1. conn[j].step # "idle" => n \in overtaken'
      BY <1>1, <1>3, <1>7, NoneAssumption DEF Busy, Conn
    <2>2. <<what, n>> \in desk'
      BY <1>1, <1>7
    <2>3. OnSocket(conn[j], n)'
      BY <1>2, <1>4, <1>5, <1>7, <2>1, <2>2 DEF OnSocket, Agrees
    <2> QED BY <1>1, <1>3, <2>3
  <1> QED BY <1>6, <1>7

(* The answer to an approval tells the box that is in the hub. *)
LEMMA ApproveAgrees == ASSUME EnrolInv, SessionInv, NEW m \in Machine, ApproveEnds(m) PROVE SessionInv'
  <1>1. /\ desk' = desk \ {<<"approve", m>>}
        /\ told' = IF \E k \in InHub(m) : Hears(k) THEN [told EXCEPT ![m] = "applied"] ELSE told
        /\ UNCHANGED <<machine, conn, dial, overtaken>>
    BY DEF ApproveEnds, Answered, file
  <1> SUFFICES ASSUME NEW n \in Machine, dial[n] \in Conn
               PROVE  OnSocket(conn[dial[n]], n)'
    BY <1>1 DEF SessionInv
  <1>2. PICK j \in Conn : dial[n] = j
    OBVIOUS
  <1>3. OnSocket(conn[j], n) /\ Sound(conn[j]) /\ conn[j] \in Socket
    BY <1>2 DEF SessionInv, EnrolInv, TypeOK, CountInv
  <1>4. told'[n] = told[n] \/ told'[n] = "applied"
    BY <1>1 DEF EnrolInv, TypeOK
  <1>5. ASSUME n = m, conn[j].sock = "open", conn[j].reg
        PROVE  told'[n] = "applied"
    <2>1. j \in InHub(m) /\ Hears(j)
      BY <1>2, <1>3, <1>5 DEF InHub, Of, Hears, OnSocket, Sound
    <2> QED BY <1>1, <1>5, <2>1 DEF EnrolInv, TypeOK
  <1>6. n # m => (<<"approve", n>> \in desk => <<"approve", n>> \in desk')
    BY <1>1
  <1>7. /\ <<"reject", n>> \in desk => <<"reject", n>> \in desk'
        /\ <<"remove", n>> \in desk => <<"remove", n>> \in desk'
    BY <1>1
  <1>8. OnSocket(conn[j], n)'
    BY <1>1, <1>3, <1>4, <1>5, <1>6, <1>7 DEF OnSocket, Agrees
  <1> QED BY <1>1, <1>2, <1>8

(* The answer to a rejection or a removal closes it. *)
LEMMA PutOutAgrees ==
    ASSUME EnrolInv, SessionInv, NEW m \in Machine, RejectEnds(m) \/ RemoveEnds(m)
    PROVE  SessionInv'
  <1>1. PICK what \in {"reject", "remove"} : desk' = desk \ {<<what, m>>}
    BY DEF RejectEnds, RemoveEnds, Answered
  <1>2. ClosesAll(InHub(m)) /\ UNCHANGED <<machine, dial, told, overtaken>>
    BY DEF RejectEnds, RemoveEnds, file
  <1> SUFFICES ASSUME NEW n \in Machine, dial[n] \in Conn
               PROVE  OnSocket(conn[dial[n]], n)'
    BY <1>2 DEF SessionInv
  <1>3. PICK j \in Conn : dial[n] = j
    OBVIOUS
  <1>4. OnSocket(conn[j], n) /\ Sound(conn[j]) /\ conn[j] \in Socket
    BY <1>3 DEF SessionInv, EnrolInv, TypeOK, CountInv
  <1>5. CASE j \in InHub(m)
    <2>1. conn'[j] = Closing(conn[j])
      BY <1>2, <1>5 DEF ClosesAll
    <2>2. conn'[j].sock = "closing" /\ conn'[j].of = n
      BY <1>4, <2>1, ClosingShape DEF OnSocket
    <2> QED BY <1>2, <1>3, <2>2 DEF OnSocket
  <1>6. CASE j \notin InHub(m)
    <2>1. conn'[j] = conn[j]
      BY <1>2, <1>6 DEF ClosesAll
    <2>2. n = m /\ conn[j].sock = "open" => ~conn[j].reg
      BY <1>4, <1>6 DEF InHub, Of, OnSocket, Sound
    <2>3. n # m => \A w \in {"reject", "remove"} : <<w, n>> \in desk => <<w, n>> \in desk'
      BY <1>1
    <2>4. <<"approve", n>> \in desk => <<"approve", n>> \in desk'
      BY <1>1
    <2>5. OnSocket(conn[j], n)'
      BY <1>2, <1>4, <2>1, <2>2, <2>3, <2>4 DEF OnSocket, Agrees
    <2> QED BY <1>2, <1>3, <2>5
  <1> QED BY <1>5, <1>6

LEMMA SessionStep == ASSUME EnrolInv, SessionInv, [Next]_vars PROVE SessionInv'
  <1>1. ASSUME NEW m \in Machine, Dial(m) \/ Lose(m) PROVE SessionInv'
    <2>1. CASE Lose(m)
      BY <2>1, LeavesAgrees DEF Lose, EnrolInv
    <2> QED BY <1>1, <2>1, DialAgrees
  <1>2. ASSUME NEW k \in Conn, Closed(k) \/ Hello(k) \/ Resume(k) PROVE SessionInv'
    BY <1>2, ClosedAgrees, HelloAgrees, SignedAgrees, HandlerAgrees DEF Resume
  <1>3. ASSUME NEW m \in Machine, NEW what \in {"approve", "reject", "remove"}, Asks(what, m)
        PROVE  SessionInv'
    BY <1>3, AsksAgrees
  <1>4. ASSUME NEW m \in Machine, Answers(m) PROVE SessionInv'
    BY <1>4, ApproveAgrees, PutOutAgrees DEF Answers
  <1>5. ASSUME NEW t \in Token, TokenTurns(t) PROVE SessionInv'
    BY <1>5, SameSockets DEF TokenTurns, file
  <1>6. CASE UNCHANGED vars
    BY <1>6, SameSockets DEF vars, file
  <1> QED BY <1>1, <1>2, <1>3, <1>4, <1>5, <1>6 DEF Next, BoxNext, ServerNext, AdminNext

-----------------------------------------------------------------------------
(* The theorems *)

LEMMA EnrolInit == ASSUME Init PROVE EnrolInv
  <1>1. \A k \in Conn : conn[k] = Free
    BY DEF Init
  <1>2. TypeOK
    <2>1. Free \in Socket
      BY FreeType
    <2> QED BY <2>1, BoundsAssumption DEF Init, TypeOK, Credential
  <1>3. \A m \in Machine : InHub(m) = {}
    BY <1>1, FreeType DEF InHub, Of
  <1>4. \A t \in Token : Uncounted(t) = {}
    BY <1>1 DEF Uncounted, Free
  <1>5. CountInv
    <2>1. Sound(Free)
      BY DEF Sound, Free
    <2>2. \A m \in Machine : Cardinality(InHub(m)) = 0 /\ count[m] = 0
      BY <1>3, FS_EmptySet DEF Init
    <2> QED BY <1>1, <2>1, <2>2 DEF CountInv
  <1>6. CapNearlyKept
    <2>1. \A t \in Token : token[t].uses = 0
      BY DEF Init
    <2>2. \A t \in Token : Cardinality(Uncounted(t)) = 0
      BY <1>4, FS_EmptySet
    <2> QED BY <2>1, <2>2, BoundsAssumption DEF CapNearlyKept
  <1> QED BY <1>2, <1>5, <1>6 DEF EnrolInv

LEMMA EnrolStep == ASSUME EnrolInv, [Next]_vars PROVE EnrolInv'
  <1>1. ASSUME NEW m \in Machine, Dial(m) \/ Lose(m) PROVE EnrolInv'
    BY <1>1, DialStep, LoseStep
  <1>2. ASSUME NEW k \in Conn, Closed(k) \/ Hello(k) PROVE EnrolInv'
    BY <1>2, ClosedStep, HelloStep
  <1>3. ASSUME NEW k \in Conn, Resume(k) PROVE EnrolInv'
    BY <1>3, SignedStep, RegisteredStep, EnrolledStep, CountedStep, NamedStep, AutoApprovedStep,
       TouchedStep DEF Resume
  <1>4. ASSUME NEW m \in Machine, NEW what \in {"approve", "reject", "remove"}, Asks(what, m)
        PROVE  EnrolInv'
    BY <1>4, AsksStep
  <1>5. ASSUME NEW m \in Machine, Answers(m) PROVE EnrolInv'
    BY <1>5, ApproveEndsStep, RejectEndsStep, RemoveEndsStep DEF Answers
  <1>6. ASSUME NEW t \in Token, TokenTurns(t) PROVE EnrolInv'
    BY <1>6, TokenTurnsStep
  <1>7. CASE UNCHANGED vars
    <2>1. conn' = conn /\ count' = count /\ forgotten' = forgotten /\ stick' = stick /\ token' = token
      BY <1>7 DEF vars, file, bounds
    <2>2. TypeOK'
      BY <1>7 DEF vars, file, bounds, EnrolInv, TypeOK
    <2>3. \A t \in Token : token'[t].uses <= token[t].uses
      BY <2>1 DEF EnrolInv, TypeOK
    <2> QED BY <2>1, <2>2, <2>3, ConnQuiet
  <1> QED BY <1>1, <1>2, <1>3, <1>4, <1>5, <1>6, <1>7 DEF Next, BoxNext, ServerNext, AdminNext

THEOREM Invariant == Spec => []EnrolInv
  BY EnrolInit, EnrolStep, PTL DEF Spec

(* Registers (see there): types, and a token's cap is passed only by boxes   *)
(* that said hello at the same time.                                         *)
THEOREM CapHolds == Spec => []Registers
  <1>1. EnrolInv => Registers
    BY DEF EnrolInv, Registers
  <1> QED BY <1>1, Invariant, PTL

(* However connects and closes of half-dead sockets overlap with the awaits  *)
(* of their hellos, agentConns is the number of sockets in the hub, for a    *)
(* machine that was not removed while it had some.                           *)
THEOREM CountHolds == Spec => []CountsSockets
  <1>1. EnrolInv => CountsSockets
    BY DEF EnrolInv, CountInv, CountsSockets
  <1> QED BY <1>1, Invariant, PTL

(* Whichever of the hello, the approval, the rejection and the removal comes *)
(* first, a box in session was told what the registry says of it once the    *)
(* operator's requests are answered, unless the decision fell between its    *)
(* hello and the answer, or was made by the hello of another socket.         *)
THEOREM SessionsHold == Spec => []SessionsTrue
  <1>1. Init => SessionInv
    BY NoneAssumption DEF Init, SessionInv, Conn
  <1>2. EnrolInv /\ SessionInv /\ [Next]_vars => SessionInv'
    BY SessionStep
  <1>3. EnrolInv /\ SessionInv => SessionsTrue
    <2> SUFFICES ASSUME EnrolInv, SessionInv, NEW k \in Conn, InSession(k),
                        conn[k].of \notin overtaken, Quiet(conn[k].of)
                 PROVE  /\ machine[conn[k].of] = "approved" => told[conn[k].of] = "applied"
                        /\ machine[conn[k].of] \notin {"rejected", "unknown"}
      BY DEF SessionsTrue, NotLeftWaiting, PutOut
    <2>1. PICK m \in Machine : conn[k].of = m
      BY DEF InSession, EnrolInv, CountInv, Sound
    <2>2. dial[m] = k /\ conn[k].sock = "open" /\ conn[k].step = "idle" /\ conn[k].reg
      BY <2>1 DEF InSession, Hears, Busy, EnrolInv, CountInv, Sound
    <2>3. Agrees(conn[k], m)
      BY <2>1, <2>2 DEF SessionInv, OnSocket
    <2> QED BY <2>1, <2>2, <2>3 DEF Agrees, Quiet
  <1> QED BY <1>1, <1>2, <1>3, Invariant, PTL DEF Spec

(* A rejection is taken back by the operator only, in a fleet that has       *)
(* tokens, unless a hello of the machine was let past before it was made.    *)
THEOREM RejectionHolds == Spec => RejectedStays
  <1>1. ASSUME TypeOK, [Next]_vars, NEW m \in Machine,
               machine[m] = "rejected", desk' = desk, ~Underway(m), ~OpenMode
        PROVE  machine'[m] = "rejected"
    <2>1. machine \in [Machine -> {"unknown", "pending", "approved", "rejected"}]
      BY <1>1 DEF TypeOK
    <2>2. ASSUME NEW k \in Conn, NEW c, Enter(k, c), c.of # m
          PROVE  machine'[m] = machine[m]
      BY <2>1, <2>2 DEF Enter
    <2>3. ASSUME NEW k \in Conn, Hello(k) PROVE machine'[m] = machine[m]
      <3>1. CASE conn[k].of = m
        <4>1. \A g : Authenticate(m, g).kind = "reject"
          BY <1>1 DEF Authenticate
        <4> QED BY <2>3, <3>1, <4>1 DEF Hello
      <3>2. CASE conn[k].of # m
        <4>1. \A d : Decided(conn[k], d).of = conn[k].of
          BY <1>1 DEF Decided, TypeOK, Socket
        <4> QED BY <2>2, <2>3, <3>2, <4>1 DEF Hello
      <3> QED BY <3>1, <3>2
    <2>4. ASSUME NEW k \in Conn, Resume(k) PROVE machine'[m] = machine[m]
      <3>1. conn[k].of # m
        BY <1>1, <2>4 DEF Resume, Signed, Registered, Enrolled, Counted, Named, AutoApproved, Touched,
                          Underway, Busy, Of
      <3>2. CASE Signed(k)
        BY <2>2, <3>1, <3>2 DEF Signed
      <3>3. CASE Named(k)
        BY <2>1, <3>1, <3>3 DEF Named
      <3>4. CASE machine' = machine
        BY <3>4
      <3> QED BY <2>4, <3>2, <3>3, <3>4 DEF Resume, Registered, Enrolled, Counted, AutoApproved, Touched
    <2>5. ASSUME NEW n \in Machine, NEW what \in {"approve", "reject", "remove"}, Asks(what, n)
          PROVE  FALSE
      BY <1>1, <2>5 DEF Asks
    <2>6. ASSUME machine' = machine PROVE machine'[m] = machine[m]
      BY <2>6
    <2> QED BY <1>1, <2>3, <2>4, <2>5, <2>6
            DEF Next, BoxNext, ServerNext, AdminNext, Dial, Lose, Closed, Answers, ApproveEnds,
                RejectEnds, RemoveEnds, TokenTurns, vars
  <1>2. TypeOK /\ [Next]_vars =>
          [\A m \in Machine :
             machine[m] = "rejected" /\ desk' = desk /\ ~Underway(m) /\ ~OpenMode
                => machine'[m] = "rejected"]_vars
    BY <1>1
  <1>3. EnrolInv => TypeOK
    BY DEF EnrolInv
  <1> QED BY <1>2, <1>3, Invariant, PTL DEF Spec, RejectedStays
=============================================================================
