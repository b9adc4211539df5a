-------------------------- MODULE Exceptions_proofs -------------------------
(***************************************************************************)
(* Proofs that no write of an exception is based on a stale read and that  *)
(* its timeline tells how it came to be what it is, for every number of    *)
(* requests, values, pieces of evidence and outcomes, unless a resolve was *)
(* overtaken.                                                              *)
(***************************************************************************)
EXTENDS Exceptions, FiniteSetTheorems, SequenceTheorems, TLAPS

-----------------------------------------------------------------------------
Request ==
    {Idle, [op |-> "create"]}
    \cup [op : {"loaded"}, read : Exception]
    \cup [op : {"missed"}, to : Outcomes, read : Exception]

TypeOK ==
    /\ row \in Exception \cup {None}
    /\ session \in [Sessions -> Request]
    /\ overtaken \in BOOLEAN

(* The exception read is not of the future, and if its version is the      *)
(* present one it is the present exception.  The first part is what keeps  *)
(* the second: a version that is written was not read before.              *)
NotAhead(c) ==
    /\ session[c].read.version <= row.version
    /\ session[c].read.version = row.version => session[c].read = row

(* The inductive invariant.                                                *)
EInv ==
    /\ TypeOK
    /\ Readers # {} => row # None
    /\ ~overtaken => \A c \in Readers : NotAhead(c)

-----------------------------------------------------------------------------
LEMMA InitEstablishes == Init => EInv
<1> SUFFICES ASSUME Init PROVE EInv
  OBVIOUS
<1>1. TypeOK
  BY DEF Init, TypeOK, Request
<1>2. Readers = {}
  BY DEF Init, Readers, Idle
<1> QED
  BY <1>1, <1>2 DEF EInv

(* What is known of a request that has read the exception.                 *)
LEMMA ReaderReads ==
  ASSUME TypeOK, NEW c \in Readers
  PROVE  /\ session[c].read \in Exception
         /\ session[c].read.version \in Int
         /\ session[c].op = "missed" => session[c].to \in Outcomes
<1>1. c \in Sessions /\ session[c] \in Request /\ session[c].op \notin {"idle", "create"}
  BY DEF Readers, TypeOK
<1> QED
  BY <1>1 DEF Request, Idle, Exception

(* A request begins: if it reads, it reads the present exception.          *)
LEMMA BeginPreserves ==
  ASSUME EInv, NEW c \in Sessions, NEW s \in Request, Begin(c, s),
         s.op \in {"idle", "create"} \/ (s.read = row /\ row # None)
  PROVE  EInv'
<1> USE DEF EInv, Begin
<1>1. TypeOK'
  BY DEF TypeOK
<1>2. Readers' \subseteq Readers \cup {c}
  BY DEF Readers, TypeOK
<1>3. c \in Readers' => s.op \notin {"idle", "create"}
  BY DEF Readers, TypeOK
<1>4. Readers' # {} => row # None
  BY <1>2, <1>3
<1>5. ASSUME ~overtaken, NEW d \in Readers' PROVE NotAhead(d)'
  <2>1. CASE d = c
    <3>1. row \in Exception /\ session'[c] = s /\ s.read = row
      BY <1>3, <2>1 DEF TypeOK
    <3> QED
      BY <2>1, <3>1 DEF NotAhead, Exception
  <2>2. CASE d # c
    BY <1>2, <1>5, <2>2 DEF NotAhead, TypeOK
  <2> QED
    BY <2>1, <2>2
<1> QED
  BY <1>1, <1>4, <1>5

(* A request ends that wrote exception r, of a version later than the one  *)
(* it found.                                                               *)
LEMMA WritePreserves ==
  ASSUME EInv, NEW c \in Readers, NEW r \in Exception, row' = r, r.version > row.version,
         session' = [session EXCEPT ![c] = Idle], overtaken' = overtaken
  PROVE  EInv'
<1> USE DEF EInv
<1>1. row \in Exception /\ row.version \in Int /\ r.version \in Int
  BY DEF TypeOK, Exception
<1>2. TypeOK'
  BY DEF TypeOK, Request
<1>3. Readers' \subseteq Readers \ {c}
  BY DEF Readers, TypeOK, Idle
<1>4. row' # None
  BY ExceptionsAssumption
<1>5. ASSUME ~overtaken, NEW d \in Readers' PROVE NotAhead(d)'
  <2>1. d \in Readers /\ session'[d] = session[d] /\ session[d].read.version <= row.version
    BY <1>3, <1>5 DEF NotAhead, Readers, TypeOK
  <2>2. session[d].read.version \in Int
    BY <2>1, ReaderReads
  <2> QED
    BY <1>1, <2>1, <2>2 DEF NotAhead
<1> QED
  BY <1>2, <1>4, <1>5

(* A request ends that wrote nothing, or the first exception.              *)
LEMMA EndPreserves ==
  ASSUME EInv, NEW c \in Sessions, session' = [session EXCEPT ![c] = Idle], overtaken' = overtaken,
         row' = row \/ (Readers = {} /\ row' \in Exception)
  PROVE  EInv'
<1> USE DEF EInv
<1>1. TypeOK'
  BY DEF TypeOK, Request
<1>2. Readers' \subseteq Readers
  BY DEF Readers, TypeOK, Idle
<1>3. \A d \in Readers' : session'[d] = session[d]
  BY DEF Readers, TypeOK, Idle
<1> QED
  BY <1>1, <1>2, <1>3 DEF NotAhead

(* A write of r under the version that was read.                           *)
LEMMA WriteKeeps ==
  ASSUME EInv, NEW c \in Sessions, NEW r \in Exception, NEW e, Write(c, r, e)
  PROVE  EInv' /\ row' \in Exception
<1>1. c \in Readers
  BY DEF Write, Loaded, Readers
<1>2. /\ row' = [r EXCEPT !.version = session[c].read.version + 2]
      /\ session' = [session EXCEPT ![c] = Idle] /\ overtaken' = overtaken
      /\ row.version = session[c].read.version
  BY DEF Write, End, Matches
<1>3. session[c].read.version \in Int
  BY <1>1, ReaderReads DEF EInv
<1>4. row' \in Exception /\ row'.version = session[c].read.version + 2
  BY <1>2, <1>3 DEF Exception
<1>5. row'.version > row.version
  BY <1>2, <1>3, <1>4
<1> QED
  BY <1>1, <1>2, <1>4, <1>5, WritePreserves

(* The edits the writes make.                                              *)
LEMMA Edits ==
  ASSUME NEW r \in Exception
  PROVE  /\ \A x \in Statuses : [r EXCEPT !.status = x] \in Exception
         /\ \A x \in Values \cup {None} : [r EXCEPT !.owner = x] \in Exception
         /\ \A x \in Values \cup {None} : [r EXCEPT !.due = x] \in Exception
         /\ \A x \in Values : [r EXCEPT !.cause = x] \in Exception
         /\ \A x \in Severities, y \in Values \cup {None} :
               [r EXCEPT !.severity = x, !.due = y] \in Exception
         /\ \A x \in SUBSET Items : [r EXCEPT !.evidence = x] \in Exception
  BY DEF Exception

(* A request that has loaded the exception.                                *)
LEMMA LoadedReads ==
  ASSUME EInv, NEW c \in Sessions, Loaded(c)
  PROVE  /\ c \in Readers /\ row # None /\ row \in Exception /\ session[c].read \in Exception
         /\ session[c].read.version \in Int
<1>1. c \in Readers
  BY DEF Loaded, Readers
<1> QED
  BY <1>1, ReaderReads DEF EInv, TypeOK

LEMMA ResolveKeeps ==
  ASSUME EInv, NEW c \in Sessions, NEW how \in Outcomes, NEW cause \in Values \cup {None},
         Resolve(c, how, cause)
  PROVE  EInv' /\ row' \in Exception
<1>1. c \in Readers /\ row \in Exception /\ session[c].read.version \in Int
  BY LoadedReads DEF Resolve, Resolvable
<1>2. /\ row' = [row EXCEPT !.status = "resolved", !.resolution = how,
                            !.cause = IF cause = None THEN row.cause ELSE cause,
                            !.version = session[c].read.version + 4]
      /\ session' = [session EXCEPT ![c] = Idle] /\ overtaken' = overtaken
      /\ row.version = session[c].read.version
  BY DEF Resolve, Matches, End
<1>3. row' \in Exception /\ row'.version = session[c].read.version + 4
  <2> DEFINE x == IF cause = None THEN row.cause ELSE cause
             v == session[c].read.version + 4
  <2>1. x \in Values \cup {None} /\ v \in Int
    BY <1>1 DEF Exception
  <2>2. row' = [row EXCEPT !.status = "resolved", !.resolution = how, !.cause = x, !.version = v]
    BY <1>2
  <2> HIDE DEF x, v
  <2>3. row' \in Exception /\ row'.version = v
    BY <1>1, <2>1, <2>2 DEF Exception, Statuses
  <2> QED
    BY <2>3 DEF v
<1>4. row'.version > row.version
  BY <1>1, <1>2, <1>3
<1> QED
  BY <1>1, <1>2, <1>3, <1>4, WritePreserves

LEMMA CreateKeeps ==
  ASSUME EInv, NEW c \in Sessions, CommitCreate(c)
  PROVE  EInv' /\ row' \in Exception
<1>1. Readers = {}
  BY DEF CommitCreate, EInv
<1>2. PICK severity \in Severities, owner \in Values \cup {None}, due \in Values \cup {None}, evidence \in SUBSET Items :
         row' = [status |-> "open", version |-> 1, severity |-> severity, owner |-> owner,
                 due |-> due, cause |-> None, evidence |-> evidence, resolution |-> None]
  BY DEF CommitCreate
<1>3. row' \in Exception
  BY <1>2 DEF Exception, Statuses
<1>4. session' = [session EXCEPT ![c] = Idle] /\ overtaken' = overtaken
  BY DEF CommitCreate, End
<1> QED
  BY <1>1, <1>3, <1>4, EndPreserves

LEMMA MissedKeeps ==
  ASSUME EInv, NEW c \in Sessions, ResolveMissed(c)
  PROVE  EInv' /\ row # None /\ row' \in Exception /\ session[c].to \in Outcomes
<1>1. c \in Readers /\ overtaken' /\ session[c].op = "missed"
  BY DEF ResolveMissed, Readers
<1>2. row # None /\ row \in Exception /\ session[c].read.version + 4 \in Int /\ session[c].to \in Outcomes
  BY <1>1, ReaderReads DEF EInv, TypeOK
<1>3. row' = [row EXCEPT !.status = "resolved", !.version = session[c].read.version + 4]
  BY DEF ResolveMissed
<1>4. row' \in Exception
  BY <1>2, <1>3 DEF Exception, Statuses
<1>5. row' # None
  BY <1>4, ExceptionsAssumption
<1>6. TypeOK'
  BY <1>4 DEF ResolveMissed, End, EInv, TypeOK, Request
<1> QED
  BY <1>1, <1>2, <1>4, <1>5, <1>6 DEF EInv

-----------------------------------------------------------------------------
LEMMA StepPreserves == EInv /\ [Next]_vars => EInv'
<1> SUFFICES ASSUME EInv, [Next]_vars PROVE EInv'
  OBVIOUS
<1>1. CASE UNCHANGED vars
  BY <1>1 DEF vars, EInv, TypeOK, Readers, NotAhead
<1>2. ASSUME NEW c \in Sessions, Create(c) PROVE EInv'
  <2>1. [op |-> "create"] \in Request
    BY DEF Request
  <2> QED
    BY <1>2, <2>1, BeginPreserves DEF Create
<1>3. ASSUME NEW c \in Sessions, Load(c) PROVE EInv'
  <2>1. row # None => [op |-> "loaded", read |-> row] \in Request
    BY DEF EInv, TypeOK, Request
  <2> QED
    BY <1>3, <2>1, BeginPreserves DEF Load
<1>4. ASSUME NEW c \in Sessions, NEW to \in Statuses, Move(c, to) PROVE EInv'
  <2>1. [row EXCEPT !.status = to] \in Exception
    BY <1>4, LoadedReads, Edits DEF Move
  <2> QED
    BY <1>4, <2>1, WriteKeeps DEF Move
<1>5. ASSUME NEW c \in Sessions, NEW x \in Values \cup {None}, Assign(c, x) \/ SetDueDate(c, x) PROVE EInv'
  <2>1. [row EXCEPT !.owner = x] \in Exception /\ [row EXCEPT !.due = x] \in Exception
    BY <1>5, LoadedReads, Edits DEF Assign, SetDueDate, Write
  <2> QED
    BY <1>5, <2>1, WriteKeeps DEF Assign, SetDueDate
<1>6. ASSUME NEW c \in Sessions, NEW x \in Values, SetRootCause(c, x) PROVE EInv'
  <2>1. [row EXCEPT !.cause = x] \in Exception
    BY <1>6, LoadedReads, Edits DEF SetRootCause, Write
  <2> QED
    BY <1>6, <2>1, WriteKeeps DEF SetRootCause
<1>7. ASSUME NEW c \in Sessions, NEW x \in Severities, UpdateSeverity(c, x) PROVE EInv'
  <2>1. PICK due \in Values \cup {None} :
           Write(c, [row EXCEPT !.severity = x, !.due = due],
                 [type |-> "severity", from |-> session[c].read.severity, to |-> x])
    BY <1>7 DEF UpdateSeverity
  <2>2. [row EXCEPT !.severity = x, !.due = due] \in Exception
    BY <1>7, LoadedReads, Edits DEF UpdateSeverity
  <2> QED
    BY <2>1, <2>2, WriteKeeps
<1>8. ASSUME NEW c \in Sessions, NEW x \in Items, AddEvidence(c, x) PROVE EInv'
  <2>1. row \in Exception /\ session[c].read.evidence \cup {x} \in SUBSET Items
    BY <1>8, LoadedReads DEF AddEvidence, Exception
  <2>2. [row EXCEPT !.evidence = session[c].read.evidence \cup {x}] \in Exception
    BY <2>1, Edits
  <2> QED
    BY <1>8, <2>2, WriteKeeps DEF AddEvidence
<1>9. ASSUME NEW c \in Sessions, NEW how \in Outcomes, ResolveMisses(c, how) PROVE EInv'
  <2>1. c \in Readers /\ session[c].read \in Exception
    BY <1>9, LoadedReads DEF ResolveMisses, Resolvable
  <2> DEFINE s == [op |-> "missed", to |-> how, read |-> session[c].read]
  <2>2. s \in Request /\ s.op \notin {"idle", "create"} /\ s.read = session[c].read
    BY <2>1 DEF Request
  <2>3. session' = [session EXCEPT ![c] = s] /\ row' = row /\ overtaken' = overtaken
    BY <1>9 DEF ResolveMisses
  <2> HIDE DEF s
  <2>4. TypeOK'
    BY <2>2, <2>3 DEF EInv, TypeOK
  <2>5. Readers' \subseteq Readers
    BY <2>1, <2>2, <2>3 DEF Readers, EInv, TypeOK
  <2>6. \A d \in Readers' : session'[d].read = session[d].read
    BY <2>2, <2>3 DEF Readers, EInv, TypeOK
  <2> QED
    BY <2>3, <2>4, <2>5, <2>6 DEF EInv, NotAhead
<1>10. ASSUME NEW c \in Sessions, RollBack(c) PROVE EInv'
  BY <1>10, EndPreserves DEF RollBack
<1> QED
  BY <1>1, <1>2, <1>3, <1>4, <1>5, <1>6, <1>7, <1>8, <1>9, <1>10, CreateKeeps, ResolveKeeps, MissedKeeps
  DEF Next

(* Nobody has read ahead of the row, unless a resolve overtook a write.    *)
THEOREM Invariance == Spec => []EInv
  BY InitEstablishes, StepPreserves, PTL DEF Spec

(* A request that is let in by the version it read has read the exception  *)
(* as it is: no update of another request is lost, unless a resolve went   *)
(* on although its first write matched no row.                             *)
THEOREM NoStaleWrite == Spec => []CurrentIsFresh
<1>1. EInv => CurrentIsFresh
  BY DEF EInv, CurrentIsFresh, NotAhead
<1> QED
  BY Invariance, <1>1, PTL
-----------------------------------------------------------------------------
(* Replaying.  What the recursive definition of Replayed gives is never    *)
(* computed: the timeline only grows at its end, so it is enough that some *)
(* function replays it and that every function that does agrees with the   *)
(* row, and both survive one more event.                                   *)
Event ==
    [type : {"created"}, severity : Severities, due : Values \cup {None}]
    \cup [type : {"moved"}, to : Statuses]
    \cup [type : {"reopened"}, from : Statuses]
    \cup [type : {"assigned", "due_date"}, to : Values \cup {None}]
    \cup {[type |-> "root_cause"]}
    \cup [type : {"severity"}, from : Severities, to : Severities]
    \cup [type : {"evidence"}, key : Items]
    \cup [type : {"resolved"}, to : Outcomes]

(* What can be known of an exception, and what fits exception r.           *)
Knowledge == [status : Statuses, severity : Severities, resolution : Outcomes \cup {None},
              owner : SUBSET (Values \cup {None}), due : SUBSET (Values \cup {None}),
              cause : SUBSET (Values \cup {None}), evidence : SUBSET SUBSET Items]

Fits(k, r) ==
    /\ k \in Knowledge
    /\ k.status = r.status /\ k.severity = r.severity /\ k.resolution = r.resolution
    /\ r.owner \in k.owner /\ r.due \in k.due /\ r.cause \in k.cause /\ r.evidence \in k.evidence

Replays(R, t) == R = [n \in 0 .. Len(t) |-> IF n = 0 THEN None ELSE Effect(R[n - 1], t[n])]

Orderly(R, t) == \A n \in 2 .. Len(t) : Follows(R[n - 1], t[n], R[n])

Agrees(R) == row # None => Fits(R[Len(timeline)], row) /\ Orderly(R, timeline)

(* Event e tells of the change of exception r to q.                        *)
Tells(r, e, q) == \A k : Fits(k, r) => Fits(Effect(k, e), q) /\ Follows(k, e, Effect(k, e))

TInv ==
    /\ EInv
    /\ timeline \in Seq(Event)
    /\ row = None => timeline = <<>>
    /\ \E R : Replays(R, timeline)
    /\ ~overtaken => \A R : Replays(R, timeline) => Agrees(R)

-----------------------------------------------------------------------------
LEMMA OneMore ==
  ASSUME NEW t \in Seq(Event), NEW e \in Event, NEW R, Replays(R, t)
  PROVE  \E Q : Replays(Q, Append(t, e))
<1> DEFINE u == Append(t, e)
           Q == [n \in 0 .. Len(u) |-> IF n = Len(u) THEN Effect(R[Len(t)], e) ELSE R[n]]
<1>1. /\ Len(t) \in Nat /\ Len(u) = Len(t) + 1 /\ u[Len(t) + 1] = e
      /\ \A n \in 1 .. Len(t) : u[n] = t[n]
  OBVIOUS
<1> HIDE DEF u
<1>2. ASSUME NEW n \in 0 .. Len(u)
      PROVE  Q[n] = IF n = 0 THEN None ELSE Effect(Q[n - 1], u[n])
  <2>1. CASE n = Len(u)
    <3>1. n - 1 = Len(t) /\ n - 1 \in 0 .. Len(u) /\ n - 1 # Len(u) /\ n # 0
      BY <1>1, <2>1
    <3>2. Q[n - 1] = R[Len(t)]
      BY <3>1
    <3> QED
      BY <1>1, <2>1, <3>1, <3>2
  <2>2. CASE n # Len(u) /\ n # 0
    <3>1. n \in 0 .. Len(t) /\ n \in 1 .. Len(t) /\ n - 1 \in 0 .. Len(u) /\ n - 1 # Len(u)
      BY <1>1, <2>2
    <3>2. Q[n] = R[n] /\ Q[n - 1] = R[n - 1]
      BY <2>2, <3>1
    <3>3. R[n] = Effect(R[n - 1], t[n])
      BY <2>2, <3>1 DEF Replays
    <3> QED
      BY <1>1, <2>2, <3>1, <3>2, <3>3
  <2>3. CASE n # Len(u) /\ n = 0
    <3>1. Q[n] = R[0] /\ R[0] = None
      BY <1>1, <2>3 DEF Replays
    <3> QED
      BY <2>3, <3>1
  <2> QED
    BY <2>1, <2>2, <2>3
<1>3. Q = [n \in 0 .. Len(u) |-> IF n = 0 THEN None ELSE Effect(Q[n - 1], u[n])]
  <2>1. Q = [n \in 0 .. Len(u) |-> Q[n]]
    OBVIOUS
  <2> HIDE DEF Q
  <2> QED
    BY <1>2, <2>1
<1> HIDE DEF Q
<1>4. Replays(Q, u)
  BY <1>3 DEF Replays
<1> QED
  BY <1>4 DEF u

LEMMA OneLess ==
  ASSUME NEW t \in Seq(Event), NEW e \in Event, NEW Q, Replays(Q, Append(t, e))
  PROVE  \E R : /\ Replays(R, t)
                /\ \A n \in 0 .. Len(t) : Q[n] = R[n]
                /\ Q[Len(t) + 1] = Effect(R[Len(t)], e)
<1> DEFINE u == Append(t, e)
           R == [n \in 0 .. Len(t) |-> Q[n]]
<1>1. /\ Len(t) \in Nat /\ Len(u) = Len(t) + 1 /\ u[Len(t) + 1] = e
      /\ \A n \in 1 .. Len(t) : u[n] = t[n]
  OBVIOUS
<1>2. \A n \in 0 .. Len(u) : Q[n] = IF n = 0 THEN None ELSE Effect(Q[n - 1], u[n])
  BY DEF Replays
<1> HIDE DEF u
<1>3. ASSUME NEW n \in 0 .. Len(t)
      PROVE  R[n] = IF n = 0 THEN None ELSE Effect(R[n - 1], t[n])
  <2>1. n \in 0 .. Len(u)
    BY <1>1
  <2>2. CASE n = 0
    BY <1>2, <2>1, <2>2
  <2>3. CASE n # 0
    <3>1. n \in 1 .. Len(t) /\ n - 1 \in 0 .. Len(t)
      BY <1>1, <2>3
    <3>2. R[n - 1] = Q[n - 1] /\ R[n] = Q[n] /\ u[n] = t[n]
      BY <1>1, <3>1
    <3> QED
      BY <1>2, <2>1, <2>3, <3>2
  <2> QED
    BY <2>2, <2>3
<1>4. Replays(R, t)
  <2>1. R = [n \in 0 .. Len(t) |-> R[n]]
    OBVIOUS
  <2> HIDE DEF R
  <2> QED
    BY <1>3, <2>1 DEF Replays
<1>5. Q[Len(t) + 1] = Effect(R[Len(t)], e)
  <2>1. Len(t) + 1 \in 0 .. Len(u) /\ Len(t) + 1 # 0 /\ (Len(t) + 1) - 1 = Len(t) /\ Len(t) \in 0 .. Len(t)
    BY <1>1
  <2>2. R[Len(t)] = Q[Len(t)]
    BY <2>1
  <2> QED
    BY <1>1, <1>2, <2>1, <2>2
<1>6. \A n \in 0 .. Len(t) : Q[n] = R[n]
  OBVIOUS
<1> HIDE DEF R
<1> QED
  BY <1>4, <1>5, <1>6

(* One more event: it is enough that it tells of what the step did to the  *)
(* row.                                                                    *)
LEMMA Appends ==
  ASSUME TInv, EInv', NEW e \in Event, timeline' = Append(timeline, e), row' # None,
         overtaken => overtaken',
         ~overtaken' => /\ row = None => Fits(Effect(None, e), row')
                        /\ row # None => Tells(row, e, row')
  PROVE  TInv'
<1> DEFINE t == timeline
           l == Len(t)
<1>1. timeline' \in Seq(Event) /\ t \in Seq(Event) /\ l \in Nat
  BY DEF TInv
<1>2. \E Q : Replays(Q, Append(t, e))
  <2>1. PICK R : Replays(R, t)
    BY DEF TInv
  <2>2. PICK s \in Seq(Event) : s = t
    BY <1>1
  <2>3. \E Q : Replays(Q, Append(s, e))
    BY <2>1, <2>2, OneMore
  <2> QED
    BY <2>2, <2>3
<1>3. ASSUME ~overtaken', NEW Q, Replays(Q, Append(t, e))
      PROVE  Fits(Q[l + 1], row') /\ Orderly(Q, Append(t, e))
  <2>1. PICK s \in Seq(Event) : s = t
    BY <1>1
  <2>2. PICK R : /\ Replays(R, s)
                 /\ \A n \in 0 .. Len(s) : Q[n] = R[n]
                 /\ Q[Len(s) + 1] = Effect(R[Len(s)], e)
    BY <1>3, <2>1, OneLess
  <2>3. Agrees(R)
    BY <1>3, <2>1, <2>2 DEF TInv
  <2>4. Len(Append(t, e)) = l + 1 /\ Append(t, e)[l + 1] = e /\ \A n \in 1 .. l : Append(t, e)[n] = t[n]
    BY <1>1
  <2>5. CASE row = None
    <3>1. t = <<>> /\ l = 0
      BY <2>5 DEF TInv
    <3>2. R[0] = None
      BY <2>1, <2>2, <3>1 DEF Replays
    <3>3. Fits(Q[l + 1], row')
      BY <1>3, <2>1, <2>2, <2>5, <3>1, <3>2
    <3>4. 2 .. Len(Append(t, e)) = {}
      BY <2>4, <3>1
    <3> QED
      BY <3>3, <3>4 DEF Orderly
  <2>6. CASE row # None
    <3>1. Fits(R[l], row) /\ Orderly(R, t)
      BY <2>3, <2>6 DEF Agrees
    <3>2. /\ Fits(Effect(R[l], e), row') /\ Follows(R[l], e, Effect(R[l], e))
          /\ Q[l + 1] = Effect(R[l], e) /\ Q[l] = R[l]
      BY <1>1, <1>3, <2>1, <2>2, <2>6, <3>1 DEF Tells
    <3>3. ASSUME NEW n \in 2 .. Len(Append(t, e))
          PROVE  Follows(Q[n - 1], Append(t, e)[n], Q[n])
      <4>1. CASE n \in 2 .. l
        <5>1. n \in 0 .. l /\ n - 1 \in 0 .. l /\ n \in 1 .. l
          BY <1>1, <4>1
        <5>2. Q[n] = R[n] /\ Q[n - 1] = R[n - 1] /\ Append(t, e)[n] = t[n]
          BY <2>1, <2>2, <2>4, <5>1
        <5> QED
          BY <3>1, <4>1, <5>2 DEF Orderly
      <4>2. CASE n = l + 1
        <5>1. n - 1 = l
          BY <1>1, <4>2
        <5> QED
          BY <2>4, <3>2, <4>2, <5>1
      <4> QED
        BY <1>1, <2>4, <4>1, <4>2
    <3> QED
      BY <3>2, <3>3 DEF Orderly
  <2> QED
    BY <2>5, <2>6
<1>4. ASSUME ~overtaken', NEW Q, Replays(Q, timeline') PROVE Agrees(Q)'
  <2>1. Len(timeline') = l + 1
    BY <1>1
  <2> QED
    BY <1>3, <1>4, <2>1 DEF Agrees
<1> QED
  BY <1>1, <1>2, <1>4 DEF TInv
-----------------------------------------------------------------------------
(* What the events tell.                                                   *)
LEMMA CreatedTells ==
  ASSUME NEW severity \in Severities, NEW owner \in Values \cup {None}, NEW due \in Values \cup {None},
         NEW evidence \in SUBSET Items,
         NEW e, e = [type |-> "created", severity |-> severity, due |-> due]
  PROVE  /\ e \in Event
         /\ Fits(Effect(None, e),
                 [status |-> "open", version |-> 1, severity |-> severity, owner |-> owner,
                  due |-> due, cause |-> None, evidence |-> evidence, resolution |-> None])
<1>1. Effect(None, e) = [status |-> "open", severity |-> severity, resolution |-> None,
                         owner |-> Values \cup {None}, due |-> {due}, cause |-> {None},
                         evidence |-> SUBSET Items]
  BY DEF Effect
<1>2. Effect(None, e) \in Knowledge
  BY <1>1 DEF Knowledge, Statuses
<1> QED
  BY <1>1, <1>2 DEF Fits, Event

LEMMA MovedTells ==
  ASSUME NEW r \in Exception, NEW q, NEW to \in Statuses \ {"resolved"}, NEW v,
         to \in NextStatus(r.status), q = [[r EXCEPT !.status = to] EXCEPT !.version = v],
         NEW e, e = Moved(r.status, to)
  PROVE  e \in Event /\ Tells(r, e, q)
<1>1. /\ r.status \in Statuses /\ q.status = to
      /\ \A f \in {"severity", "resolution", "owner", "due", "cause", "evidence"} : q[f] = r[f]
  BY DEF Exception
<1>2. e \in Event
  BY <1>1 DEF Moved, Event
<1>3. ASSUME NEW k, Fits(k, r) PROVE Fits(Effect(k, e), q) /\ Follows(k, e, Effect(k, e))
  <2>1. k \in Knowledge /\ k.status = r.status
    BY <1>3 DEF Fits
  <2>2. Effect(k, e) = [k EXCEPT !.status = to]
    BY DEF Effect, Moved
  <2>3. [k EXCEPT !.status = to] \in Knowledge /\ Effect(k, e).status = to
    BY <2>1, <2>2 DEF Knowledge
  <2>4. Fits(Effect(k, e), q)
    BY <1>1, <1>3, <2>1, <2>2, <2>3 DEF Fits, Knowledge
  <2>5. Follows(k, e, Effect(k, e))
    BY <2>1, <2>3 DEF Follows, Moved
  <2> QED
    BY <2>4, <2>5
<1> QED
  BY <1>2, <1>3 DEF Tells

LEMMA AssignedTells ==
  ASSUME NEW r \in Exception, NEW q, NEW x \in Values \cup {None}, NEW v, NEW e,
         \/ e = [type |-> "assigned", to |-> x] /\ q = [[r EXCEPT !.owner = x] EXCEPT !.version = v]
         \/ e = [type |-> "due_date", to |-> x] /\ q = [[r EXCEPT !.due = x] EXCEPT !.version = v]
  PROVE  e \in Event /\ Tells(r, e, q)
<1>1. e \in Event
  BY DEF Event
<1>2. ASSUME NEW k, Fits(k, r) PROVE Fits(Effect(k, e), q) /\ Follows(k, e, Effect(k, e))
  <2>1. k \in Knowledge
    BY <1>2 DEF Fits
  <2>2. Follows(k, e, Effect(k, e))
    BY DEF Follows
  <2>3. CASE e.type = "assigned"
    <3>1. Effect(k, e) = [k EXCEPT !.owner = {x}] /\ q = [[r EXCEPT !.owner = x] EXCEPT !.version = v]
      BY <2>3 DEF Effect
    <3>2. Effect(k, e) \in Knowledge
      BY <2>1, <3>1 DEF Knowledge
    <3> QED
      BY <1>2, <2>1, <2>2, <3>1, <3>2 DEF Fits, Knowledge, Exception
  <2>4. CASE e.type = "due_date"
    <3>1. Effect(k, e) = [k EXCEPT !.due = {x}] /\ q = [[r EXCEPT !.due = x] EXCEPT !.version = v]
      BY <2>4 DEF Effect
    <3>2. Effect(k, e) \in Knowledge
      BY <2>1, <3>1 DEF Knowledge
    <3> QED
      BY <1>2, <2>1, <2>2, <3>1, <3>2 DEF Fits, Knowledge, Exception
  <2> QED
    BY <2>3, <2>4
<1> QED
  BY <1>1, <1>2 DEF Tells

LEMMA CauseTells ==
  ASSUME NEW r \in Exception, NEW q, NEW x \in Values, NEW v, NEW e,
         e = [type |-> "root_cause"], q = [[r EXCEPT !.cause = x] EXCEPT !.version = v]
  PROVE  e \in Event /\ Tells(r, e, q)
<1>1. e \in Event
  BY DEF Event
<1>2. ASSUME NEW k, Fits(k, r) PROVE Fits(Effect(k, e), q) /\ Follows(k, e, Effect(k, e))
  <2>1. k \in Knowledge /\ Effect(k, e) = [k EXCEPT !.cause = Values]
    BY <1>2 DEF Fits, Effect
  <2>2. Effect(k, e) \in Knowledge
    BY <2>1 DEF Knowledge
  <2>3. Follows(k, e, Effect(k, e))
    BY DEF Follows
  <2> QED
    BY <1>2, <2>1, <2>2, <2>3 DEF Fits, Knowledge, Exception
<1> QED
  BY <1>1, <1>2 DEF Tells

LEMMA SeverityTells ==
  ASSUME NEW r \in Exception, NEW q, NEW x \in Severities, NEW due \in Values \cup {None}, NEW v, NEW e,
         e = [type |-> "severity", from |-> r.severity, to |-> x],
         q = [[r EXCEPT !.severity = x, !.due = due] EXCEPT !.version = v]
  PROVE  e \in Event /\ Tells(r, e, q)
<1>1. e \in Event
  BY DEF Event, Exception
<1>2. ASSUME NEW k, Fits(k, r) PROVE Fits(Effect(k, e), q) /\ Follows(k, e, Effect(k, e))
  <2>1. /\ k \in Knowledge /\ k.severity = r.severity
        /\ Effect(k, e) = [k EXCEPT !.severity = x, !.due = Values \cup {None}]
    BY <1>2 DEF Fits, Effect
  <2>2. Effect(k, e) \in Knowledge
    BY <2>1 DEF Knowledge
  <2>3. Follows(k, e, Effect(k, e))
    BY <2>1 DEF Follows
  <2> QED
    BY <1>2, <2>1, <2>2, <2>3 DEF Fits, Knowledge, Exception
<1> QED
  BY <1>1, <1>2 DEF Tells

LEMMA EvidenceTells ==
  ASSUME NEW r \in Exception, NEW q, NEW x \in Items, NEW v, NEW e,
         e = [type |-> "evidence", key |-> x],
         q = [[r EXCEPT !.evidence = r.evidence \cup {x}] EXCEPT !.version = v]
  PROVE  e \in Event /\ Tells(r, e, q)
<1>1. e \in Event
  BY DEF Event
<1>2. ASSUME NEW k, Fits(k, r) PROVE Fits(Effect(k, e), q) /\ Follows(k, e, Effect(k, e))
  <2>1. k \in Knowledge /\ r.evidence \in k.evidence
    BY <1>2 DEF Fits
  <2> DEFINE E == {keys \cup {x} : keys \in k.evidence}
  <2>2. Effect(k, e) = [k EXCEPT !.evidence = E]
    BY DEF Effect
  <2>3. E \in SUBSET SUBSET Items /\ r.evidence \cup {x} \in E
    BY <2>1 DEF Knowledge
  <2> HIDE DEF E
  <2>4. Effect(k, e) \in Knowledge
    BY <2>1, <2>2, <2>3 DEF Knowledge
  <2>5. Follows(k, e, Effect(k, e))
    BY DEF Follows
  <2> QED
    BY <1>2, <2>1, <2>2, <2>3, <2>4, <2>5 DEF Fits, Knowledge, Exception
<1> QED
  BY <1>1, <1>2 DEF Tells

LEMMA ResolvedTells ==
  ASSUME NEW r \in Exception, NEW q, NEW how \in Outcomes, NEW cause \in Values \cup {None}, NEW v, NEW e,
         "resolved" \in NextStatus(r.status), e = Resolved(how),
         q = [r EXCEPT !.status = "resolved", !.resolution = how,
                       !.cause = IF cause = None THEN r.cause ELSE cause, !.version = v]
  PROVE  e \in Event /\ Tells(r, e, q)
<1>1. e \in Event
  BY DEF Event, Resolved
<1>2. ASSUME NEW k, Fits(k, r) PROVE Fits(Effect(k, e), q) /\ Follows(k, e, Effect(k, e))
  <2>1. /\ k \in Knowledge /\ k.status = r.status /\ r.cause \in k.cause
        /\ Effect(k, e) = [k EXCEPT !.status = "resolved", !.resolution = how, !.cause = k.cause \cup Values]
    BY <1>2 DEF Fits, Effect, Resolved, Knowledge
  <2> DEFINE C == k.cause \cup Values
  <2>2. C \in SUBSET (Values \cup {None}) /\ "resolved" \in Statuses
    BY <2>1 DEF Knowledge, Statuses
  <2>3. Effect(k, e) = [k EXCEPT !.status = "resolved", !.resolution = how, !.cause = C]
    BY <2>1
  <2>4. q.cause \in C
    BY <2>1 DEF Exception
  <2> HIDE DEF C
  <2>5. /\ DOMAIN k = {"status", "severity", "resolution", "owner", "due", "cause", "evidence"}
        /\ k = [status |-> k.status, severity |-> k.severity, resolution |-> k.resolution, owner |-> k.owner,
                due |-> k.due, cause |-> k.cause, evidence |-> k.evidence]
    BY <2>1 DEF Knowledge
  <2>6. Effect(k, e) = [status |-> "resolved", severity |-> k.severity, resolution |-> how, owner |-> k.owner,
                        due |-> k.due, cause |-> C, evidence |-> k.evidence]
    BY <2>3, <2>5
  <2>7. Effect(k, e) \in Knowledge /\ Effect(k, e).status = "resolved"
    BY <2>1, <2>2, <2>6 DEF Knowledge
  <2>8. Follows(k, e, Effect(k, e))
    BY <2>1, <2>7 DEF Follows, Resolved
  <2> QED
    BY <1>2, <2>1, <2>7, <2>8, <2>4, <2>6 DEF Fits, Knowledge, Exception
<1> QED
  BY <1>1, <1>2 DEF Tells

-----------------------------------------------------------------------------
LEMMA InitReplays == Init => TInv
<1> SUFFICES ASSUME Init PROVE TInv
  OBVIOUS
<1>1. timeline = <<>> /\ row = None
  BY DEF Init
<1>2. \E R : Replays(R, timeline)
  <2> DEFINE R == [n \in 0 .. Len(timeline) |-> None]
  <2>1. \A n \in 0 .. Len(timeline) : n = 0
    BY <1>1
  <2>2. R = [n \in 0 .. Len(timeline) |-> IF n = 0 THEN None ELSE Effect(R[n - 1], timeline[n])]
    BY <2>1
  <2> HIDE DEF R
  <2>3. Replays(R, timeline)
    BY <2>2 DEF Replays
  <2> QED
    BY <2>3
<1>3. timeline \in Seq(Event)
  BY <1>1
<1> QED
  BY <1>1, <1>2, <1>3, InitEstablishes DEF TInv, Agrees

(* A write made of the row as it is, told by its event.                    *)
LEMMA WriteReplays ==
  ASSUME TInv, NEW c \in Sessions, NEW r \in Exception, NEW e \in Event, Write(c, r, e),
         ~overtaken => Tells(row, e, [r EXCEPT !.version = session[c].read.version + 2])
  PROVE  TInv'
<1>1. EInv' /\ row' \in Exception
  BY WriteKeeps DEF TInv
<1>2. /\ row' = [r EXCEPT !.version = session[c].read.version + 2]
      /\ timeline' = Append(timeline, e) /\ overtaken' = overtaken
  BY DEF Write, End
<1>3. row # None /\ row' # None
  BY <1>1, LoadedReads, ExceptionsAssumption DEF Write, TInv
<1> QED
  BY <1>1, <1>2, <1>3, Appends

(* A request that finds the version it read.                               *)
LEMMA WriterKnows ==
  ASSUME TInv, NEW c \in Sessions, Loaded(c), Matches(c)
  PROVE  /\ row \in Exception /\ session[c].read \in Exception
         /\ ~overtaken => session[c].read = row
<1>1. c \in Readers /\ row \in Exception /\ session[c].read \in Exception
  BY LoadedReads DEF TInv
<1> QED
  BY <1>1 DEF TInv, EInv, NotAhead, Matches

LEMMA StepReplays == TInv /\ [Next]_vars => TInv'
<1> SUFFICES ASSUME TInv, [Next]_vars PROVE TInv'
  OBVIOUS
<1> USE ExceptionsAssumption
<1>1. EInv /\ EInv'
  BY StepPreserves DEF TInv
<1>2. ASSUME UNCHANGED <<row, timeline, overtaken>> PROVE TInv'
  BY <1>1, <1>2 DEF TInv, Agrees
<1>3. CASE UNCHANGED vars
  BY <1>2, <1>3 DEF vars
<1>4. ASSUME NEW c \in Sessions, Create(c) \/ Load(c) PROVE TInv'
  BY <1>2, <1>4 DEF Create, Load, Begin
<1>5. ASSUME NEW c \in Sessions, CommitCreate(c) PROVE TInv'
  <2>1. PICK severity \in Severities, owner \in Values \cup {None}, due \in Values \cup {None}, evidence \in SUBSET Items :
           /\ row' = [status |-> "open", version |-> 1, severity |-> severity, owner |-> owner,
                      due |-> due, cause |-> None, evidence |-> evidence, resolution |-> None]
           /\ End(c, [type |-> "created", severity |-> severity, due |-> due])
    BY <1>5 DEF CommitCreate
  <2> DEFINE e == [type |-> "created", severity |-> severity, due |-> due]
  <2>2. row = None /\ overtaken' = overtaken
    BY <1>5 DEF CommitCreate
  <2>3. row' # None
    BY <1>1, <1>5, CreateKeeps
  <2>4. e \in Event /\ Fits(Effect(None, e), row')
    BY <2>1, CreatedTells
  <2>5. timeline' = Append(timeline, e)
    BY <2>1 DEF End
  <2> HIDE DEF e
  <2> QED
    BY <1>1, <2>2, <2>3, <2>4, <2>5, Appends
<1>6. ASSUME NEW c \in Sessions, NEW to \in Statuses, Move(c, to) PROVE TInv'
  <2> DEFINE s == session[c]
             r == [row EXCEPT !.status = to]
             e == Moved(s.read.status, to)
  <2>1. /\ Loaded(c) /\ Matches(c) /\ to \in NextStatus(s.read.status) \ {"resolved"} /\ Write(c, r, e)
    BY <1>6 DEF Move, Write
  <2>2. row \in Exception /\ s.read \in Exception /\ (~overtaken => s.read = row)
    BY <2>1, WriterKnows
  <2>3. r \in Exception
    BY <2>2, Edits
  <2>4. e \in Event
    BY <2>2 DEF Moved, Event, Exception
  <2>5. ~overtaken => Tells(row, e, [r EXCEPT !.version = s.read.version + 2])
    BY <2>1, <2>2, MovedTells
  <2> HIDE DEF e, r
  <2> QED
    BY <2>1, <2>3, <2>4, <2>5, WriteReplays
<1>7. ASSUME NEW c \in Sessions, NEW x \in Values \cup {None}, Assign(c, x) PROVE TInv'
  <2> DEFINE r == [row EXCEPT !.owner = x]
             e == [type |-> "assigned", to |-> x]
  <2>1. Write(c, r, e) /\ Loaded(c) /\ Matches(c)
    BY <1>7 DEF Assign, Write
  <2>2. row \in Exception /\ r \in Exception
    BY <2>1, WriterKnows, Edits
  <2>3. e \in Event /\ Tells(row, e, [r EXCEPT !.version = session[c].read.version + 2])
    BY <2>2, AssignedTells
  <2> HIDE DEF e, r
  <2> QED
    BY <2>1, <2>2, <2>3, WriteReplays
<1>8. ASSUME NEW c \in Sessions, NEW x \in Values \cup {None}, SetDueDate(c, x) PROVE TInv'
  <2> DEFINE r == [row EXCEPT !.due = x]
             e == [type |-> "due_date", to |-> x]
  <2>1. Write(c, r, e) /\ Loaded(c) /\ Matches(c)
    BY <1>8 DEF SetDueDate, Write
  <2>2. row \in Exception /\ r \in Exception
    BY <2>1, WriterKnows, Edits
  <2>3. e \in Event /\ Tells(row, e, [r EXCEPT !.version = session[c].read.version + 2])
    BY <2>2, AssignedTells
  <2> HIDE DEF e, r
  <2> QED
    BY <2>1, <2>2, <2>3, WriteReplays
<1>9. ASSUME NEW c \in Sessions, NEW x \in Values, SetRootCause(c, x) PROVE TInv'
  <2> DEFINE r == [row EXCEPT !.cause = x]
             e == [type |-> "root_cause"]
  <2>1. Write(c, r, e) /\ Loaded(c) /\ Matches(c)
    BY <1>9 DEF SetRootCause, Write
  <2>2. row \in Exception /\ r \in Exception
    BY <2>1, WriterKnows, Edits
  <2>3. e \in Event /\ Tells(row, e, [r EXCEPT !.version = session[c].read.version + 2])
    BY <2>2, CauseTells
  <2> HIDE DEF e, r
  <2> QED
    BY <2>1, <2>2, <2>3, WriteReplays
<1>10. ASSUME NEW c \in Sessions, NEW x \in Severities, UpdateSeverity(c, x) PROVE TInv'
  <2>1. PICK due \in Values \cup {None} :
           Write(c, [row EXCEPT !.severity = x, !.due = due],
                 [type |-> "severity", from |-> session[c].read.severity, to |-> x])
    BY <1>10 DEF UpdateSeverity
  <2> DEFINE r == [row EXCEPT !.severity = x, !.due = due]
             e == [type |-> "severity", from |-> session[c].read.severity, to |-> x]
  <2>2. Loaded(c) /\ Matches(c)
    BY <2>1 DEF Write
  <2>3. row \in Exception /\ session[c].read \in Exception /\ (~overtaken => session[c].read = row)
    BY <2>2, WriterKnows
  <2>4. r \in Exception
    BY <2>3, Edits
  <2>5. e \in Event
    BY <2>3 DEF Event, Exception
  <2>6. ~overtaken => Tells(row, e, [r EXCEPT !.version = session[c].read.version + 2])
    BY <2>3, SeverityTells
  <2>7. Write(c, r, e)
    BY <2>1
  <2> HIDE DEF e, r
  <2> QED
    BY <2>4, <2>5, <2>6, <2>7, WriteReplays
<1>11. ASSUME NEW c \in Sessions, NEW x \in Items, AddEvidence(c, x) PROVE TInv'
  <2> DEFINE r == [row EXCEPT !.evidence = session[c].read.evidence \cup {x}]
             e == [type |-> "evidence", key |-> x]
  <2>1. Write(c, r, e) /\ Loaded(c) /\ Matches(c)
    BY <1>11 DEF AddEvidence, Write
  <2>2. row \in Exception /\ session[c].read \in Exception /\ (~overtaken => session[c].read = row)
    BY <2>1, WriterKnows
  <2>3. session[c].read.evidence \cup {x} \in SUBSET Items
    BY <2>2 DEF Exception
  <2>4. r \in Exception
    BY <2>2, <2>3, Edits
  <2>5. e \in Event
    BY DEF Event
  <2>6. ASSUME ~overtaken PROVE Tells(row, e, [r EXCEPT !.version = session[c].read.version + 2])
    <3>1. r = [row EXCEPT !.evidence = row.evidence \cup {x}]
      BY <2>2, <2>6
    <3> QED
      BY <2>2, <3>1, EvidenceTells
  <2> HIDE DEF e, r
  <2> QED
    BY <2>1, <2>4, <2>5, <2>6, WriteReplays
<1>12. ASSUME NEW c \in Sessions, NEW how \in Outcomes, NEW cause \in Values \cup {None}, Resolve(c, how, cause)
       PROVE  TInv'
  <2> DEFINE e == Resolved(how)
             s == session[c]
  <2>1. /\ Loaded(c) /\ Matches(c) /\ "resolved" \in NextStatus(s.read.status)
        /\ timeline' = Append(timeline, e) /\ overtaken' = overtaken
        /\ row' = [row EXCEPT !.status = "resolved", !.resolution = how,
                              !.cause = IF cause = None THEN row.cause ELSE cause,
                              !.version = s.read.version + 4]
    BY <1>12 DEF Resolve, Resolvable, End
  <2>2. row \in Exception /\ (~overtaken => s.read = row) /\ row' \in Exception
    BY <1>1, <1>12, <2>1, WriterKnows, ResolveKeeps
  <2>3. e \in Event
    BY DEF Resolved, Event
  <2>4. ~overtaken => Tells(row, e, row')
    BY <2>1, <2>2, ResolvedTells
  <2>5. row # None /\ row' # None
    BY <2>2
  <2> HIDE DEF e
  <2> QED
    BY <1>1, <2>1, <2>3, <2>4, <2>5, Appends
<1>13. ASSUME NEW c \in Sessions, NEW how \in Outcomes, ResolveMisses(c, how) PROVE TInv'
  BY <1>2, <1>13 DEF ResolveMisses
<1>14. ASSUME NEW c \in Sessions, ResolveMissed(c) PROVE TInv'
  <2>1. row # None /\ row' # None /\ session[c].to \in Outcomes
    BY <1>1, <1>14, MissedKeeps
  <2>2. Resolved(session[c].to) \in Event
    BY <2>1 DEF Resolved, Event
  <2>3. timeline' = Append(timeline, Resolved(session[c].to)) /\ overtaken'
    BY <1>14 DEF ResolveMissed, End
  <2> QED
    BY <1>1, <2>1, <2>2, <2>3, Appends
<1>15. ASSUME NEW c \in Sessions, RollBack(c) PROVE TInv'
  BY <1>2, <1>15 DEF RollBack
<1> QED
  BY <1>3, <1>4, <1>5, <1>6, <1>7, <1>8, <1>9, <1>10, <1>11, <1>12, <1>13, <1>14, <1>15 DEF Next

-----------------------------------------------------------------------------
LEMMA ReplayInvariance == Spec => []TInv
  BY InitReplays, StepReplays, PTL DEF Spec

(* Replayed is the function that replays the timeline.                     *)
LEMMA ReplayedReplays ==
  ASSUME NEW R, Replays(R, timeline)
  PROVE  Replays(Replayed, timeline)
<1> DEFINE F(ff) == ff = [n \in 0 .. Len(timeline) |-> IF n = 0 THEN None ELSE Effect(ff[n - 1], timeline[n])]
<1>1. \E ff : F(ff)
  BY DEF Replays
<1>2. Replayed = CHOOSE ff : F(ff)
  BY DEF Replayed
<1> HIDE DEF F
<1>3. F(Replayed)
  BY <1>1, <1>2
<1> QED
  BY <1>3 DEF Replays, F

(* Unless a resolve was overtaken, replaying the timeline gives the        *)
(* status, severity and resolution of the row and allows its owner, due    *)
(* date, root cause and evidence, and each event follows from those before *)
(* it and moves the exception as the lifecycle allows.                     *)
THEOREM TimelineIsTruth == Spec => []TimelineReplays
<1>1. TInv => TimelineReplays
  <2> SUFFICES ASSUME TInv, ~overtaken, row # None PROVE TimelineReplays
    BY DEF TimelineReplays
  <2>1. PICK R : Replays(R, timeline)
    BY DEF TInv
  <2>2. Replays(Replayed, timeline)
    BY <2>1, ReplayedReplays
  <2>3. Fits(Replayed[Len(timeline)], row) /\ Orderly(Replayed, timeline)
    BY <2>2 DEF TInv, Agrees
  <2> QED
    BY <2>3 DEF TimelineReplays, Orderly, Fits
<1> QED
  BY ReplayInvariance, <1>1, PTL
=============================================================================
