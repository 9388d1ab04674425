------------------------- MODULE DriverVerdictProofs -------------------------
(* The listener's verdict reaches the report: a proof, for every suite, that no
   failing run is lost and no case passes that the listener did not pass; and the
   report implements the abstract log of CaseLog, in the order of the suite's plan; the
   shards of a suite split its filtered tests; and only what was chosen runs. *)
EXTENDS DriverCoreProofs

(* What the core will take for the result of the run it reads is the last state
   change on the wire before that run's 'complete', or the result it has: that
   is the listener's verdict.                                                  *)

IsCompleteAt(w, r, k) == w[k].ch = r /\ w[k].type = "complete"
IsStateAt(w, r, k) ==
    /\ w[k].ch = r /\ w[k].type = "state"
    /\ \A j \in 1..(k - 1) : ~IsCompleteAt(w, r, j)

Decides(w, r, res, v) ==
    /\ (\A k \in 1..Len(w) : ~IsStateAt(w, r, k)) => v = res
    /\ \A k \in 1..Len(w) :
          IsStateAt(w, r, k) /\ (\A j \in (k + 1)..Len(w) : ~IsStateAt(w, r, j))
             => v = w[k].result

OfRun(w, r) == \E k \in 1..Len(w) : w[k].ch = r
CompletedOn(w, r) == \E k \in 1..Len(w) : IsCompleteAt(w, r, k)

IdleIsSilent ==
    \A r \in Runs : body[r] = "idle" => verdict[r] = "success" /\ ~OfRun(wire, r)
Draining ==
    pc = "drain" =>
       /\ Decides(wire, NameOf(Current), result, verdict[NameOf(Current)])
       /\ body[NameOf(Current)] = "over" => CompletedOn(wire, NameOf(Current))
Ending ==
    pc = "end" => result \in {"spawn", "error", verdict[NameOf(Current)]}
PassIsOfARun ==
    \A k \in DOMAIN cases : cases[k].outcome = "pass" => cases[k].name \in Runs
NeverBound == sink # "bound" /\ pc # "dead"

VerdictInv ==
    IInv /\ IdleIsSilent /\ Draining /\ Ending /\ PassIsOfARun /\ NeverBound
         /\ VerdictReported

LEMMA AppendParts ==
    ASSUME NEW w \in Seq(Message), NEW m \in Message, NEW r
    PROVE  /\ Len(w) \in Nat /\ Len(Append(w, m)) = Len(w) + 1
           /\ Append(w, m)[Len(w) + 1] = m
           /\ \A k \in 1..Len(w) :
                 /\ Append(w, m)[k] = w[k]
                 /\ IsCompleteAt(Append(w, m), r, k) <=> IsCompleteAt(w, r, k)
                 /\ IsStateAt(Append(w, m), r, k) <=> IsStateAt(w, r, k)
<1>1. /\ Len(w) \in Nat /\ Len(Append(w, m)) = Len(w) + 1
      /\ Append(w, m)[Len(w) + 1] = m
      /\ \A k \in 1..Len(w) : Append(w, m)[k] = w[k]
  OBVIOUS
<1>2. \A k \in 1..Len(w) :
         IsCompleteAt(Append(w, m), r, k) <=> IsCompleteAt(w, r, k)
  BY <1>1 DEF IsCompleteAt
<1>3. \A k \in 1..Len(w) : IsStateAt(Append(w, m), r, k) <=> IsStateAt(w, r, k)
  <2> TAKE k \in 1..Len(w)
  <2>1. \A j \in 1..(k - 1) : j \in 1..Len(w)
    BY <1>1
  <2>. QED BY <1>1, <1>2, <2>1 DEF IsStateAt
<1>. QED BY <1>1, <1>2, <1>3

(* A message that is not a state change of r decides nothing. *)
LEMMA DecidesAppend ==
    ASSUME NEW w \in Seq(Message), NEW m \in Message, NEW r, NEW res, NEW v,
           Decides(w, r, res, v), ~IsStateAt(Append(w, m), r, Len(w) + 1)
    PROVE  Decides(Append(w, m), r, res, v)
<1>. DEFINE a == Append(w, m)
<1>1. /\ Len(w) \in Nat /\ Len(a) = Len(w) + 1
      /\ \A k \in 1..Len(w) : a[k] = w[k] /\ (IsStateAt(a, r, k) <=> IsStateAt(w, r, k))
  BY AppendParts
<1>2. \A k \in 1..Len(a) : IsStateAt(a, r, k) => k \in 1..Len(w)
  BY <1>1
<1>3. ASSUME \A k \in 1..Len(a) : ~IsStateAt(a, r, k)
      PROVE  v = res
  <2>1. \A k \in 1..Len(w) : k \in 1..Len(a) /\ ~IsStateAt(w, r, k)
    BY <1>1, <1>3
  <2>. QED BY <2>1 DEF Decides
<1>4. ASSUME NEW k \in 1..Len(a), IsStateAt(a, r, k),
             \A j \in (k + 1)..Len(a) : ~IsStateAt(a, r, j)
      PROVE  v = a[k].result
  <2>1. k \in 1..Len(w) /\ IsStateAt(w, r, k)
    BY <1>1, <1>2, <1>4
  <2>2. \A j \in (k + 1)..Len(w) :
           j \in 1..Len(w) /\ j \in (k + 1)..Len(a) /\ ~IsStateAt(w, r, j)
    BY <1>1, <1>4, <2>1
  <2>3. v = w[k].result
    BY <2>1, <2>2 DEF Decides
  <2>. QED BY <1>1, <2>1, <2>3
<1>. HIDE DEF a
<1>5. Decides(a, r, res, v)
  BY <1>3, <1>4 DEF Decides
<1>. QED BY <1>5 DEF a

(* A state change of r sent before its 'complete' decides. *)
LEMMA DecidesNew ==
    ASSUME NEW w \in Seq(Message), NEW m \in Message, NEW r, NEW res,
           IsStateAt(Append(w, m), r, Len(w) + 1)
    PROVE  Decides(Append(w, m), r, res, m.result)
<1>. DEFINE a == Append(w, m)
<1>1. Len(w) \in Nat /\ Len(a) = Len(w) + 1 /\ a[Len(w) + 1] = m
  BY AppendParts
<1>2. Len(w) + 1 \in 1..Len(a)
  BY <1>1
<1>3. ASSUME NEW k \in 1..Len(a),
             \A j \in (k + 1)..Len(a) : ~IsStateAt(a, r, j)
      PROVE  m.result = a[k].result
  <2>1. k = Len(w) + 1
    <3>1. Len(w) + 1 \notin (k + 1)..Len(a)
      BY <1>3
    <3>. QED BY <1>1, <3>1
  <2>. QED BY <1>1, <2>1
<1>4. IsStateAt(a, r, Len(w) + 1)
  OBVIOUS
<1>. HIDE DEF a
<1>5. Decides(a, r, res, m.result)
  BY <1>2, <1>3, <1>4 DEF Decides
<1>. QED BY <1>5 DEF a

(* Reading a message that is not r's 'complete'. *)
LEMMA DecidesTail ==
    ASSUME NEW w \in Seq(Message), w # <<>>, NEW r, NEW res, NEW v,
           Decides(w, r, res, v), ~IsCompleteAt(w, r, 1)
    PROVE  /\ IsStateAt(w, r, 1) => Decides(Tail(w), r, w[1].result, v)
           /\ ~IsStateAt(w, r, 1) => Decides(Tail(w), r, res, v)
<1>. DEFINE t == Tail(w)
<1>1. /\ Len(w) \in Nat /\ 1 \in 1..Len(w) /\ Len(t) = Len(w) - 1
      /\ \A k \in 1..Len(t) : k + 1 \in 1..Len(w) /\ t[k] = w[k + 1]
      /\ \A k \in 2..Len(w) : k - 1 \in 1..Len(t) /\ t[k - 1] = w[k]
  OBVIOUS
<1>. HIDE DEF t
<1>2. \A k \in 1..Len(t) : IsStateAt(t, r, k) <=> IsStateAt(w, r, k + 1)
  <2> TAKE k \in 1..Len(t)
  <2>1. ASSUME \A j \in 1..(k - 1) : ~IsCompleteAt(t, r, j),
               NEW i \in 1..((k + 1) - 1)
        PROVE  ~IsCompleteAt(w, r, i)
    <3>1. CASE i = 1
      BY <3>1
    <3>2. CASE i # 1
      <4>1. i - 1 \in 1..(k - 1) /\ i \in 2..Len(w)
        BY <1>1, <3>2
      <4>. QED BY <1>1, <2>1, <4>1 DEF IsCompleteAt
    <3>. QED BY <3>1, <3>2
  <2>2. ASSUME \A i \in 1..((k + 1) - 1) : ~IsCompleteAt(w, r, i),
               NEW j \in 1..(k - 1)
        PROVE  ~IsCompleteAt(t, r, j)
    <3>1. j \in 1..Len(t) /\ j + 1 \in 1..((k + 1) - 1)
      BY <1>1
    <3>. QED BY <1>1, <2>2, <3>1 DEF IsCompleteAt
  <2>3. t[k] = w[k + 1]
    BY <1>1
  <2>. QED BY <2>1, <2>2, <2>3 DEF IsStateAt
<1>3. ASSUME NEW k \in 1..Len(t), IsStateAt(t, r, k),
             \A j \in (k + 1)..Len(t) : ~IsStateAt(t, r, j)
      PROVE  v = t[k].result
  <2>1. k + 1 \in 1..Len(w) /\ IsStateAt(w, r, k + 1) /\ t[k] = w[k + 1]
    BY <1>1, <1>2, <1>3
  <2>2. ASSUME NEW j \in ((k + 1) + 1)..Len(w)
        PROVE  ~IsStateAt(w, r, j)
    <3>1. j - 1 \in (k + 1)..Len(t) /\ j - 1 \in 1..Len(t) /\ (j - 1) + 1 = j
      BY <1>1
    <3>. QED BY <1>2, <1>3, <3>1
  <2>. QED BY <2>1, <2>2 DEF Decides
<1>4. ASSUME \A k \in 1..Len(t) : ~IsStateAt(t, r, k), NEW j \in 2..Len(w)
      PROVE  ~IsStateAt(w, r, j)
  <2>1. j - 1 \in 1..Len(t) /\ (j - 1) + 1 = j
    BY <1>1
  <2>. QED BY <1>2, <1>4, <2>1
<1>5. ASSUME IsStateAt(w, r, 1), \A k \in 1..Len(t) : ~IsStateAt(t, r, k)
      PROVE  v = w[1].result
  <2>1. \A j \in (1 + 1)..Len(w) : ~IsStateAt(w, r, j)
    BY <1>4, <1>5
  <2>. QED BY <1>1, <1>5, <2>1 DEF Decides
<1>6. ASSUME ~IsStateAt(w, r, 1), \A k \in 1..Len(t) : ~IsStateAt(t, r, k)
      PROVE  v = res
  <2>1. \A j \in 1..Len(w) : j = 1 \/ j \in 2..Len(w)
    BY <1>1
  <2>2. \A j \in 1..Len(w) : ~IsStateAt(w, r, j)
    BY <1>4, <1>6, <2>1
  <2>. QED BY <2>2 DEF Decides
<1>7. /\ IsStateAt(w, r, 1) => Decides(t, r, w[1].result, v)
      /\ ~IsStateAt(w, r, 1) => Decides(t, r, res, v)
  BY <1>3, <1>5, <1>6 DEF Decides
<1>. QED BY <1>7 DEF t

(* At r's 'complete', the result is the verdict. *)
LEMMA DecidesComplete ==
    ASSUME NEW w \in Seq(Message), w # <<>>, NEW r, NEW res, NEW v,
           Decides(w, r, res, v), IsCompleteAt(w, r, 1)
    PROVE  v = res
<1>1. ASSUME NEW k \in 1..Len(w)
      PROVE  ~IsStateAt(w, r, k)
  <2>1. CASE k = 1
    BY <2>1 DEF IsStateAt, IsCompleteAt
  <2>2. CASE k # 1
    <3>1. 1 \in 1..(k - 1)
      BY <2>2
    <3>. QED BY <3>1 DEF IsStateAt
  <2>. QED BY <2>1, <2>2
<1>. QED BY <1>1 DEF Decides

LEMMA CompletedTail ==
    ASSUME NEW w \in Seq(Message), w # <<>>, NEW r, CompletedOn(w, r),
           ~IsCompleteAt(w, r, 1)
    PROVE  CompletedOn(Tail(w), r)
<1>1. PICK k \in 1..Len(w) : IsCompleteAt(w, r, k)
  BY DEF CompletedOn
<1>2. k # 1
  BY <1>1
<1>3. k - 1 \in 1..Len(Tail(w)) /\ Tail(w)[k - 1] = w[k]
  BY <1>2
<1>. QED BY <1>1, <1>3 DEF CompletedOn, IsCompleteAt

LEMMA InitVerdict == Init => VerdictInv
<1>. SUFFICES ASSUME Init PROVE VerdictInv
  OBVIOUS
<1>1. IInv
  BY InitInv
<1>2. IdleIsSilent
  BY DEF Init, IdleIsSilent, OfRun
<1>. QED BY <1>1, <1>2 DEF Init, VerdictInv, Draining, Ending, PassIsOfARun,
            NeverBound, VerdictReported

(* What a step of the listener does to what the core has not yet read: it sends
   one message, of the root or of a run that is not idle; a verdict changes only
   with a state change sent by a running run, a run ends only with 'complete'. *)
LEMMA ListenerSends ==
    ASSUME IInv, Listener
    PROVE  /\ UNCHANGED <<opts, coreVars>>
           /\ \E m \in Message :
                 /\ wire' = Append(wire, m)
                 /\ \A r \in Runs :
                       /\ body[r] = "idle" =>
                             body'[r] = "idle" /\ verdict'[r] = verdict[r] /\ m.ch # r
                       /\ body[r] = "running" =>
                             \/ body'[r] = "running"
                             \/ body'[r] = "over" /\ m = [ch |-> r, type |-> "complete"]
                       /\ body[r] = "over" =>
                             body'[r] = "over" /\ verdict'[r] = verdict[r]
                       /\ \/ verdict'[r] = verdict[r]
                          \/ m.ch = r /\ m.type = "state" /\ verdict'[r] = m.result
                       /\ body[r] = "running" /\ m.ch = r /\ m.type = "state" =>
                             verdict'[r] = m.result
<1>1. /\ body \in [Runs -> {"idle", "running", "over"}]
      /\ verdict \in [Runs -> Results]
  BY DEF IInv, TypeOK
<1>2. Nothing \notin Runs
  BY DEF Nothing, Runs
<1>3. CASE DeclarationPrints \/ SuiteAnswers \/ RootStrays
  <2>1. PICK t \in RootMessages : RootSays(t)
    BY <1>3 DEF DeclarationPrints, SuiteAnswers, RootStrays, RootMessages
  <2>2. [ch |-> Nothing, type |-> t] \in Message
    BY DEF Message
  <2>3. wire' = Append(wire, [ch |-> Nothing, type |-> t])
    BY <2>1 DEF RootSays, Send
  <2>4. UNCHANGED <<opts, coreVars, body, verdict>>
    BY <1>3 DEF DeclarationPrints, SuiteAnswers, RootStrays
  <2>5. \A r \in Runs : [ch |-> Nothing, type |-> t].ch # r
    BY <1>2
  <2>. QED BY <1>1, <2>2, <2>3, <2>4, <2>5
<1>4. ASSUME NEW q \in Runs, BodyChangesState(q)
      PROVE  /\ UNCHANGED <<opts, coreVars, body>> /\ body[q] # "idle"
             /\ \E s \in Results :
                   /\ wire' = Append(wire, [ch |-> q, type |-> "state", result |-> s])
                   /\ verdict' = IF body[q] = "running"
                                 THEN [verdict EXCEPT ![q] = s] ELSE verdict
  BY <1>4 DEF BodyChangesState, Send
<1>5. ASSUME NEW q \in Runs, BodyChangesState(q)
      PROVE  \E m \in Message :
                 /\ wire' = Append(wire, m)
                 /\ m.ch = q /\ m.type = "state" /\ m.result \in Results
                 /\ verdict' = IF body[q] = "running"
                               THEN [verdict EXCEPT ![q] = m.result] ELSE verdict
  <2>1. PICK s \in Results :
           /\ wire' = Append(wire, [ch |-> q, type |-> "state", result |-> s])
           /\ verdict' = IF body[q] = "running"
                         THEN [verdict EXCEPT ![q] = s] ELSE verdict
    BY <1>4, <1>5
  <2>2. [ch |-> q, type |-> "state", result |-> s] \in Message
    BY DEF Message
  <2>. QED BY <2>1, <2>2
<1>6. ASSUME NEW q \in Runs, BodySays(q)
      PROVE  /\ UNCHANGED <<opts, coreVars, body, verdict>> /\ body[q] = "running"
             /\ \E m \in Message : wire' = Append(wire, m) /\ m.ch = q /\ m.type # "state"
  <2>1. PICK t \in RunMessages : Send([ch |-> q, type |-> t])
    BY <1>6 DEF BodySays
  <2>2. /\ [ch |-> q, type |-> t] \in Message
        /\ [ch |-> q, type |-> t].type # "state"
    BY DEF Message, RunMessages
  <2>. QED BY <1>6, <2>1, <2>2 DEF BodySays, Send
<1>7. ASSUME NEW q \in Runs, BodyCompletes(q)
      PROVE  /\ UNCHANGED <<opts, coreVars, verdict>> /\ body[q] = "running"
             /\ body' = [body EXCEPT ![q] = "over"]
             /\ \E m \in Message : /\ wire' = Append(wire, m)
                                   /\ m = [ch |-> q, type |-> "complete"]
  <2>1. [ch |-> q, type |-> "complete"] \in Message
    BY DEF Message
  <2>. QED BY <1>7, <2>1 DEF BodyCompletes, Send
<1>8. CASE \E q \in Runs : BodyChangesState(q)
  BY <1>1, <1>4, <1>5, <1>8
<1>9. CASE \E q \in Runs : BodySays(q)
  BY <1>1, <1>6, <1>9
<1>10. CASE \E q \in Runs : BodyCompletes(q)
  BY <1>1, <1>7, <1>10
<1>. QED BY <1>3, <1>8, <1>9, <1>10 DEF Listener

LEMMA ListenerVerdict ==
    ASSUME VerdictInv, Listener
    PROVE  VerdictInv'
<1>1. IInv' /\ IInv
  BY ListenerInv DEF VerdictInv
<1>2. /\ wire \in Seq(Message) /\ wire' \in Seq(Message)
      /\ body \in [Runs -> {"idle", "running", "over"}]
      /\ verdict \in [Runs -> Results]
  BY <1>1 DEF IInv, TypeOK
<1>3. /\ opts' = opts /\ chosen' = chosen /\ pc' = pc /\ agenda' = agenda
      /\ result' = result /\ cases' = cases /\ sink' = sink
  BY <1>1, ListenerSends DEF coreVars
<1>4. PICK m \in Message :
         /\ wire' = Append(wire, m)
         /\ \A r \in Runs :
               /\ body[r] = "idle" =>
                     body'[r] = "idle" /\ verdict'[r] = verdict[r] /\ m.ch # r
               /\ body[r] = "running" =>
                     \/ body'[r] = "running"
                     \/ body'[r] = "over" /\ m = [ch |-> r, type |-> "complete"]
               /\ body[r] = "over" =>
                     body'[r] = "over" /\ verdict'[r] = verdict[r]
               /\ \/ verdict'[r] = verdict[r]
                  \/ m.ch = r /\ m.type = "state" /\ verdict'[r] = m.result
               /\ body[r] = "running" /\ m.ch = r /\ m.type = "state" =>
                     verdict'[r] = m.result
  BY <1>1, ListenerSends
<1>5. /\ Len(wire) \in Nat /\ Len(wire') = Len(wire) + 1
      /\ wire'[Len(wire) + 1] = m
      /\ \A k \in 1..Len(wire) : wire'[k] = wire[k]
  BY <1>2, <1>4
<1>6. IdleIsSilent'
  <2>1. ASSUME NEW r \in Runs, body'[r] = "idle"
        PROVE  verdict'[r] = "success" /\ ~OfRun(wire', r)
    <3>1. body[r] = "idle" /\ verdict'[r] = verdict[r] /\ m.ch # r
      BY <1>2, <1>4, <2>1
    <3>2. verdict[r] = "success" /\ ~OfRun(wire, r)
      BY <3>1 DEF VerdictInv, IdleIsSilent
    <3>. QED BY <1>5, <3>1, <3>2 DEF OfRun
  <2>. QED BY <2>1 DEF IdleIsSilent
<1>7. Draining'
  <2>. SUFFICES ASSUME pc = "drain" PROVE Draining'
    BY <1>3 DEF Draining
  <2>. DEFINE c == NameOf(Current)
  <2>1. c \in Runs
    <3>1. Current \in Item /\ Current.kind # "group"
      BY <1>1 DEF IInv, Busy, TypeOK, Current
    <3>. QED BY <3>1, NameOfType
  <2>2. c' = c
    BY <1>3 DEF Current, NameOf
  <2>3. /\ Decides(wire, c, result, verdict[c])
        /\ body[c] = "over" => CompletedOn(wire, c)
    BY DEF VerdictInv, Draining
  <2>. HIDE DEF c
  <2>4. /\ \A k \in 1..Len(wire) : IsCompleteAt(wire', c, k) <=> IsCompleteAt(wire, c, k)
    BY <1>5 DEF IsCompleteAt
  <2>5. body'[c] = "over" => CompletedOn(wire', c)
    <3>1. CASE body[c] = "over"
      <4>1. PICK k \in 1..Len(wire) : IsCompleteAt(wire, c, k)
        BY <2>3, <3>1 DEF CompletedOn
      <4>2. k \in 1..Len(wire') /\ IsCompleteAt(wire', c, k)
        BY <1>5, <2>4, <4>1
      <4>. QED BY <4>2 DEF CompletedOn
    <3>2. CASE body[c] = "running" /\ body'[c] = "over"
      <4>1. m = [ch |-> c, type |-> "complete"]
        BY <1>4, <2>1, <3>2
      <4>2. IsCompleteAt(wire', c, Len(wire) + 1) /\ Len(wire) + 1 \in 1..Len(wire')
        BY <1>5, <4>1 DEF IsCompleteAt
      <4>. QED BY <4>2 DEF CompletedOn
    <3>. QED BY <1>2, <1>4, <2>1, <3>1, <3>2
  <2>6. Decides(wire', c, result, verdict'[c])
    <3>1. CASE ~IsStateAt(wire', c, Len(wire) + 1)
      <4>1. verdict'[c] = verdict[c]
        <5>1. ASSUME verdict'[c] # verdict[c]
              PROVE  FALSE
          <6>1. m.ch = c /\ m.type = "state"
            BY <1>4, <2>1, <5>1
          <6>2. body[c] = "running"
            BY <1>2, <1>4, <2>1, <5>1
          <6>3. \A j \in 1..Len(wire) : ~IsCompleteAt(wire, c, j)
            BY <1>1, <6>2 DEF IInv, CompleteIsTrue, IsCompleteAt
          <6>4. \A j \in 1..((Len(wire) + 1) - 1) : ~IsCompleteAt(wire', c, j)
            BY <1>5, <2>4, <6>3
          <6>. QED BY <1>5, <3>1, <6>1, <6>4 DEF IsStateAt
        <5>. QED BY <5>1
      <4>. QED BY <1>2, <1>4, <2>3, <3>1, <4>1, DecidesAppend
    <3>2. CASE IsStateAt(wire', c, Len(wire) + 1)
      <4>1. m.ch = c /\ m.type = "state"
        BY <1>5, <3>2 DEF IsStateAt
      <4>2. body[c] = "running"
        <5>1. body[c] # "over"
          <6>1. ASSUME CompletedOn(wire, c)
                PROVE  FALSE
            <7>1. PICK k \in 1..Len(wire) : IsCompleteAt(wire, c, k)
              BY <6>1 DEF CompletedOn
            <7>2. k \in 1..((Len(wire) + 1) - 1) /\ IsCompleteAt(wire', c, k)
              BY <1>5, <2>4, <7>1
            <7>. QED BY <3>2, <7>2 DEF IsStateAt
          <6>. QED BY <2>3, <6>1
        <5>. QED BY <1>2, <1>4, <2>1, <4>1, <5>1
      <4>3. verdict'[c] = m.result
        BY <1>4, <2>1, <4>1, <4>2
      <4>. QED BY <1>2, <1>4, <3>2, <4>3, DecidesNew
    <3>. QED BY <3>1, <3>2
  <2>7. Decides(wire', c', result', (verdict')[c'])
        /\ (body'[c'] = "over" => CompletedOn(wire', c'))
    BY <1>3, <2>2, <2>5, <2>6
  <2>. QED BY <2>7 DEF Draining, c
<1>8. Ending'
  <2>. SUFFICES ASSUME pc = "end" PROVE Ending'
    BY <1>3 DEF Ending
  <2>1. NameOf(Current) \in Runs
    <3>1. Current \in Item /\ Current.kind # "group"
      BY <1>1 DEF IInv, Busy, TypeOK, Current
    <3>. QED BY <3>1, NameOfType
  <2>2. body[NameOf(Current)] = "over" \/ result = "spawn"
    BY <1>1 DEF IInv, EndsOver
  <2>3. result \in {"spawn", "error", verdict'[NameOf(Current)]}
    BY <1>4, <2>1, <2>2 DEF VerdictInv, Ending
  <2>. QED BY <1>3, <2>3 DEF Ending, Current, NameOf
<1>9. PassIsOfARun' /\ NeverBound'
  BY <1>3 DEF VerdictInv, PassIsOfARun, NeverBound
<1>10. VerdictReported'
  <2>1. \A r : (ReportedFailing(r)' <=> ReportedFailing(r))
               /\ (IsCurrent(r)' <=> IsCurrent(r))
    BY <1>3 DEF ReportedFailing, IsCurrent, Current
  <2>2. ASSUME NEW r \in Runs, body'[r] = "over",
               verdict'[r] \in {"failure", "error"}, ~IsCurrent(r)
        PROVE  ReportedFailing(r)
    <3>1. CASE body[r] = "over"
      BY <1>4, <2>2, <3>1 DEF VerdictInv, VerdictReported
    <3>2. CASE body[r] # "over"
      <4>1. body[r] = "running"
        BY <1>2, <1>4, <2>2, <3>2
      <4>. QED BY <1>1, <2>2, <4>1 DEF IInv, OneRunAtATime, VerdictInv, NeverBound
    <3>. QED BY <3>1, <3>2
  <2>3. ASSUME NEW k \in DOMAIN cases, cases[k].outcome = "pass"
        PROVE  body'[cases[k].name] = "over" /\ verdict'[cases[k].name] = "success"
    <3>1. /\ cases[k].name \in Runs
          /\ body[cases[k].name] = "over" /\ verdict[cases[k].name] = "success"
      BY <2>3 DEF VerdictInv, PassIsOfARun, VerdictReported
    <3>. QED BY <1>4, <3>1
  <2>. QED BY <1>3, <2>1, <2>2, <2>3 DEF VerdictReported
<1>. QED BY <1>1, <1>6, <1>7, <1>8, <1>9, <1>10 DEF VerdictInv

(* What is left on the wire after a message was read is no news of a run that
   is idle. *)
LEMMA TailSilent ==
    ASSUME NEW w \in Seq(Message), w # <<>>, NEW r, OfRun(Tail(w), r)
    PROVE  OfRun(w, r)
<1>1. PICK k \in 1..Len(Tail(w)) : Tail(w)[k].ch = r
  BY DEF OfRun
<1>2. k + 1 \in 1..Len(w) /\ Tail(w)[k] = w[k + 1]
  OBVIOUS
<1>. QED BY <1>1, <1>2 DEF OfRun

LEMMA SilentAfter ==
    ASSUME TypeOK, IdleIsSilent, UNCHANGED <<body, verdict>>,
           wire' = wire \/ Received
    PROVE  IdleIsSilent'
<1>1. \A r \in Runs : OfRun(wire', r) => OfRun(wire, r)
  <2>1. CASE wire' = wire
    BY <2>1
  <2>2. CASE Received
    BY <2>2, TailSilent DEF Received, TypeOK
  <2>. QED BY <2>1, <2>2
<1>. QED BY <1>1 DEF IdleIsSilent

(* _finish with an outcome that is true of the run keeps the report true. *)
LEMMA FinishVerdict ==
    ASSUME VerdictInv, NEW n, NEW o, NEW p, p # "dead", p \notin {"drain", "end"},
           Finish(n, o, p), UNCHANGED <<body, verdict>>,
           o = "pass" => n \in Runs /\ body[n] = "over" /\ verdict[n] = "success",
           \A r \in Runs :
              IsCurrent(r) => \/ r = n /\ o \in {"fail", "error"}
                              \/ verdict[r] \notin {"failure", "error"}
                              \/ body[r] # "over"
    PROVE  PassIsOfARun' /\ NeverBound' /\ VerdictReported' /\ Draining' /\ Ending'
<1>1. TypeOK /\ sink # "bound"
  BY DEF VerdictInv, IInv, NeverBound
<1>2. /\ \A r : ReportedFailing(r) => ReportedFailing(r)'
      /\ \A r : r = n /\ o \in {"fail", "error"} => ReportedFailing(r)'
  BY <1>1, FinishFails
<1>3. /\ DOMAIN cases' = 1..Len(cases) + 1 /\ Len(cases) \in Nat
      /\ DOMAIN cases = 1..Len(cases)
      /\ \A k \in 1..Len(cases) : cases'[k] = cases[k]
      /\ cases'[Len(cases) + 1] = [name |-> n, outcome |-> o]
  BY <1>1 DEF TypeOK, Finish
<1>4. pc' = p /\ sink' # "bound"
  BY <1>1 DEF Finish, WriteThen
<1>5. ASSUME NEW k \in DOMAIN cases', cases'[k].outcome = "pass"
      PROVE  /\ cases'[k].name \in Runs
             /\ body[cases'[k].name] = "over" /\ verdict[cases'[k].name] = "success"
  <2>1. CASE k \in DOMAIN cases
    BY <1>3, <1>5, <2>1 DEF VerdictInv, PassIsOfARun, VerdictReported
  <2>2. CASE k = Len(cases) + 1
    BY <1>3, <1>5, <2>2
  <2>. QED BY <1>3, <2>1, <2>2
<1>6. ASSUME NEW r \in Runs, body[r] = "over", verdict[r] \in {"failure", "error"}
      PROVE  ReportedFailing(r)'
  BY <1>2, <1>6 DEF VerdictInv, VerdictReported
<1>7. VerdictReported'
  BY <1>5, <1>6 DEF VerdictReported
<1>. QED BY <1>4, <1>5, <1>7 DEF PassIsOfARun, NeverBound, Draining, Ending

LEMMA CoreStepVerdict ==
    ASSUME VerdictInv, CoreStep
    PROVE  VerdictInv'
<1>1. /\ IInv' /\ IInv /\ TypeOK /\ IdleIsSilent
      /\ sink # "bound" /\ pc # "dead" /\ VerdictReported /\ PassIsOfARun
  BY CoreStepInv DEF VerdictInv, IInv, NeverBound
<1>2. ASSUME NEW p, WriteThen(p), p # "dead"
      PROVE  pc' = p /\ sink' # "bound"
  BY <1>1, <1>2 DEF WriteThen
<1>3. ASSUME agenda # <<>>, Current.kind # "group"
      PROVE  NameOf(Current) \in Runs
  <2>1. Current \in Item
    BY <1>1, <1>3 DEF Current, TypeOK
  <2>. QED BY <1>3, <2>1, NameOfType
<1>4. CASE LoadPrint \/ LoadSucceeds \/ VisitGroup \/ PassOver \/ AllVisited
  <2>1. /\ pc \in {"load", "step"} /\ pc' \in {"load", "step", "complete"}
        /\ sink' # "bound" /\ UNCHANGED <<body, verdict, cases>>
        /\ wire' = wire \/ Received
    BY <1>1, <1>2, <1>4 DEF LoadPrint, LoadSucceeds, VisitGroup, PassOver,
       AllVisited, AtItem, listenVars
  <2>2. \A r : ReportedFailing(r)' <=> ReportedFailing(r)
    BY <2>1 DEF ReportedFailing
  <2>3. VerdictReported' /\ PassIsOfARun'
    BY <1>1, <2>1, <2>2 DEF VerdictReported, PassIsOfARun, IsCurrent
  <2>4. IdleIsSilent'
    BY <1>1, <2>1, SilentAfter
  <2>. QED BY <1>1, <2>1, <2>3, <2>4 DEF VerdictInv, NeverBound, Draining, Ending
<1>5. CASE LoadFails
  <2>1. /\ Finish(Load, "error", "complete") /\ Received /\ pc = "load"
        /\ UNCHANGED <<body, verdict>>
    BY <1>5 DEF LoadFails, listenVars
  <2>2. \A r : ~IsCurrent(r)
    BY <2>1 DEF IsCurrent
  <2>3. PassIsOfARun' /\ NeverBound' /\ VerdictReported' /\ Draining' /\ Ending'
    BY <2>1, <2>2, FinishVerdict
  <2>4. IdleIsSilent'
    BY <1>1, <2>1, SilentAfter
  <2>. QED BY <1>1, <2>3, <2>4 DEF VerdictInv
<1>6. CASE SkipTest
  <2>1. /\ Finish(NameOf(Current), "skip", "step") /\ pc = "step"
        /\ UNCHANGED <<body, verdict, wire>>
    BY <1>6 DEF SkipTest, AtCall, AtItem, listenVars
  <2>2. \A r : ~IsCurrent(r)
    BY <2>1 DEF IsCurrent
  <2>3. PassIsOfARun' /\ NeverBound' /\ VerdictReported' /\ Draining' /\ Ending'
    BY <2>1, <2>2, FinishVerdict
  <2>4. IdleIsSilent'
    BY <1>1, <2>1, SilentAfter
  <2>. QED BY <1>1, <2>3, <2>4 DEF VerdictInv
<1>7. CASE StartRun
  <2>. DEFINE c == NameOf(Current)
  <2>1. /\ agenda # <<>> /\ pc = "step" /\ pc' = "drain" /\ Current.kind # "group"
        /\ agenda' = agenda /\ cases' = cases /\ wire' = wire /\ sink' = sink
        /\ verdict' = verdict /\ result' = "success"
        /\ body' = [body EXCEPT ![c] = "running"]
    BY <1>7 DEF StartRun, AtCall, AtItem
  <2>2. c \in Runs
    BY <1>3, <2>1
  <2>3. body[c] = "idle"
    <3>1. NameOf(Current) \in RunsUnder(agenda[1]) /\ 1 \in 1..Len(agenda)
      BY <1>1, <2>1 DEF RunsUnder, Current, TypeOK
    <3>2. FreshFrom(1)
      BY <1>1, <2>1 DEF IInv, Once
    <3>. QED BY <3>1, <3>2 DEF FreshFrom, Untouched
  <2>4. c' = c
    BY <2>1 DEF Current, NameOf
  <2>. HIDE DEF c
  <2>5. \A r \in Runs : body'[r] = IF r = c THEN "running" ELSE body[r]
    BY <1>1, <2>1 DEF TypeOK
  <2>6. IdleIsSilent'
    BY <1>1, <2>1, <2>5 DEF IdleIsSilent
  <2>7. verdict[c] = "success" /\ ~OfRun(wire, c)
    BY <1>1, <2>2, <2>3 DEF IdleIsSilent
  <2>8. Decides(wire, c, "success", verdict[c])
    BY <2>7 DEF Decides, IsStateAt, OfRun
  <2>9. Draining'
    <3>1. Decides(wire', c', result', (verdict')[c']) /\ (body')[c'] # "over"
      BY <2>1, <2>2, <2>4, <2>5, <2>8
    <3>. QED BY <3>1 DEF Draining, c
  <2>10. \A r : ReportedFailing(r)' <=> ReportedFailing(r)
    BY <2>1 DEF ReportedFailing
  <2>11. VerdictReported'
    <3>1. ASSUME NEW r \in Runs, body'[r] = "over",
                 verdict'[r] \in {"failure", "error"}
          PROVE  ReportedFailing(r)
      BY <1>1, <2>1, <2>5, <3>1 DEF VerdictReported, IsCurrent
    <3>2. ASSUME NEW k \in DOMAIN cases, cases[k].outcome = "pass"
          PROVE  body'[cases[k].name] = "over" /\ verdict'[cases[k].name] = "success"
      <4>1. /\ cases[k].name \in Runs
            /\ body[cases[k].name] = "over" /\ verdict[cases[k].name] = "success"
        BY <1>1, <3>2 DEF PassIsOfARun, VerdictReported
      <4>. QED BY <2>1, <2>3, <2>5, <4>1
    <3>. QED BY <2>1, <2>10, <3>1, <3>2 DEF VerdictReported
  <2>12. PassIsOfARun' /\ NeverBound' /\ Ending'
    BY <1>1, <2>1 DEF PassIsOfARun, NeverBound, Ending
  <2>. QED BY <1>1, <2>6, <2>9, <2>11, <2>12 DEF VerdictInv
<1>8. CASE (Dropped /\ pc # "drain")
  <2>1. /\ Received /\ UNCHANGED <<body, verdict, pc, cases, result, agenda, sink>>
    BY <1>8 DEF Dropped, coreVars, listenVars
  <2>2. \A r : (ReportedFailing(r)' <=> ReportedFailing(r))
               /\ (IsCurrent(r)' <=> IsCurrent(r))
    BY <2>1 DEF ReportedFailing, IsCurrent, Current
  <2>3. VerdictReported' /\ PassIsOfARun' /\ NeverBound'
    BY <1>1, <2>1, <2>2 DEF VerdictReported, PassIsOfARun, NeverBound
  <2>4. IdleIsSilent'
    BY <1>1, <2>1, SilentAfter
  <2>5. Draining' /\ Ending'
    BY <1>8, <2>1 DEF VerdictInv, Draining, Ending, Current, NameOf
  <2>. QED BY <1>1, <2>3, <2>4, <2>5 DEF VerdictInv
<1>9. CASE \/ DrainText \/ DrainState \/ DrainUnknown \/ DrainSpawn \/ DrainComplete
           \/ Dropped /\ pc = "drain"
  <2>. DEFINE c == NameOf(Current)
  <2>1. /\ Received /\ UNCHANGED <<body, verdict, cases, agenda>> /\ pc = "drain"
        /\ sink' # "bound" /\ pc' \in {"drain", "end"}
    BY <1>1, <1>2, <1>9 DEF DrainText, DrainState, DrainUnknown, DrainSpawn,
       DrainComplete, Dropped, Drains, coreVars, listenVars
  <2>2. c \in Runs
    <3>1. agenda # <<>> /\ Current.kind # "group"
      BY <1>1, <2>1 DEF IInv, Busy
    <3>. QED BY <1>3, <3>1
  <2>3. c' = c
    BY <2>1 DEF Current, NameOf
  <2>4. \A r : (ReportedFailing(r)' <=> ReportedFailing(r))
               /\ (IsCurrent(r)' <=> IsCurrent(r))
    BY <2>1, <2>3 DEF ReportedFailing, IsCurrent
  <2>5. VerdictReported' /\ PassIsOfARun' /\ NeverBound'
    BY <1>1, <2>1, <2>4 DEF VerdictReported, PassIsOfARun, NeverBound
  <2>6. IdleIsSilent'
    BY <1>1, <2>1, SilentAfter
  <2>7. /\ wire # <<>> /\ wire \in Seq(Message) /\ wire' = Tail(wire)
        /\ Head(wire) = wire[1] /\ wire[1] \in Message
    BY <1>1, <2>1 DEF Received, TypeOK
  <2>8. wire[1].type \in {"state", "complete"} => wire[1].ch \in Runs /\ wire[1].ch # Nothing
    <3>1. Nothing \notin Runs
      BY DEF Nothing, Runs
    <3>. QED BY <2>7, <3>1 DEF Message, RunMessages, RootMessages
  <2>9. /\ Decides(wire, c, result, verdict[c])
        /\ body[c] = "over" => CompletedOn(wire, c)
    BY <2>1 DEF VerdictInv, Draining
  <2>10. CASE DrainComplete
    <3>1. IsCompleteAt(wire, c, 1)
      BY <2>7, <2>8, <2>10 DEF DrainComplete, Drains, IsCompleteAt
    <3>2. verdict[c] = result
      BY <2>7, <2>9, <3>1, DecidesComplete
    <3>3. pc' = "end" /\ result' \in {"error", result}
      BY <2>10 DEF DrainComplete
    <3>4. result' \in {"spawn", "error", (verdict')[c']}
      BY <2>1, <2>3, <3>2, <3>3
    <3>5. Draining' /\ Ending'
      BY <3>3, <3>4 DEF Draining, Ending
    <3>. QED BY <1>1, <2>5, <2>6, <3>5 DEF VerdictInv
  <2>11. CASE DrainSpawn
    <3>1. pc' = "end" /\ result' = "spawn"
      BY <2>11 DEF DrainSpawn
    <3>2. Draining' /\ Ending'
      BY <3>1 DEF Draining, Ending
    <3>. QED BY <1>1, <2>5, <2>6, <3>2 DEF VerdictInv
  <2>12. CASE ~DrainComplete /\ ~DrainSpawn
    <3>1. pc' = "drain"
      BY <1>2, <1>9, <2>1, <2>12
         DEF DrainText, DrainState, DrainUnknown, Dropped, coreVars
    <3>2. ~IsCompleteAt(wire, c, 1)
      BY <1>9, <2>1, <2>7, <2>12 DEF DrainText, DrainState, DrainUnknown, Dropped,
         Drains, IsCompleteAt
    <3>3. IF IsStateAt(wire, c, 1) THEN result' = wire[1].result
                                   ELSE result' = result
      <4>1. CASE DrainState
        <5>1. /\ wire[1].type = "state" /\ wire[1].ch \in {c, Nothing}
              /\ result' = wire[1].result
          BY <2>7, <4>1 DEF DrainState, Drains
        <5>. QED BY <2>8, <5>1 DEF IsStateAt
      <4>2. CASE DrainText \/ DrainUnknown
        BY <2>7, <4>2 DEF DrainText, DrainUnknown, Drains, IsStateAt
      <4>3. CASE Dropped
        BY <2>1, <2>7, <4>3 DEF Dropped, coreVars, IsStateAt
      <4>. QED BY <1>9, <2>12, <4>1, <4>2, <4>3
    <3>4. Decides(wire', c, result', verdict[c])
      BY <2>7, <2>9, <3>2, <3>3, DecidesTail
    <3>5. body[c] = "over" => CompletedOn(wire', c)
      BY <2>7, <2>9, <3>2, CompletedTail
    <3>6. /\ Decides(wire', c', result', (verdict')[c'])
          /\ (body')[c'] = "over" => CompletedOn(wire', c')
      BY <2>1, <2>3, <3>4, <3>5
    <3>7. Draining' /\ Ending'
      BY <3>1, <3>6 DEF Draining, Ending
    <3>. QED BY <1>1, <2>5, <2>6, <3>7 DEF VerdictInv
  <2>. QED BY <2>10, <2>11, <2>12
<1>10. CASE TestEnds \/ HookFails \/ HookSucceeds
  <2>. DEFINE c == NameOf(Current)
  <2>1. /\ pc = "end" /\ UNCHANGED <<body, verdict, wire>>
    BY <1>10 DEF TestEnds, HookFails, HookSucceeds, AtEnd, listenVars
  <2>2. c \in Runs
    <3>1. agenda # <<>> /\ Current.kind # "group"
      BY <1>1, <2>1 DEF IInv, Busy
    <3>. QED BY <1>3, <3>1
  <2>3. /\ result \in {"spawn", "error", verdict[c]}
        /\ body[c] = "over" \/ result = "spawn"
        /\ verdict[c] \in Results
    BY <1>1, <2>1, <2>2 DEF VerdictInv, Ending, IInv, EndsOver, TypeOK
  <2>4. IdleIsSilent'
    BY <1>1, <2>1, SilentAfter
  <2>5. \A r : IsCurrent(r) => r = c
    BY DEF IsCurrent
  <2>6. CASE TestEnds \/ HookFails
    <3>1. PICK o : /\ Finish(c, o, "step")
                   /\ o = "pass" => result = "success"
                   /\ result \notin {"success", "skipped"} => o \in {"fail", "error"}
      BY <2>6 DEF TestEnds, HookFails, OutcomeOf
    <3>2. o = "pass" => c \in Runs /\ body[c] = "over" /\ verdict[c] = "success"
      BY <2>2, <2>3, <3>1
    <3>3. \A r \in Runs :
             IsCurrent(r) => \/ r = c /\ o \in {"fail", "error"}
                             \/ verdict[r] \notin {"failure", "error"}
                             \/ body[r] # "over"
      BY <2>3, <2>5, <3>1
    <3>4. PassIsOfARun' /\ NeverBound' /\ VerdictReported' /\ Draining' /\ Ending'
      BY <2>1, <3>1, <3>2, <3>3, FinishVerdict
    <3>. QED BY <1>1, <2>4, <3>4 DEF VerdictInv
  <2>7. CASE HookSucceeds
    <3>1. result = "success" /\ pc' = "step" /\ cases' = cases /\ sink' = sink
      BY <2>7 DEF HookSucceeds
    <3>2. \A r : ReportedFailing(r)' <=> ReportedFailing(r)
      BY <3>1 DEF ReportedFailing
    <3>3. VerdictReported'
      BY <1>1, <2>1, <2>3, <2>5, <3>1, <3>2 DEF VerdictReported
    <3>4. PassIsOfARun' /\ NeverBound' /\ Draining' /\ Ending'
      BY <1>1, <3>1 DEF PassIsOfARun, NeverBound, Draining, Ending
    <3>. QED BY <1>1, <2>4, <3>3, <3>4 DEF VerdictInv
  <2>. QED BY <1>10, <2>6, <2>7
<1>. QED BY <1>4, <1>5, <1>6, <1>7, <1>8, <1>9, <1>10 DEF CoreStep

LEMMA NextVerdict == VerdictInv /\ [Next]_vars => VerdictInv'
<1>. SUFFICES ASSUME VerdictInv, [Next]_vars PROVE VerdictInv'
  OBVIOUS
<1>1. CASE OnComplete
  <2>1. IInv'
    BY <1>1, OnCompleteInv DEF VerdictInv
  <2>2. pc = "complete" /\ pc' = "done"
        /\ UNCHANGED <<cases, wire, body, verdict, sink>>
    BY <1>1 DEF OnComplete, listenVars
  <2>3. \A r : ReportedFailing(r)' <=> ReportedFailing(r)
    BY <2>2 DEF ReportedFailing
  <2>4. VerdictReported'
    BY <2>2, <2>3 DEF VerdictInv, VerdictReported, IsCurrent
  <2>. QED BY <2>1, <2>2, <2>4 DEF VerdictInv, IdleIsSilent, Draining, Ending,
           PassIsOfARun, NeverBound
<1>2. CASE UNCHANGED vars
  <2>1. IInv'
    BY <1>2, NextInv DEF VerdictInv
  <2>2. UNCHANGED <<pc, agenda, result, cases, wire, body, verdict, sink>>
    BY <1>2 DEF vars, coreVars, listenVars
  <2>3. \A r : (ReportedFailing(r)' <=> ReportedFailing(r))
               /\ (IsCurrent(r)' <=> IsCurrent(r))
    BY <2>2 DEF ReportedFailing, IsCurrent, Current
  <2>4. VerdictReported'
    BY <2>2, <2>3 DEF VerdictInv, VerdictReported
  <2>5. Draining' /\ Ending'
    BY <2>2 DEF VerdictInv, Draining, Ending, Current, NameOf
  <2>. QED BY <2>1, <2>2, <2>4, <2>5 DEF VerdictInv, IdleIsSilent, PassIsOfARun,
           NeverBound
<1>. QED BY <1>1, <1>2, ListenerVerdict, CoreStepVerdict DEF Next

(* For every suite: a run the listener completed with a failure is reported as
   failing once the core has moved on from it, and a case is reported as passed
   only if the listener completed it with success. *)
THEOREM VerdictCorrect == Spec => []VerdictReported
<1>1. VerdictInv => VerdictReported
  BY DEF VerdictInv
<1>. QED BY <1>1, InitVerdict, NextVerdict, PTL DEF Spec

-----------------------------------------------------------------------------
(* Every place of p is in one of its parts. *)
InAPart(p, part, m, off, x) ==
    \E i \in 1..m : /\ off[i-1] \in Nat /\ x - off[i-1] \in 1..Len(part[i])
                    /\ p[x] = part[i][x - off[i-1]]

LEMMA PlaceIn ==
    ASSUME NEW p, NEW part, NEW m \in Nat, NEW off, Joins(p, part, m, off),
           \A i \in 1..m : Len(part[i]) \in Nat, NEW x \in 1..Len(p)
    PROVE  InAPart(p, part, m, off, x)
<1>. DEFINE T == {i \in 0..m : x <= off[i]}
<1>1. off \in [0..m -> Nat] /\ off[0] = 0 /\ off[m] = Len(p)
  BY DEF Joins
<1>2. m \in T
  BY <1>1
<1>3. PICK i \in T : \A j \in T : i <= j
  <2>1. T \subseteq Nat
    OBVIOUS
  <2>. HIDE DEF T
  <2>. QED BY <1>2, <2>1, LeastNumber
<1>4. i \in 0..m /\ x <= off[i] /\ i # 0
  BY <1>1, <1>3
<1>5. i \in 1..m /\ i - 1 \in 0..m /\ ~(i <= i - 1)
  BY <1>4
<1>6. i - 1 \notin T
  <2>. HIDE DEF T
  <2>. QED BY <1>3, <1>5
<1>7. ~(x <= off[i-1]) /\ off[i-1] \in Nat /\ off[i] \in Nat
  BY <1>1, <1>5, <1>6
<1>8. off[i] = off[i-1] + Len(part[i]) /\ Len(part[i]) \in Nat
  BY <1>5 DEF Joins
<1>9. x - off[i-1] \in 1..Len(part[i]) /\ off[i-1] + (x - off[i-1]) = x
  BY <1>4, <1>7, <1>8, SMTT(30)
<1>10. p[off[i-1] + (x - off[i-1])] = part[i][x - off[i-1]]
  BY <1>5, <1>9 DEF Joins
<1>. QED BY <1>5, <1>7, <1>9, <1>10 DEF InAPart

(* r stands in p before s does, wherever they stand. *)
Ordered(p, r, s) == \A x, y \in 1..Len(p) : p[x] = r /\ p[y] = s => x < y

(* The parts have names of their own: then what is in an earlier part comes first, and
   what is ordered in a part is ordered. *)
OwnNames(part, names, m) ==
    /\ \A i \in 1..m : Len(part[i]) \in Nat /\ \A k \in 1..Len(part[i]) : part[i][k] \in names[i]
    /\ \A i, j \in 1..m : i # j => names[i] \cap names[j] = {}

LEMMA PartOfName ==
    ASSUME NEW p, NEW part, NEW names, NEW m \in Nat, NEW off, Joins(p, part, m, off),
           OwnNames(part, names, m), NEW i \in 1..m, NEW x \in 1..Len(p), p[x] \in names[i]
    PROVE  /\ off[i-1] \in Nat /\ off[i] \in Nat /\ x - off[i-1] \in 1..Len(part[i])
           /\ p[x] = part[i][x - off[i-1]] /\ off[i-1] < x /\ x <= off[i]
<1>0. \A j \in 1..m : Len(part[j]) \in Nat
  BY DEF OwnNames
<1>1. PICK j \in 1..m : /\ off[j-1] \in Nat /\ x - off[j-1] \in 1..Len(part[j])
                        /\ p[x] = part[j][x - off[j-1]]
  <2>1. InAPart(p, part, m, off, x)
    BY <1>0, PlaceIn
  <2>. QED BY <2>1 DEF InAPart
<1>2. p[x] \in names[j]
  BY <1>1 DEF OwnNames
<1>3. j = i
  BY <1>2 DEF OwnNames
<1>4. off[i] = off[i-1] + Len(part[i]) /\ Len(part[i]) \in Nat
  BY DEF Joins, OwnNames
<1>. QED BY <1>1, <1>3, <1>4, SMTT(30)

LEMMA PartsInOrder ==
    ASSUME NEW p, NEW part, NEW names, NEW m \in Nat, NEW off, Joins(p, part, m, off),
           OwnNames(part, names, m), NEW i \in 1..m, NEW j \in 1..m, i < j,
           NEW r \in names[i], NEW s \in names[j]
    PROVE  Ordered(p, r, s)
<1>. SUFFICES ASSUME NEW x \in 1..Len(p), NEW y \in 1..Len(p), p[x] = r, p[y] = s
              PROVE  x < y
  BY DEF Ordered
<1>1. off[i] \in Nat /\ x <= off[i]
  BY PartOfName
<1>2. off[j-1] \in Nat /\ off[j-1] < y
  BY PartOfName
<1>3. off[i] <= off[j-1]
  <2>1. \A k \in 1..m : Len(part[k]) \in Nat
    BY DEF OwnNames
  <2>2. i \in 0..m /\ j - 1 \in 0..m /\ i <= j - 1
    OBVIOUS
  <2>. QED BY <2>1, <2>2, EndsGrow
<1>. QED BY <1>1, <1>2, <1>3

LEMMA OrderedInPart ==
    ASSUME NEW p, NEW part, NEW names, NEW m \in Nat, NEW off, Joins(p, part, m, off),
           OwnNames(part, names, m), NEW i \in 1..m, NEW r \in names[i], NEW s \in names[i],
           Ordered(part[i], r, s)
    PROVE  Ordered(p, r, s)
<1>. SUFFICES ASSUME NEW x \in 1..Len(p), NEW y \in 1..Len(p), p[x] = r, p[y] = s
              PROVE  x < y
  BY DEF Ordered
<1>1. off[i-1] \in Nat /\ x - off[i-1] \in 1..Len(part[i]) /\ r = part[i][x - off[i-1]]
  BY PartOfName
<1>2. y - off[i-1] \in 1..Len(part[i]) /\ s = part[i][y - off[i-1]]
  BY PartOfName, SMTT(30)
<1>3. x - off[i-1] < y - off[i-1]
  BY <1>1, <1>2 DEF Ordered
<1>. QED BY <1>1, <1>3

-----------------------------------------------------------------------------
(* The plan of a suite: the recursion of PlanOf has a solution, since what a group holds
   is strictly smaller, and each group's plan is its setUpAll, the plans of its entries
   and its tearDownAll, in this order.                                               *)

Ahead(g)  == IF g \in SetUpOf THEN << <<"setUp", g>> >> ELSE <<>>
Behind(g) == IF g \in TearDownOf THEN << <<"tearDown", g>> >> ELSE <<>>
EntryPlans(f, g) ==
    [i \in 1..Len(Entries[g]) |->
        IF Entries[g][i] \in Groups THEN f[Entries[g][i]] ELSE << <<"test", Entries[g][i]>> >>]
PlanBy(f, g) == Ahead(g) \o FlattenSeq(EntryPlans(f, g)) \o Behind(g)

(* f plans a group and all groups under it. *)
PlansUnder(f, g) == \A h \in {g} \cup Inside(g) : f[h] = PlanBy(f, h)

LEMMA InsideEntry ==
    ASSUME NEW g \in Groups, NEW k \in 1..Len(Entries[g]), Entries[g][k] \in Groups
    PROVE  /\ {Entries[g][k]} \cup Inside(Entries[g][k]) \subseteq Inside(g)
           /\ g \notin Inside(g)
BY EntryIsSmaller, TreeAssumption DEF Inside

LEMMA SamePlan ==
    ASSUME NEW f1, NEW f2, NEW g \in Groups,
           \A k \in 1..Len(Entries[g]) :
              Entries[g][k] \in Groups => f1[Entries[g][k]] = f2[Entries[g][k]]
    PROVE  PlanBy(f1, g) = PlanBy(f2, g)
<1>1. EntryPlans(f1, g) = EntryPlans(f2, g)
  BY DEF EntryPlans
<1>. QED BY <1>1 DEF PlanBy

LEMMA PlanIsOne ==
    ASSUME NEW g \in Groups, NEW f1, NEW f2, PlansUnder(f1, g), PlansUnder(f2, g)
    PROVE  f1[g] = f2[g]
<1>. DEFINE T == {h \in Groups : PlansUnder(f1, h) /\ PlansUnder(f2, h) /\ f1[h] # f2[h]}
<1>1. ASSUME T # {}
      PROVE  FALSE
  <2>1. T \subseteq Groups
    OBVIOUS
  <2>2. PICK h \in T : \A e \in T : ~(Inside(e) \subseteq Inside(h) /\ Inside(e) # Inside(h))
    <3>. HIDE DEF T
    <3>. QED BY <1>1, <2>1, SmallestGroup
  <2>3. h \in Groups /\ PlansUnder(f1, h) /\ PlansUnder(f2, h) /\ f1[h] # f2[h]
    BY <2>2
  <2>4. ASSUME NEW k \in 1..Len(Entries[h]), Entries[h][k] \in Groups
        PROVE  f1[Entries[h][k]] = f2[Entries[h][k]]
    <3>1. {Entries[h][k]} \cup Inside(Entries[h][k]) \subseteq Inside(h)
      BY <2>3, <2>4, InsideEntry
    <3>2. PlansUnder(f1, Entries[h][k]) /\ PlansUnder(f2, Entries[h][k])
      BY <2>3, <3>1 DEF PlansUnder
    <3>3. Inside(Entries[h][k]) \subseteq Inside(h) /\ Inside(Entries[h][k]) # Inside(h)
      BY <2>3, <2>4, EntryIsSmaller
    <3>4. Entries[h][k] \notin T
      <4>. HIDE DEF T
      <4>. QED BY <2>2, <3>3
    <3>. QED BY <2>4, <3>2, <3>4
  <2>5. PlanBy(f1, h) = PlanBy(f2, h)
    BY <2>3, <2>4, SamePlan
  <2>6. f1[h] = PlanBy(f1, h) /\ f2[h] = PlanBy(f2, h)
    BY <2>3 DEF PlansUnder
  <2>. QED BY <2>3, <2>5, <2>6
<1>. QED BY <1>1

(* The plan of each group, by a function that plans that group. *)
SomePlan(g) == CHOOSE f : PlansUnder(f, g)
ThePlan == [g \in Groups |-> SomePlan(g)[g]]
Plannable(g) == \E f : PlansUnder(f, g)

LEMMA PlanHolds ==
    ASSUME NEW h \in Groups, \A e \in {h} \cup Inside(h) : Plannable(e)
    PROVE  ThePlan[h] = PlanBy(ThePlan, h)
<1>1. PlansUnder(SomePlan(h), h)
  BY Zenon DEF Plannable, SomePlan
<1>2. SomePlan(h)[h] = PlanBy(SomePlan(h), h)
  BY <1>1 DEF PlansUnder
<1>3. ASSUME NEW k \in 1..Len(Entries[h]), Entries[h][k] \in Groups
      PROVE  SomePlan(h)[Entries[h][k]] = ThePlan[Entries[h][k]]
  <2>1. {Entries[h][k]} \cup Inside(Entries[h][k]) \subseteq Inside(h)
    BY <1>3, InsideEntry
  <2>2. PlansUnder(SomePlan(h), Entries[h][k])
    BY <1>1, <2>1 DEF PlansUnder
  <2>3. Plannable(Entries[h][k])
    BY <2>1
  <2>4. PlansUnder(SomePlan(Entries[h][k]), Entries[h][k])
    BY <2>3, Zenon DEF Plannable, SomePlan
  <2>5. SomePlan(h)[Entries[h][k]] = SomePlan(Entries[h][k])[Entries[h][k]]
    BY <1>3, <2>2, <2>4, PlanIsOne
  <2>. QED BY <1>3, <2>5 DEF ThePlan
<1>4. PlanBy(SomePlan(h), h) = PlanBy(ThePlan, h)
  BY <1>3, SamePlan
<1>. QED BY <1>2, <1>4 DEF ThePlan

LEMMA AllPlannable ==
    ASSUME NEW g \in Groups
    PROVE  Plannable(g)
<1>. DEFINE T == {h \in Groups : ~Plannable(h)}
<1>1. ASSUME T # {}
      PROVE  FALSE
  <2>1. T \subseteq Groups
    OBVIOUS
  <2>2. PICK h \in T : \A e \in T : ~(Inside(e) \subseteq Inside(h) /\ Inside(e) # Inside(h))
    <3>. HIDE DEF T
    <3>. QED BY <1>1, <2>1, SmallestGroup
  <2>3. h \in Groups /\ ~Plannable(h) /\ h \notin Inside(h)
    BY <2>2, TreeAssumption DEF Inside
  <2>4. ASSUME NEW e \in Inside(h)
        PROVE  e \in Groups /\ Inside(e) \subseteq Inside(h) /\ Plannable(e)
    <3>1. e \in Groups /\ e \in Below[h]
      BY <2>4 DEF Inside
    <3>2. Inside(e) \subseteq Inside(h)
      BY <2>3, <3>1, BelowIsTransitive DEF Inside, Subtree
    <3>3. e \notin Inside(e)
      BY <3>1, TreeAssumption DEF Inside
    <3>4. Inside(e) # Inside(h)
      BY <2>4, <3>3
    <3>5. e \notin T
      <4>. HIDE DEF T
      <4>. QED BY <2>2, <3>2, <3>4
    <3>. QED BY <3>1, <3>2, <3>5
  <2>5. ASSUME NEW e \in Inside(h)
        PROVE  ThePlan[e] = PlanBy(ThePlan, e)
    <3>1. \A d \in {e} \cup Inside(e) : Plannable(d)
      BY <2>4
    <3>. QED BY <2>4, <3>1, PlanHolds
  <2>. DEFINE f == [d \in Groups |-> IF d = h THEN PlanBy(ThePlan, h) ELSE ThePlan[d]]
  <2>6. ASSUME NEW e \in {h} \cup Inside(h)
        PROVE  f[e] = PlanBy(f, e)
    <3>1. e \in Groups /\ Inside(e) \subseteq Inside(h)
      BY <2>3, <2>4
    <3>2. ASSUME NEW k \in 1..Len(Entries[e]), Entries[e][k] \in Groups
          PROVE  ThePlan[Entries[e][k]] = f[Entries[e][k]]
      <4>1. Entries[e][k] \in Inside(h)
        BY <3>1, <3>2, InsideEntry
      <4>. QED BY <2>3, <3>2, <4>1
    <3>. HIDE DEF f
    <3>3. PlanBy(ThePlan, e) = PlanBy(f, e)
      BY <3>1, <3>2, SamePlan
    <3>4. f[e] = PlanBy(ThePlan, e)
      BY <2>5, <3>1 DEF f, ThePlan
    <3>. QED BY <3>3, <3>4
  <2>. HIDE DEF f
  <2>7. PlansUnder(f, h)
    BY <2>6 DEF PlansUnder
  <2>. QED BY <2>3, <2>7 DEF Plannable
<1>. QED BY <1>1

LEMMA PlanOfIs ==
    ASSUME NEW g \in Groups
    PROVE  PlanOf[g] = PlanBy(PlanOf, g)
<1>. DEFINE Solves(f) == f = [h \in Groups |-> PlanBy(f, h)]
<1>1. \A h \in Groups : ThePlan[h] = PlanBy(ThePlan, h)
  <2>. TAKE h \in Groups
  <2>1. \A e \in {h} \cup Inside(h) : Plannable(e)
    BY AllPlannable DEF Inside
  <2>. QED BY <2>1, PlanHolds
<1>2. Solves(ThePlan)
  <2>1. ThePlan = [h \in Groups |-> ThePlan[h]]
    BY DEF ThePlan
  <2>. HIDE DEF ThePlan
  <2>. QED BY <1>1, <2>1
<1>3. PlanOf = CHOOSE f : Solves(f)
  BY Zenon DEF PlanOf, PlanBy, Ahead, Behind, EntryPlans
<1>4. Solves(PlanOf)
  <2>. HIDE DEF Solves
  <2>. QED BY <1>2, <1>3, Zenon
<1>. QED BY <1>4, Zenon

-----------------------------------------------------------------------------
(* Where the names stand in a plan. *)

NamesUnder(e) == {r \in Runs : r[2] \in Subtree(e)}

(* p is a plan of what is under e: it has the names under e and no other. *)
NamesAre(p, e) ==
    /\ p \in Seq(Runs)
    /\ \A x \in 1..Len(p) : p[x] \in NamesUnder(e)
    /\ \A r \in NamesUnder(e) : \E x \in 1..Len(p) : p[x] = r

\* The plan of a group in its parts, and the names each of them may have.
Parts(g) ==
    [i \in 1..Len(Entries[g]) + 2 |->
        IF i = 1 THEN Ahead(g)
        ELSE IF i = Len(Entries[g]) + 2 THEN Behind(g) ELSE EntryPlans(PlanOf, g)[i - 1]]
PartNames(g) ==
    [i \in 1..Len(Entries[g]) + 2 |->
        IF i = 1 THEN {<<"setUp", g>>}
        ELSE IF i = Len(Entries[g]) + 2 THEN {<<"tearDown", g>>}
        ELSE NamesUnder(Entries[g][i - 1])]

LEMMA PartsAre ==
    ASSUME NEW g \in Groups
    PROVE  /\ Parts(g)[1] = Ahead(g) /\ Parts(g)[Len(Entries[g]) + 2] = Behind(g)
           /\ \A i \in 1..Len(Entries[g]) : Parts(g)[i + 1] = EntryPlans(PlanOf, g)[i]
<1>. DEFINE n == Len(Entries[g])
<1>1. n \in Nat
  BY SuiteAssumption
<1>2. Parts(g) = [i \in 1..n + 2 |-> IF i = 1 THEN Ahead(g)
                                     ELSE IF i = n + 2 THEN Behind(g)
                                     ELSE EntryPlans(PlanOf, g)[i - 1]]
  BY DEF Parts
<1>3. /\ 1 \in 1..n + 2 /\ n + 2 \in 1..n + 2 /\ n + 2 # 1
      /\ \A i \in 1..n : i + 1 \in 1..n + 2 /\ i + 1 # 1 /\ i + 1 # n + 2 /\ (i + 1) - 1 = i
  BY <1>1
<1>. HIDE DEF n
<1>4. /\ Parts(g)[1] = Ahead(g) /\ Parts(g)[n + 2] = Behind(g)
      /\ \A i \in 1..n : Parts(g)[i + 1] = EntryPlans(PlanOf, g)[i]
  BY <1>2, <1>3
<1>. QED BY <1>4 DEF n

LEMMA PartNamesAre ==
    ASSUME NEW g \in Groups
    PROVE  /\ PartNames(g)[1] = {<<"setUp", g>>}
           /\ PartNames(g)[Len(Entries[g]) + 2] = {<<"tearDown", g>>}
           /\ \A i \in 1..Len(Entries[g]) : PartNames(g)[i + 1] = NamesUnder(Entries[g][i])
<1>. DEFINE n == Len(Entries[g])
<1>1. n \in Nat
  BY SuiteAssumption
<1>2. PartNames(g) = [i \in 1..n + 2 |-> IF i = 1 THEN {<<"setUp", g>>}
                                         ELSE IF i = n + 2 THEN {<<"tearDown", g>>}
                                         ELSE NamesUnder(Entries[g][i - 1])]
  BY DEF PartNames
<1>3. /\ 1 \in 1..n + 2 /\ n + 2 \in 1..n + 2 /\ n + 2 # 1
      /\ \A i \in 1..n : i + 1 \in 1..n + 2 /\ i + 1 # 1 /\ i + 1 # n + 2 /\ (i + 1) - 1 = i
  BY <1>1
<1>. HIDE DEF n
<1>4. /\ PartNames(g)[1] = {<<"setUp", g>>} /\ PartNames(g)[n + 2] = {<<"tearDown", g>>}
      /\ \A i \in 1..n : PartNames(g)[i + 1] = NamesUnder(Entries[g][i])
  BY <1>2, <1>3
<1>. QED BY <1>4 DEF n

LEMMA JoinThree ==
    ASSUME NEW S, NEW A \in Seq(S), NEW p \in Seq(S), NEW C \in Seq(S),
           NEW part, NEW n \in Nat, NEW off, Joins(p, part, n, off),
           \A i \in 1..n : Len(part[i]) \in Nat,
           NEW segs, segs[1] = A, segs[n + 2] = C, \A i \in 1..n : segs[i + 1] = part[i]
    PROVE  \E new : Joins(A \o p \o C, segs, n + 2, new)
<1>. DEFINE a == Len(A)
            l == Len(p)
            c == Len(C)
            all == A \o p \o C
            new == [i \in 0..n + 2 |-> IF i = 0 THEN 0
                                       ELSE IF i = n + 2 THEN a + l + c ELSE a + off[i-1]]
<1>1. /\ off \in [0..n -> Nat] /\ off[0] = 0 /\ off[n] = l
      /\ \A i \in 1..n : off[i] = off[i-1] + Len(part[i])
      /\ \A i \in 1..n : \A k \in 1..Len(part[i]) : p[off[i-1] + k] = part[i][k]
  BY DEF Joins
<1>2. a \in Nat /\ l \in Nat /\ c \in Nat
  OBVIOUS
<1>3. /\ Len(all) = a + l + c
      /\ \A x \in 1..a : all[x] = A[x]
      /\ \A x \in a + 1..a + l : all[x] = p[x - a]
      /\ \A x \in a + l + 1..a + l + c : all[x] = C[x - a - l]
  BY ThreeParts
<1>4. /\ new \in [0..n + 2 -> Nat] /\ new[0] = 0 /\ new[n + 2] = a + l + c
      /\ \A i \in 1..n + 1 : new[i] = a + off[i-1]
  <2>1. ASSUME NEW i \in 1..n + 1 PROVE a + off[i-1] \in Nat /\ i \in 0..n + 2 /\ i # 0 /\ i # n + 2
    <3>1. i - 1 \in 0..n /\ i \in 0..n + 2 /\ i # 0 /\ i # n + 2
      OBVIOUS
    <3>2. off[i-1] \in Nat
      BY <1>1, <3>1
    <3>. QED BY <1>2, <3>1, <3>2
  <2>2. /\ \A i \in 0..n + 2 : i = 0 \/ i = n + 2 \/ i \in 1..n + 1
        /\ 0 \in 0..n + 2 /\ n + 2 \in 0..n + 2 /\ n + 2 # 0 /\ a + l + c \in Nat
    BY <1>2
  <2>. HIDE DEF a, l, c
  <2>. QED BY <2>1, <2>2
<1>. HIDE DEF new, all, a, l, c
<1>5. ASSUME NEW i \in 1..n + 2
      PROVE  /\ new[i] = new[i-1] + Len(segs[i])
             /\ \A k \in 1..Len(segs[i]) : all[new[i-1] + k] = segs[i][k]
  <2>1. CASE i = 1
    <3>1. new[1] = a + off[0] /\ new[0] = 0 /\ off[0] = 0 /\ i - 1 = 0
      <4>1. 1 \in 1..n + 1 /\ 1 - 1 = 0
        OBVIOUS
      <4>. QED BY <1>1, <1>4, <2>1, <4>1
    <3>2. Len(segs[i]) = a /\ segs[i] = A
      BY <2>1 DEF a
    <3>3. new[i] = a /\ new[i-1] = 0
      BY <1>2, <2>1, <3>1
    <3>4. ASSUME NEW k \in 1..a PROVE all[0 + k] = A[k]
      <4>1. 0 + k = k
        BY <1>2
      <4>. QED BY <1>3, <4>1
    <3>5. a = 0 + a
      BY <1>2
    <3>. QED BY <3>2, <3>3, <3>4, <3>5
  <2>2. CASE i = n + 2
    <3>1. new[i] = a + l + c /\ new[i-1] = a + l
      <4>1. i - 1 = n + 1 /\ n + 1 \in 1..n + 1 /\ (n + 1) - 1 = n
        BY <2>2
      <4>. QED BY <1>1, <1>4, <2>2, <4>1
    <3>2. Len(segs[i]) = c /\ segs[i] = C
      BY <2>2 DEF c
    <3>3. ASSUME NEW k \in 1..c PROVE all[(a + l) + k] = C[k]
      <4>1. (a + l) + k \in a + l + 1..a + l + c /\ ((a + l) + k) - a - l = k
        BY <1>2
      <4>. QED BY <1>3, <4>1
    <3>. QED BY <1>2, <3>1, <3>2, <3>3
  <2>3. CASE i # 1 /\ i # n + 2
    <3>1. i \in 2..n + 1 /\ i - 1 \in 1..n /\ i \in 1..n + 1 /\ i - 1 \in 1..n + 1
          /\ (i - 1) + 1 = i
      BY <2>3
    <3>. DEFINE j == i - 1
    <3>2. segs[i] = part[j] /\ new[i] = a + off[j] /\ new[j] = a + off[j-1]
      BY <1>4, <3>1
    <3>3. off[j] = off[j-1] + Len(part[j]) /\ Len(part[j]) \in Nat /\ off[j-1] \in Nat
      BY <1>1, <3>1
    <3>4. off[j] <= l
      <4>1. off[j] <= off[n]
        <5>1. j \in 0..n /\ n \in 0..n /\ j <= n
          BY <3>1
        <5>. QED BY <5>1, EndsGrow
      <4>. QED BY <1>1, <4>1
    <3>. HIDE DEF j
    <3>5. ASSUME NEW k \in 1..Len(part[j])
          PROVE  all[(a + off[j-1]) + k] = part[j][k]
      <4>1. (a + off[j-1]) + k \in a + 1..a + l /\ ((a + off[j-1]) + k) - a = off[j-1] + k
        <5>1. ASSUME NEW x \in Nat, NEW y \in Nat, x + y <= l, NEW z \in 1..y
              PROVE  (a + x) + z \in a + 1..a + l /\ ((a + x) + z) - a = x + z
          BY <1>2, <5>1
        <5>. QED BY <3>3, <3>4, <5>1
      <4>2. p[off[j-1] + k] = part[j][k]
        BY <1>1, <3>1 DEF j
      <4>. QED BY <1>3, <4>1, <4>2
    <3>. QED BY <1>2, <3>2, <3>3, <3>5 DEF j
  <2>. QED BY <2>1, <2>2, <2>3
<1>6. Joins(all, segs, n + 2, new)
  BY <1>3, <1>4, <1>5 DEF Joins
<1>. QED BY <1>6 DEF all

(* What a part has is there. *)
PartsThere(p, part, m) ==
    \A i \in 1..m : \A k \in 1..Len(part[i]) : \E x \in 1..Len(p) : p[x] = part[i][k]

LEMMA PartIsThere ==
    ASSUME NEW p, NEW part, NEW m \in Nat, NEW off, Joins(p, part, m, off),
           \A i \in 1..m : Len(part[i]) \in Nat
    PROVE  PartsThere(p, part, m)
<1>. SUFFICES ASSUME NEW i \in 1..m, NEW k \in 1..Len(part[i])
              PROVE  \E x \in 1..Len(p) : p[x] = part[i][k]
  BY DEF PartsThere
<1>1. /\ off \in [0..m -> Nat] /\ off[m] = Len(p) /\ off[i] = off[i-1] + Len(part[i])
      /\ p[off[i-1] + k] = part[i][k]
  BY DEF Joins
<1>2. off[i] <= off[m] /\ off[i-1] \in Nat /\ off[m] \in Nat
  <2>1. i \in 0..m /\ m \in 0..m /\ i <= m /\ i - 1 \in 0..m
    OBVIOUS
  <2>. QED BY <1>1, <2>1, EndsGrow
<1>3. off[i-1] + k \in 1..Len(p)
  BY <1>1, <1>2, SMTT(30)
<1>. QED BY <1>1, <1>3

LEMMA EntryPlanned ==
    ASSUME NEW g \in Groups, NEW k \in 1..Len(Entries[g]),
           Entries[g][k] \in Groups => NamesAre(PlanOf[Entries[g][k]], Entries[g][k])
    PROVE  NamesAre(EntryPlans(PlanOf, g)[k], Entries[g][k])
<1>1. Entries[g][k] \in Nodes
  BY SuiteAssumption
<1>2. CASE Entries[g][k] \in Groups
  BY <1>2 DEF EntryPlans
<1>3. CASE Entries[g][k] \notin Groups
  <2>. DEFINE t == Entries[g][k]
              r == <<"test", t>>
  <2>1. t \in Leaves /\ Subtree(t) = {t}
    BY <1>1, <1>3 DEF Nodes, Subtree
  <2>2. EntryPlans(PlanOf, g)[k] = <<r>>
    BY <1>3 DEF EntryPlans
  <2>3. r \in Runs /\ NamesUnder(t) = {r}
    BY <2>1, SuiteAssumption DEF NamesUnder, Runs
  <2>. HIDE DEF r, t
  <2>4. <<r>> \in Seq(Runs) /\ Len(<<r>>) = 1 /\ <<r>>[1] = r
    BY <2>3
  <2>5. NamesAre(<<r>>, t)
    BY <2>3, <2>4 DEF NamesAre
  <2>. QED BY <2>2, <2>5 DEF t
<1>. QED BY <1>2, <1>3

Planned(g) == \A k \in 1..Len(Entries[g]) : NamesAre(EntryPlans(PlanOf, g)[k], Entries[g][k])

LEMMA PlanJoins ==
    ASSUME NEW g \in Groups, Planned(g)
    PROVE  /\ PlanOf[g] \in Seq(Runs)
           /\ OwnNames(Parts(g), PartNames(g), Len(Entries[g]) + 2)
           /\ \E off : Joins(PlanOf[g], Parts(g), Len(Entries[g]) + 2, off)
<1>. DEFINE n == Len(Entries[g])
            ps == EntryPlans(PlanOf, g)
<1>1. n \in Nat
  BY SuiteAssumption
<1>2. /\ ps \in Seq(Seq(Runs)) /\ Len(ps) = n
      /\ \A k \in 1..n : ps[k] \in Seq(Runs)
  <2>1. \A k \in 1..n : ps[k] \in Seq(Runs)
    BY DEF Planned, NamesAre
  <2>2. ps = [k \in 1..n |-> ps[k]]
    BY DEF EntryPlans
  <2>. HIDE DEF ps, n
  <2>3. ps \in [1..n -> Seq(Runs)]
    BY <2>1, <2>2
  <2>. QED BY <1>1, <2>1, <2>3
<1>3. \A k \in 1..n : Len(ps[k]) \in Nat
  BY <1>2, LenProperties
<1>4. /\ Ahead(g) \in Seq(Runs) /\ Len(Ahead(g)) \in Nat
      /\ \A k \in 1..Len(Ahead(g)) : Ahead(g)[k] = <<"setUp", g>>
  <2>1. CASE g \in SetUpOf
    <3>1. <<"setUp", g>> \in Runs
      BY <2>1 DEF Runs
    <3>2. Ahead(g) = << <<"setUp", g>> >>
      BY <2>1 DEF Ahead
    <3>. QED BY <3>1, <3>2, OneItem
  <2>2. CASE g \notin SetUpOf
    BY <2>2, EmptySeq DEF Ahead
  <2>. QED BY <2>1, <2>2
<1>5. /\ Behind(g) \in Seq(Runs) /\ Len(Behind(g)) \in Nat
      /\ \A k \in 1..Len(Behind(g)) : Behind(g)[k] = <<"tearDown", g>>
  <2>1. CASE g \in TearDownOf
    <3>1. <<"tearDown", g>> \in Runs
      BY <2>1 DEF Runs
    <3>2. Behind(g) = << <<"tearDown", g>> >>
      BY <2>1 DEF Behind
    <3>. QED BY <3>1, <3>2, OneItem
  <2>2. CASE g \notin TearDownOf
    BY <2>2, EmptySeq DEF Behind
  <2>. QED BY <2>1, <2>2
<1>8. PlanOf[g] = Ahead(g) \o FlattenSeq(ps) \o Behind(g)
  BY PlanOfIs DEF PlanBy
<1>9. \A k \in 1..n : \A x \in 1..Len(ps[k]) : ps[k][x] \in NamesUnder(Entries[g][k])
  BY DEF Planned, NamesAre
<1>. HIDE DEF ps, n
<1>10. FlattenSeq(ps) \in Seq(Runs) /\ \E off : Joins(FlattenSeq(ps), ps, n, off)
  BY <1>2, FlattenJoins
<1>11. /\ Parts(g)[1] = Ahead(g) /\ Parts(g)[n + 2] = Behind(g)
       /\ \A i \in 1..n : Parts(g)[i + 1] = ps[i]
       /\ PartNames(g)[1] = {<<"setUp", g>>} /\ PartNames(g)[n + 2] = {<<"tearDown", g>>}
       /\ \A i \in 1..n : PartNames(g)[i + 1] = NamesUnder(Entries[g][i])
  BY PartsAre, PartNamesAre DEF n, ps
<1>12. \E off : Joins(PlanOf[g], Parts(g), n + 2, off)
  <2>. HIDE DEF Parts
  <2>1. PICK off : Joins(FlattenSeq(ps), ps, n, off)
    BY <1>10
  <2>2. \E new : Joins(Ahead(g) \o FlattenSeq(ps) \o Behind(g), Parts(g), n + 2, new)
    <3>1. \A i \in 1..n : Len(ps[i]) \in Nat
      BY <1>3
    <3>2. Ahead(g) \in Seq(Runs) /\ FlattenSeq(ps) \in Seq(Runs) /\ Behind(g) \in Seq(Runs)
      BY <1>4, <1>5, <1>10
    <3>. QED BY <1>1, <1>11, <2>1, <3>1, <3>2, JoinThree, ZenonT(60)
  <2>. QED BY <1>8, <2>2
<1>13. PlanOf[g] \in Seq(Runs)
  BY <1>4, <1>5, <1>8, <1>10
<1>14. \A i \in 1..n + 2 : i = 1 \/ i = n + 2 \/ (i - 1 \in 1..n /\ (i - 1) + 1 = i)
  BY <1>1
<1>15. ASSUME NEW i \in 1..n + 2
       PROVE  Len(Parts(g)[i]) \in Nat
              /\ \A k \in 1..Len(Parts(g)[i]) : Parts(g)[i][k] \in PartNames(g)[i]
  <2>1. CASE i = 1
    BY <1>4, <1>11, <2>1
  <2>2. CASE i = n + 2
    BY <1>5, <1>11, <2>2
  <2>3. CASE i - 1 \in 1..n /\ (i - 1) + 1 = i
    <3>1. Parts(g)[i] = ps[i-1] /\ PartNames(g)[i] = NamesUnder(Entries[g][i-1])
      BY <1>11, <2>3
    <3>. QED BY <1>3, <1>9, <2>3, <3>1
  <2>. QED BY <1>14, <2>1, <2>2, <2>3
<1>16. ASSUME NEW i \in 1..n + 2, NEW j \in 1..n + 2, i # j
       PROVE  PartNames(g)[i] \cap PartNames(g)[j] = {}
  <2>1. \A k \in 1..n : \A r \in NamesUnder(Entries[g][k]) :
           r[2] \in Subtree(Entries[g][k]) /\ r[2] # g
    BY TreeAssumption DEF NamesUnder, n
  <2>2. ASSUME NEW k \in 1..n, NEW l \in 1..n, k # l
        PROVE  NamesUnder(Entries[g][k]) \cap NamesUnder(Entries[g][l]) = {}
    <3>1. Subtree(Entries[g][k]) \cap Subtree(Entries[g][l]) = {}
      BY <2>2, TreeAssumption DEF n
    <3>. QED BY <2>1, <3>1
  <2>3. /\ i = 1 \/ i = n + 2 \/ (i - 1 \in 1..n /\ (i - 1) + 1 = i)
        /\ j = 1 \/ j = n + 2 \/ (j - 1 \in 1..n /\ (j - 1) + 1 = j)
    BY <1>14
  <2>4. /\ i - 1 \in 1..n => PartNames(g)[i] = NamesUnder(Entries[g][i-1])
        /\ j - 1 \in 1..n => PartNames(g)[j] = NamesUnder(Entries[g][j-1])
    <3>1. ASSUME NEW k \in 1..n + 2, k - 1 \in 1..n
          PROVE  PartNames(g)[k] = NamesUnder(Entries[g][k-1])
      <4>1. (k - 1) + 1 = k
        BY <1>1
      <4>. QED BY <1>11, <3>1, <4>1
    <3>. QED BY <3>1
  <2>5. <<"setUp", g>> # <<"tearDown", g>> /\ <<"setUp", g>>[2] = g /\ <<"tearDown", g>>[2] = g
    OBVIOUS
  <2>6. CASE i - 1 \in 1..n /\ j - 1 \in 1..n
    <3>1. i - 1 # j - 1
      BY <1>1, <1>16
    <3>. QED BY <2>2, <2>4, <2>6, <3>1
  <2>7. CASE i - 1 \in 1..n /\ ~(j - 1 \in 1..n)
    <3>1. PartNames(g)[j] \subseteq {<<"setUp", g>>, <<"tearDown", g>>}
      BY <1>11, <2>3, <2>7
    <3>. QED BY <2>1, <2>4, <2>5, <2>7, <3>1
  <2>8. CASE ~(i - 1 \in 1..n) /\ j - 1 \in 1..n
    <3>1. PartNames(g)[i] \subseteq {<<"setUp", g>>, <<"tearDown", g>>}
      BY <1>11, <2>3, <2>8
    <3>. QED BY <2>1, <2>4, <2>5, <2>8, <3>1
  <2>9. CASE ~(i - 1 \in 1..n) /\ ~(j - 1 \in 1..n)
    BY <1>11, <1>16, <2>3, <2>5, <2>9
  <2>. QED BY <2>6, <2>7, <2>8, <2>9
<1>17. OwnNames(Parts(g), PartNames(g), n + 2)
  BY <1>15, <1>16 DEF OwnNames
<1>. QED BY <1>12, <1>13, <1>17 DEF n

LEMMA PlanNamed ==
    ASSUME NEW g \in Groups, Planned(g)
    PROVE  NamesAre(PlanOf[g], g)
<1>. DEFINE n == Len(Entries[g])
<1>1. n \in Nat /\ \A i \in 1..n + 2 : i = 1 \/ i = n + 2 \/ (i - 1 \in 1..n /\ (i - 1) + 1 = i)
  BY SuiteAssumption
<1>2. /\ PlanOf[g] \in Seq(Runs) /\ OwnNames(Parts(g), PartNames(g), n + 2)
      /\ \E off : Joins(PlanOf[g], Parts(g), n + 2, off)
  BY PlanJoins
<1>3. PICK off : Joins(PlanOf[g], Parts(g), n + 2, off)
  BY <1>2
<1>4. \A i \in 1..n + 2 : Len(Parts(g)[i]) \in Nat
  BY <1>2 DEF OwnNames
<1>5. \A i \in 1..n + 2 : \A r \in PartNames(g)[i] : r[2] \in Subtree(g)
  <2>1. /\ PartNames(g)[1] = {<<"setUp", g>>} /\ PartNames(g)[n + 2] = {<<"tearDown", g>>}
        /\ \A i \in 1..n : PartNames(g)[i + 1] = NamesUnder(Entries[g][i])
    BY PartNamesAre
  <2>2. g \in Subtree(g) /\ \A k \in 1..n : Subtree(Entries[g][k]) \subseteq Subtree(g)
    BY EntryIsSmaller DEF Subtree
  <2>3. \A i \in 1..n : \A r \in NamesUnder(Entries[g][i]) : r[2] \in Subtree(g)
    BY <2>2 DEF NamesUnder
  <2>. HIDE DEF n
  <2>. QED BY <1>1, <2>1, <2>2, <2>3
<1>6. ASSUME NEW x \in 1..Len(PlanOf[g]) PROVE PlanOf[g][x] \in NamesUnder(g)
  <2>1. InAPart(PlanOf[g], Parts(g), n + 2, off, x)
    <3>1. n + 2 \in Nat
      BY <1>1
    <3>. QED BY <1>3, <1>4, <3>1, PlaceIn
  <2>2. PICK i \in 1..n + 2 : /\ x - off[i-1] \in 1..Len(Parts(g)[i])
                             /\ PlanOf[g][x] = Parts(g)[i][x - off[i-1]]
    BY <2>1 DEF InAPart
  <2>3. PlanOf[g][x] \in PartNames(g)[i]
    BY <1>2, <2>2 DEF OwnNames
  <2>4. PlanOf[g][x] \in Runs
    BY <1>2
  <2>. QED BY <1>5, <2>3, <2>4 DEF NamesUnder
<1>7. ASSUME NEW r \in NamesUnder(g) PROVE \E x \in 1..Len(PlanOf[g]) : PlanOf[g][x] = r
  <2>. SUFFICES \E i \in 1..n + 2 : \E k \in 1..Len(Parts(g)[i]) : Parts(g)[i][k] = r
    <3>1. n + 2 \in Nat
      BY <1>1
    <3>2. PartsThere(PlanOf[g], Parts(g), n + 2)
      BY <1>3, <1>4, <3>1, PartIsThere
    <3>. QED BY <3>2 DEF PartsThere
  <2>1. /\ Parts(g)[1] = Ahead(g) /\ Parts(g)[n + 2] = Behind(g)
        /\ \A i \in 1..n : Parts(g)[i + 1] = EntryPlans(PlanOf, g)[i]
    BY PartsAre
  <2>2. 1 \in 1..n + 2 /\ n + 2 \in 1..n + 2 /\ \A i \in 1..n : i + 1 \in 1..n + 2
    BY <1>1
  <2>3. r \in Runs /\ (r[2] = g \/ \E k \in 1..n : r[2] \in Subtree(Entries[g][k]))
    BY TreeAssumption DEF NamesUnder, Subtree
  <2>4. CASE r[2] = g
    <3>1. \/ r = <<"setUp", g>> /\ g \in SetUpOf
          \/ r = <<"tearDown", g>> /\ g \in TearDownOf
      BY <2>3, <2>4, SuiteAssumption DEF Runs
    <3>2. CASE r = <<"setUp", g>> /\ g \in SetUpOf
      <4>1. Parts(g)[1] = <<r>>
        BY <2>1, <3>2 DEF Ahead
      <4>2. 1 \in 1..Len(Parts(g)[1]) /\ Parts(g)[1][1] = r
        BY <4>1
      <4>. QED BY <2>2, <4>2
    <3>3. CASE r = <<"tearDown", g>> /\ g \in TearDownOf
      <4>1. Parts(g)[n + 2] = <<r>>
        BY <2>1, <3>3 DEF Behind
      <4>2. 1 \in 1..Len(Parts(g)[n + 2]) /\ Parts(g)[n + 2][1] = r
        BY <4>1
      <4>. QED BY <2>2, <4>2
    <3>. QED BY <3>1, <3>2, <3>3
  <2>5. ASSUME NEW k \in 1..n, r[2] \in Subtree(Entries[g][k])
        PROVE  \E i \in 1..n + 2 : \E x \in 1..Len(Parts(g)[i]) : Parts(g)[i][x] = r
    <3>1. r \in NamesUnder(Entries[g][k])
      BY <2>3, <2>5 DEF NamesUnder
    <3>2. \E x \in 1..Len(EntryPlans(PlanOf, g)[k]) : EntryPlans(PlanOf, g)[k][x] = r
      BY <3>1 DEF Planned, NamesAre
    <3>. QED BY <2>1, <2>2, <3>2
  <2>. QED BY <2>3, <2>4, <2>5
<1>. QED BY <1>2, <1>6, <1>7 DEF NamesAre

(* Every group's plan has its names; so the plans of its entries do. *)
LEMMA AllPlanned == \A g \in Groups : NamesAre(PlanOf[g], g) /\ Planned(g)
<1>. DEFINE T == {g \in Groups : ~NamesAre(PlanOf[g], g)}
<1>1. ASSUME NEW g \in Groups, \A k \in 1..Len(Entries[g]) : Entries[g][k] \notin T
      PROVE  Planned(g)
  BY <1>1, EntryPlanned DEF Planned
<1>2. T = {}
  <2>. SUFFICES ASSUME T # {} PROVE FALSE
    OBVIOUS
  <2>1. T \subseteq Groups
    OBVIOUS
  <2>2. PICK g \in T : \A h \in T : ~(Inside(h) \subseteq Inside(g) /\ Inside(h) # Inside(g))
    <3>. HIDE DEF T
    <3>. QED BY <2>1, SmallestGroup
  <2>3. \A k \in 1..Len(Entries[g]) : Entries[g][k] \notin T
    BY <2>2, EntryIsSmaller
  <2>4. Planned(g)
    BY <1>1, <2>3
  <2>. QED BY <2>4, PlanNamed
<1>. QED BY <1>1, <1>2

(* What lies in an earlier part of a group comes first in its plan. *)
LEMMA CallsOrdered ==
    ASSUME NEW g \in Groups, NEW i \in 1..Len(Entries[g]) + 2,
           NEW j \in 1..Len(Entries[g]) + 2, i < j,
           NEW r \in PartNames(g)[i], NEW s \in PartNames(g)[j]
    PROVE  Ordered(PlanOf[g], r, s)
<1>1. /\ OwnNames(Parts(g), PartNames(g), Len(Entries[g]) + 2)
      /\ \E off : Joins(PlanOf[g], Parts(g), Len(Entries[g]) + 2, off)
  BY AllPlanned, PlanJoins
<1>2. Len(Entries[g]) + 2 \in Nat
  BY SuiteAssumption
<1>. QED BY <1>1, <1>2, PartsInOrder

(* What is ordered in the plan of an entry is ordered in the group's. *)
LEMMA OrderedUp ==
    ASSUME NEW g \in Groups, NEW k \in 1..Len(Entries[g]), NEW e \in Groups,
           e = Entries[g][k], NEW r \in NamesUnder(e), NEW s \in NamesUnder(e),
           Ordered(PlanOf[e], r, s)
    PROVE  Ordered(PlanOf[g], r, s)
<1>1. /\ OwnNames(Parts(g), PartNames(g), Len(Entries[g]) + 2)
      /\ \E off : Joins(PlanOf[g], Parts(g), Len(Entries[g]) + 2, off)
  BY AllPlanned, PlanJoins
<1>2. Len(Entries[g]) + 2 \in Nat /\ k + 1 \in 1..Len(Entries[g]) + 2
  BY SuiteAssumption
<1>3. Parts(g)[k + 1] = PlanOf[e] /\ PartNames(g)[k + 1] = NamesUnder(e)
  BY PartsAre, PartNamesAre DEF EntryPlans
<1>4. Ordered(Parts(g)[k + 1], r, s) /\ r \in PartNames(g)[k + 1] /\ s \in PartNames(g)[k + 1]
  BY <1>3
<1>5. PICK off : Joins(PlanOf[g], Parts(g), Len(Entries[g]) + 2, off)
  BY <1>1
<1>. DEFINE m == Len(Entries[g]) + 2
            i == k + 1
<1>6. /\ m \in Nat /\ i \in 1..m /\ Joins(PlanOf[g], Parts(g), m, off)
      /\ OwnNames(Parts(g), PartNames(g), m)
      /\ Ordered(Parts(g)[i], r, s) /\ r \in PartNames(g)[i] /\ s \in PartNames(g)[i]
  BY <1>1, <1>2, <1>4, <1>5
<1>. HIDE DEF m, i
<1>. QED BY <1>6, OrderedInPart

LEMMA OrderedAbove ==
    ASSUME NEW g \in Groups, NEW r \in NamesUnder(g), NEW s \in NamesUnder(g),
           Ordered(PlanOf[g], r, s)
    PROVE  \A h \in Groups : g \in Subtree(h) => Ordered(PlanOf[h], r, s)
<1>. DEFINE T == {h \in Groups : g \in Subtree(h) /\ ~Ordered(PlanOf[h], r, s)}
<1>. SUFFICES ASSUME T # {} PROVE FALSE
  OBVIOUS
<1>1. PICK h \in T : \A e \in T : ~(Inside(e) \subseteq Inside(h) /\ Inside(e) # Inside(h))
  <2>1. T \subseteq Groups
    OBVIOUS
  <2>. HIDE DEF T
  <2>. QED BY <2>1, SmallestGroup
<1>2. h \in Groups /\ g \in Subtree(h) /\ ~Ordered(PlanOf[h], r, s) /\ h # g
  OBVIOUS
<1>3. PICK k \in 1..Len(Entries[h]) : g \in Subtree(Entries[h][k])
  BY <1>2, TreeAssumption DEF Subtree
<1>4. PICK e \in Groups : e = Entries[h][k]
  BY <1>3 DEF Subtree
<1>5. Ordered(PlanOf[e], r, s)
  BY <1>1, <1>2, <1>3, <1>4, EntryIsSmaller
<1>6. Subtree(g) \subseteq Subtree(e)
  BY <1>3, <1>4, BelowIsTransitive DEF Subtree
<1>7. r \in NamesUnder(e) /\ s \in NamesUnder(e)
  BY <1>6 DEF NamesUnder
<1>. QED BY <1>2, <1>4, <1>5, <1>7, OrderedUp

-----------------------------------------------------------------------------
(* r stands before s in the plan of the suite. *)
Before(r, s) == Ordered(PlanOf[Root], r, s)

LEMMA AllInPlan == \A r \in Runs : \E x \in 1..Len(PlanOf[Root]) : PlanOf[Root][x] = r
<1>1. \A r \in Runs : r[2] \in Nodes
  BY SuiteAssumption DEF Runs, Nodes
<1>2. \A r \in Runs : r \in NamesUnder(Root)
  BY <1>1, RootAssumption DEF NamesUnder
<1>. QED BY <1>2, AllPlanned, SuiteAssumption DEF NamesAre

LEMMA InOrder ==
    ASSUME NEW g \in Groups, NEW i \in 1..Len(Entries[g]) + 2,
           NEW j \in 1..Len(Entries[g]) + 2, i < j,
           NEW r \in PartNames(g)[i] \cap NamesUnder(g),
           NEW s \in PartNames(g)[j] \cap NamesUnder(g)
    PROVE  Before(r, s)
<1>1. Ordered(PlanOf[g], r, s)
  BY CallsOrdered
<1>2. g \in Subtree(Root) /\ Root \in Groups
  BY RootHoldsAll, SuiteAssumption
<1>. QED BY <1>1, <1>2, OrderedAbove DEF Before

(* What is still to come stands in the plan after what comes before it on the agenda,
   and after everything that is reported. *)
AgendaInOrder ==
    \A i, j \in 1..Len(agenda) : i < j =>
       \A r \in RunsUnder(agenda[i]), s \in RunsUnder(agenda[j]) : Before(r, s)
CasesBehind ==
    \A k \in 1..Len(cases) : \A i \in 1..Len(agenda) : \A s \in RunsUnder(agenda[i]) :
       Before(cases[k].name, s)
LoadAlone ==
    pc \notin {"complete", "done", "dead"} => \A k \in 1..Len(cases) : cases[k].name # Load
PlanInv == TypeOK /\ Busy /\ ChosenInv /\ AgendaInOrder /\ CasesBehind /\ LoadAlone

LEMMA DropsInOrder ==
    ASSUME agenda \in Seq(Item), agenda' \in Seq(Item), NEW m \in Nat, Drops(m),
           AgendaInOrder
    PROVE  AgendaInOrder'
<1>1. \A i \in 1..Len(agenda') : i + m \in 1..Len(agenda) /\ agenda'[i] = agenda[i + m]
  BY LenProperties DEF Drops
<1>. SUFFICES ASSUME NEW i \in 1..Len(agenda'), NEW j \in 1..Len(agenda'), i < j,
                     NEW r \in RunsUnder(agenda'[i]), NEW s \in RunsUnder(agenda'[j])
              PROVE  Before(r, s)
  BY DEF AgendaInOrder
<1>2. i + m < j + m
  OBVIOUS
<1>. QED BY <1>1, <1>2 DEF AgendaInOrder

LEMMA SamePlanInv ==
    ASSUME PlanInv, TypeOK', Busy', ChosenInv', UNCHANGED <<agenda, cases>>,
           pc' \notin {"complete", "done", "dead"} => pc \notin {"complete", "done", "dead"}
    PROVE  PlanInv'
BY DEF PlanInv, AgendaInOrder, CasesBehind, LoadAlone

(* The calls a visit makes lie in the parts of the group's plan, in their order. *)
Spot(a, c, n, m, i, q) == \/ i \in 1..a /\ q = 1
                          \/ i \in a + 1..a + n /\ q = (i - a) + 1
                          \/ i = m /\ c = 1 /\ q = n + 2
InParts(g, a, c, n, m, i) ==
    \E q \in 1..n + 2 :
       /\ RunsUnder(agenda'[i]) \subseteq PartNames(g)[q] \cap NamesUnder(g)
       /\ Spot(a, c, n, m, i, q)

LEMMA CallInPart ==
    ASSUME NEW a \in {0, 1}, NEW c \in {0, 1}, NEW n \in Nat, NEW m \in Nat,
           NEW g \in Groups, NEW s, VisitedEach(g, s, a, c, n, m), agenda' \in Seq(Item),
           n = Len(Entries[g]), NEW i \in 1..m
    PROVE  InParts(g, a, c, n, m, i)
<1>1. /\ PartNames(g)[1] = {<<"setUp", g>>} /\ PartNames(g)[n + 2] = {<<"tearDown", g>>}
      /\ \A k \in 1..n : PartNames(g)[k + 1] = NamesUnder(Entries[g][k])
  BY PartNamesAre
<1>2. 1 \in 1..n + 2 /\ n + 2 \in 1..n + 2 /\ \A k \in 1..n : k + 1 \in 1..n + 2
  OBVIOUS
<1>3. \/ i \in 1..a /\ agenda'[i] = Call("setUp", g, FALSE) /\ ~s /\ g \in SetUpOf
      \/ /\ i \in a + 1..a + n /\ i - a \in 1..n /\ Entry(i)'
         /\ agenda'[i].node = Entries[g][i - a]
      \/ i = m /\ agenda'[i] = Call("tearDown", g, FALSE) /\ ~s /\ g \in TearDownOf
  BY Zenon DEF VisitedEach
<1>4. CASE i \in 1..a /\ agenda'[i] = Call("setUp", g, FALSE) /\ ~s /\ g \in SetUpOf
  <2>1. RunsUnder(agenda'[i]) = {<<"setUp", g>>}
    BY <1>4 DEF RunsUnder, Call, NameOf
  <2>2. <<"setUp", g>> \in NamesUnder(g)
    BY <1>4 DEF NamesUnder, Runs, Subtree
  <2>3. RunsUnder(agenda'[i]) \subseteq PartNames(g)[1] \cap NamesUnder(g)
    BY <1>1, <2>1, <2>2
  <2>4. Spot(a, c, n, m, i, 1)
    BY <1>4 DEF Spot
  <2>. QED BY <1>2, <2>3, <2>4 DEF InParts
<1>5. CASE /\ i \in a + 1..a + n /\ i - a \in 1..n /\ Entry(i)'
           /\ agenda'[i].node = Entries[g][i - a]
  <2>. DEFINE e == Entries[g][i - a]
  <2>1. i \in 1..Len(agenda') /\ agenda'[i] \in Item
    <3>1. m \leq Len(agenda') /\ Len(agenda') \in Nat
      BY LenProperties DEF VisitedEach
    <3>. QED BY <3>1
  <2>2. RunsUnder(agenda'[i]) \subseteq NamesUnder(e)
    <3>1. CASE agenda'[i].kind = "group"
      BY <1>5, <3>1 DEF RunsUnder, NamesUnder
    <3>2. CASE agenda'[i].kind = "test"
      <4>1. RunsUnder(agenda'[i]) = {<<"test", e>>} /\ e \in Leaves
        BY <1>5, <2>1, <3>2 DEF RunsUnder, NameOf, Item
      <4>2. <<"test", e>> \in NamesUnder(e)
        BY <4>1 DEF NamesUnder, Runs, Subtree
      <4>. QED BY <4>1, <4>2
    <3>. QED BY <1>5, <3>1, <3>2 DEF Entry
  <2>3. NamesUnder(e) \subseteq NamesUnder(g)
    <3>1. Subtree(e) \subseteq Subtree(g)
      BY <1>5, EntryIsSmaller DEF Subtree
    <3>. QED BY <3>1 DEF NamesUnder
  <2>4. (i - a) + 1 \in 1..n + 2 /\ PartNames(g)[(i - a) + 1] = NamesUnder(e)
    BY <1>1, <1>2, <1>5
  <2>. DEFINE q == (i - a) + 1
  <2>. HIDE DEF e
  <2>5. RunsUnder(agenda'[i]) \subseteq PartNames(g)[q] \cap NamesUnder(g)
    BY <2>2, <2>3, <2>4
  <2>6. q \in 1..n + 2 /\ Spot(a, c, n, m, i, q)
    BY <1>5, <2>4 DEF Spot
  <2>. HIDE DEF q
  <2>. QED BY <2>5, <2>6 DEF InParts
<1>6. CASE i = m /\ agenda'[i] = Call("tearDown", g, FALSE) /\ ~s /\ g \in TearDownOf
  <2>1. RunsUnder(agenda'[i]) = {<<"tearDown", g>>}
    BY <1>6 DEF RunsUnder, Call, NameOf
  <2>2. <<"tearDown", g>> \in NamesUnder(g)
    BY <1>6 DEF NamesUnder, Runs, Subtree
  <2>3. c = 1
    <3>1. m # 0
      OBVIOUS
    <3>. QED BY <1>6, <3>1, Zenon DEF VisitedEach
  <2>4. RunsUnder(agenda'[i]) \subseteq PartNames(g)[n + 2] \cap NamesUnder(g)
    BY <1>1, <2>1, <2>2
  <2>5. Spot(a, c, n, m, i, n + 2)
    BY <1>6, <2>3 DEF Spot
  <2>. QED BY <1>2, <2>4, <2>5 DEF InParts
<1>. QED BY <1>3, <1>4, <1>5, <1>6

LEMMA VisitPlan ==
    ASSUME PlanInv, VisitGroup, TypeOK'
    PROVE  AgendaInOrder' /\ CasesBehind'
<1>. DEFINE g == Current.node
            s == Current.skip \/ g \in opts.skip
<1>1. PICK a \in {0, 1}, c \in {0, 1}, n \in Nat, m \in Nat :
         VisitedTo(g, s, a, c, n, m)
  BY VisitParts DEF PlanInv
<1>2. VisitedEach(g, s, a, c, n, m)
  <2>1. agenda' \in Seq(Item)
    BY DEF TypeOK
  <2>. HIDE DEF g, s
  <2>. QED BY <1>1, <2>1, EachVisited
<1>3. /\ Len(agenda) \in Nat /\ 1 \in 1..Len(agenda) /\ g \in Groups /\ n = Len(Entries[g])
      /\ RunsUnder(agenda[1]) = NamesUnder(g) /\ cases' = cases
      /\ agenda' \in Seq(Item) /\ Len(agenda') \in Nat
  <2>1. agenda # <<>> /\ Current.kind = "group" /\ cases' = cases
    BY DEF VisitGroup, AtItem
  <2>2. Current = agenda[1] /\ Len(agenda) \in Nat /\ 1 \in 1..Len(agenda)
    BY <2>1 DEF Current, TypeOK, PlanInv
  <2>3. agenda' \in Seq(Item)
    BY DEF TypeOK
  <2>. QED BY <1>1, <2>1, <2>2, <2>3, LenProperties DEF VisitedTo, RunsUnder, NamesUnder
<1>. HIDE DEF g, s
<1>4. m = 0 \/ m = a + n + c
  BY <1>2 DEF VisitedEach
<1>5. ASSUME NEW i \in 1..m PROVE InParts(g, a, c, n, m, i)
  BY <1>2, <1>3, CallInPart
<1>6. ASSUME NEW i \in 1..m PROVE RunsUnder(agenda'[i]) \subseteq RunsUnder(agenda[1])
  BY <1>3, <1>5 DEF InParts
<1>7. \A i \in m + 1..Len(agenda') :
         i - m + 1 \in 2..Len(agenda) /\ agenda'[i] = agenda[i - m + 1]
  BY <1>2 DEF VisitedEach
<1>8. \A i \in 1..Len(agenda') : i \in 1..m \/ i \in m + 1..Len(agenda')
  BY <1>3
<1>9. AgendaInOrder'
  <2>. SUFFICES ASSUME NEW i \in 1..Len(agenda'), NEW j \in 1..Len(agenda'), i < j,
                       NEW r \in RunsUnder(agenda'[i]), NEW t \in RunsUnder(agenda'[j])
                PROVE  Before(r, t)
    BY DEF AgendaInOrder
  <2>1. CASE i \in 1..m /\ j \in 1..m
    <3>1. PICK p \in 1..n + 2 :
             /\ RunsUnder(agenda'[i]) \subseteq PartNames(g)[p] \cap NamesUnder(g)
             /\ Spot(a, c, n, m, i, p)
      BY <1>5, <2>1 DEF InParts
    <3>2. PICK q \in 1..n + 2 :
             /\ RunsUnder(agenda'[j]) \subseteq PartNames(g)[q] \cap NamesUnder(g)
             /\ Spot(a, c, n, m, j, q)
      BY <1>5, <2>1 DEF InParts
    <3>3. p < q
      BY <1>4, <2>1, <3>1, <3>2 DEF Spot
    <3>4. r \in PartNames(g)[p] \cap NamesUnder(g) /\ t \in PartNames(g)[q] \cap NamesUnder(g)
      BY <3>1, <3>2
    <3>. QED BY <1>3, <3>3, <3>4, InOrder
  <2>2. CASE i \in 1..m /\ j \in m + 1..Len(agenda')
    <3>1. j - m + 1 \in 1..Len(agenda) /\ 1 < j - m + 1 /\ t \in RunsUnder(agenda[j - m + 1])
      BY <1>3, <1>7, <2>2
    <3>2. r \in RunsUnder(agenda[1])
      BY <1>6, <2>2
    <3>. QED BY <1>3, <3>1, <3>2 DEF PlanInv, AgendaInOrder
  <2>3. CASE i \in m + 1..Len(agenda') /\ j \in m + 1..Len(agenda')
    <3>1. /\ i - m + 1 \in 1..Len(agenda) /\ j - m + 1 \in 1..Len(agenda)
          /\ i - m + 1 < j - m + 1
          /\ r \in RunsUnder(agenda[i - m + 1]) /\ t \in RunsUnder(agenda[j - m + 1])
      BY <1>3, <1>7, <2>3
    <3>. QED BY <3>1 DEF PlanInv, AgendaInOrder
  <2>4. ~(i \in m + 1..Len(agenda') /\ j \in 1..m)
    BY <1>3
  <2>. QED BY <1>8, <2>1, <2>2, <2>3, <2>4
<1>10. CasesBehind'
  <2>. SUFFICES ASSUME NEW k \in 1..Len(cases), NEW i \in 1..Len(agenda'),
                       NEW t \in RunsUnder(agenda'[i])
                PROVE  Before(cases[k].name, t)
    BY <1>3 DEF CasesBehind
  <2>1. \E j \in 1..Len(agenda) : t \in RunsUnder(agenda[j])
    <3>1. CASE i \in 1..m
      BY <1>3, <1>6, <3>1
    <3>2. CASE i \in m + 1..Len(agenda')
      <4>1. i - m + 1 \in 1..Len(agenda) /\ t \in RunsUnder(agenda[i - m + 1])
        BY <1>3, <1>7, <3>2
      <4>. QED BY <4>1
    <3>. QED BY <1>8, <3>1, <3>2
  <2>. QED BY <2>1 DEF PlanInv, CasesBehind
<1>. QED BY <1>9, <1>10

(* The core leaves the current call, and may report it. *)
Reports(o) == cases' = Append(cases, [name |-> NameOf(Current), outcome |-> o])

LEMMA ReportsAre ==
    ASSUME TypeOK, NEW o, Reports(o)
    PROVE  /\ Len(cases') = Len(cases) + 1 /\ Len(cases) \in Nat
           /\ \A k \in 1..Len(cases) : cases'[k] = cases[k]
           /\ cases'[Len(cases) + 1].name = NameOf(Current)
<1>1. cases \in Seq(Case)
  BY DEF TypeOK
<1>. DEFINE x == [name |-> NameOf(Current), outcome |-> o]
<1>2. x.name = NameOf(Current)
  OBVIOUS
<1>3. cases' = Append(cases, x)
  BY DEF Reports
<1>. HIDE DEF x
<1>. QED BY <1>1, <1>2, <1>3

LEMMA LeavesInOrder ==
    ASSUME PlanInv, TypeOK', agenda # <<>>, Current.kind # "group", NEW m \in Nat \ {0},
           Drops(m), NEW o, cases' = cases \/ Reports(o)
    PROVE  AgendaInOrder' /\ CasesBehind'
<1>1. /\ Len(agenda) \in Nat /\ 1 \in 1..Len(agenda) /\ Current = agenda[1]
      /\ RunsUnder(agenda[1]) = {NameOf(Current)}
  BY DEF PlanInv, TypeOK, Current, RunsUnder
<1>2. \A i \in 1..Len(agenda') :
         i + m \in 1..Len(agenda) /\ 1 < i + m /\ agenda'[i] = agenda[i + m]
  BY LenProperties DEF Drops, TypeOK, PlanInv
<1>3. AgendaInOrder'
  BY DropsInOrder DEF TypeOK, PlanInv
<1>4. ASSUME NEW k \in 1..Len(cases'), NEW i \in 1..Len(agenda'), NEW s \in RunsUnder(agenda'[i])
      PROVE  Before(cases'[k].name, s)
  <2>1. s \in RunsUnder(agenda[i + m]) /\ i + m \in 1..Len(agenda) /\ 1 < i + m
    BY <1>2
  <2>2. CASE k \in 1..Len(cases) /\ cases'[k] = cases[k]
    BY <2>1, <2>2 DEF PlanInv, CasesBehind
  <2>3. CASE cases'[k].name = NameOf(Current)
    BY <1>1, <2>1, <2>3 DEF PlanInv, AgendaInOrder
  <2>4. CASE Reports(o)
    BY <2>2, <2>3, <2>4, ReportsAre DEF PlanInv
  <2>. QED BY <2>2, <2>4
<1>. QED BY <1>3, <1>4 DEF CasesBehind

(* Every step that leaves a call other than a visited group: it drops the call, and what
   a failed setUpAll drops with it. *)
LeavesCall == PassOver \/ HookSucceeds \/ SkipTest \/ TestEnds \/ HookFails

LEMMA LeavingDrops ==
    ASSUME PlanInv, LeavesCall
    PROVE  /\ agenda # <<>> /\ Current.kind # "group" /\ pc \in {"step", "end"}
           /\ \E m \in Nat \ {0} : Drops(m)
<1>1. /\ agenda # <<>> /\ Current.kind # "group" /\ pc \in {"step", "end"}
  BY DEF LeavesCall, PassOver, HookSucceeds, SkipTest, TestEnds, HookFails, AtCall, AtItem,
         AtEnd, PlanInv, Busy
<1>2. agenda \in Seq(Item)
  BY DEF PlanInv, TypeOK
<1>3. CASE agenda' = Tail(agenda)
  BY <1>1, <1>2, <1>3, TailDrops
<1>4. CASE HookFails /\ Current.kind = "setUp"
  <2>1. Current = agenda[1] /\ 1 \in 1..Len(agenda) /\ Len(agenda) \in Nat /\ Current \in Item
    BY <1>1, <1>2 DEF Current
  <2>. DEFINE n == Len(Entries[Current.node])
  <2>2. n \in Nat
    <3>1. Current.node \in Groups
      BY <1>4, <2>1, SuiteAssumption DEF Item
    <3>. QED BY <3>1, SuiteAssumption
  <2>3. 1 + n \leq Len(agenda)
    BY <1>4, <2>1 DEF PlanInv, ChosenInv, EntriesFollow
  <2>4. agenda' = SubSeq(agenda, 2 + n, Len(agenda))
    BY <1>4 DEF HookFails, AgendaAfterFailure
  <2>. HIDE DEF n
  <2>5. Drops(1 + n) /\ 1 + n \in Nat \ {0}
    BY <1>2, <2>2, <2>3, <2>4, SubSeqDrops
  <2>. QED BY <1>1, <2>5
<1>5. agenda' = Tail(agenda) \/ (HookFails /\ Current.kind = "setUp")
  BY <1>1 DEF LeavesCall, PassOver, HookSucceeds, SkipTest, TestEnds, HookFails,
              AgendaAfterFailure, AgendaAfterTest, AtEnd
<1>. QED BY <1>1, <1>3, <1>4, <1>5

LEMMA LeavingReports ==
    ASSUME PlanInv, LeavesCall
    PROVE  cases' = cases \/ \E o \in Outcomes : Reports(o)
<1>1. CASE PassOver \/ HookSucceeds
  BY <1>1 DEF PassOver, HookSucceeds
<1>2. CASE SkipTest
  <2>1. Reports("skip") /\ "skip" \in Outcomes
    BY <1>2 DEF SkipTest, Finish, Reports, Outcomes
  <2>. QED BY <2>1
<1>3. CASE HookFails
  <2>1. Reports(OutcomeOf(result)) /\ OutcomeOf(result) \in Outcomes
    BY <1>3 DEF HookFails, Finish, Reports, Outcomes, OutcomeOf
  <2>. QED BY <2>1
<1>4. CASE TestEnds
  <2>. DEFINE o == CASE result = "success" -> "pass"
                     [] result = "skipped" -> "skip"
                     [] OTHER              -> OutcomeOf(result)
  <2>1. Reports(o)
    BY <1>4 DEF TestEnds, Finish, Reports
  <2>2. o \in Outcomes
    BY DEF Outcomes, OutcomeOf
  <2>. QED BY <2>1, <2>2
<1>. QED BY <1>1, <1>2, <1>3, <1>4 DEF LeavesCall

(* A reported call takes a position of the plan that is after all that is reported. *)
LEMMA ReportIsNext ==
    ASSUME PlanInv, agenda # <<>>, Current.kind # "group", pc \in {"step", "end"},
           NEW o \in Outcomes, Reports(o)
    PROVE  Log!Next
<1>. DEFINE c == NameOf(Current)
<1>1. /\ Current \in Item /\ Current = agenda[1] /\ 1 \in 1..Len(agenda)
      /\ c \in RunsUnder(agenda[1])
  BY DEF PlanInv, TypeOK, Current, RunsUnder
<1>2. c \in Runs
  BY <1>1, NameOfType
<1>3. PICK i \in 1..Len(PlanOf[Root]) : PlanOf[Root][i] = c
  BY <1>2, AllInPlan
<1>4. Log!Later(i)
  <2>. SUFFICES ASSUME NEW k \in 1..Len(cases), NEW j \in i..Len(PlanOf[Root]),
                       cases[k].name = PlanOf[Root][j]
                PROVE  FALSE
    BY DEF Log!Later
  <2>1. Before(cases[k].name, c)
    BY <1>1 DEF PlanInv, CasesBehind
  <2>2. j \in 1..Len(PlanOf[Root]) /\ ~(j < i)
    OBVIOUS
  <2>. QED BY <1>3, <2>1, <2>2 DEF Before, Ordered
<1>5. cases # << [name |-> Load, outcome |-> "error"] >>
  <2>. SUFFICES ASSUME cases = << [name |-> Load, outcome |-> "error"] >> PROVE FALSE
    OBVIOUS
  <2>1. 1 \in 1..Len(cases) /\ cases[1].name = Load
    OBVIOUS
  <2>. QED BY <2>1 DEF PlanInv, LoadAlone
<1>6. cases' = Append(cases, [name |-> PlanOf[Root][i], outcome |-> o])
  BY <1>3 DEF Reports
<1>7. Log!Report
  BY <1>4, <1>5, <1>6 DEF Log!Report
<1>. QED BY <1>7 DEF Log!Next

LEMMA CoreStepPlan ==
    ASSUME PlanInv, CoreStep
    PROVE  PlanInv' /\ (Log!Next \/ cases' = cases)
<1>1. TypeOK' /\ Busy' /\ ChosenInv'
  BY CoreStepType, CoreStepChosen DEF PlanInv
<1>2. CASE LoadPrint \/ StartRun \/ DrainText \/ DrainState \/ DrainUnknown \/ DrainSpawn
           \/ DrainComplete \/ Dropped \/ AllVisited
  <2>1. /\ UNCHANGED <<agenda, cases>>
        /\ pc' \notin {"complete", "done", "dead"} => pc \notin {"complete", "done", "dead"}
    BY <1>2 DEF LoadPrint, StartRun, DrainText, DrainState, DrainUnknown, DrainSpawn,
                DrainComplete, Dropped, AllVisited, Drains, WriteThen, AtCall, AtItem,
                coreVars
  <2>. QED BY <1>1, <2>1, SamePlanInv
<1>3. CASE LoadFails
  <2>1. /\ cases = <<>> /\ agenda = <<>> /\ agenda' = agenda /\ pc' \in {"complete", "dead"}
        /\ cases' = Append(cases, [name |-> Load, outcome |-> "error"])
    BY <1>3 DEF LoadFails, Finish, WriteThen, PlanInv, ChosenInv
  <2>2. cases' = << [name |-> Load, outcome |-> "error"] >>
    BY <2>1
  <2>3. Log!Next
    BY <2>1, <2>2 DEF Log!Next, Log!FailToLoad
  <2>4. 1..Len(agenda') = {}
    BY <2>1, EmptySeq
  <2>5. AgendaInOrder' /\ CasesBehind' /\ LoadAlone'
    BY <2>1, <2>4 DEF AgendaInOrder, CasesBehind, LoadAlone
  <2>. QED BY <1>1, <2>3, <2>5 DEF PlanInv
<1>4. CASE LoadSucceeds
  <2>1. /\ cases = <<>> /\ cases' = cases
        /\ agenda' = << [kind |-> "group", node |-> Root, skip |-> ~opts.testOn] >>
    BY <1>4 DEF LoadSucceeds, PlanInv, ChosenInv
  <2>2. Len(agenda') = 1 /\ 1..Len(cases') = {}
    BY <2>1, EmptySeq
  <2>3. AgendaInOrder' /\ CasesBehind' /\ LoadAlone'
    BY <2>2 DEF AgendaInOrder, CasesBehind, LoadAlone
  <2>. QED BY <1>1, <2>1, <2>3 DEF PlanInv
<1>5. CASE VisitGroup
  <2>1. cases' = cases /\ pc' = pc
    BY <1>5 DEF VisitGroup
  <2>2. AgendaInOrder' /\ CasesBehind'
    BY <1>1, <1>5, VisitPlan
  <2>. QED BY <1>1, <2>1, <2>2 DEF PlanInv, LoadAlone
<1>6. CASE LeavesCall
  <2>1. PICK m \in Nat \ {0} : Drops(m)
    BY <1>6, LeavingDrops
  <2>2. agenda # <<>> /\ Current.kind # "group" /\ pc \in {"step", "end"}
    BY <1>6, LeavingDrops
  <2>3. PICK o : cases' = cases \/ (o \in Outcomes /\ Reports(o))
    BY <1>6, LeavingReports
  <2>4. AgendaInOrder' /\ CasesBehind'
    BY <1>1, <2>1, <2>2, <2>3, LeavesInOrder
  <2>5. LoadAlone'
    <3>1. \A k \in 1..Len(cases) : cases[k].name # Load
      BY <2>2 DEF PlanInv, LoadAlone
    <3>2. NameOf(Current) # Load
      BY <2>2, LoadName DEF PlanInv, TypeOK, Current
    <3>3. CASE cases' = cases
      BY <3>1, <3>3 DEF LoadAlone
    <3>4. CASE Reports(o)
      <4>1. \A k \in 1..Len(cases') : k \in 1..Len(cases) \/ k = Len(cases) + 1
        BY <3>4, ReportsAre DEF PlanInv
      <4>. QED BY <3>1, <3>2, <3>4, <4>1, ReportsAre DEF PlanInv, LoadAlone
    <3>. QED BY <2>3, <3>3, <3>4
  <2>6. Log!Next \/ cases' = cases
    BY <2>2, <2>3, ReportIsNext
  <2>. QED BY <1>1, <2>4, <2>5, <2>6 DEF PlanInv
<1>. QED BY <1>2, <1>3, <1>4, <1>5, <1>6 DEF CoreStep, LeavesCall

LEMMA NextPlan == PlanInv /\ [Next]_vars => PlanInv' /\ (Log!Next \/ cases' = cases)
<1>. SUFFICES ASSUME PlanInv, [Next]_vars
              PROVE  PlanInv' /\ (Log!Next \/ cases' = cases)
  OBVIOUS
<1>1. TypeOK' /\ Busy' /\ ChosenInv'
  BY NextType, NextChosen DEF PlanInv
<1>2. CASE Listener
  <2>1. UNCHANGED coreVars
    BY <1>2 DEF Listener, DeclarationPrints, SuiteAnswers, RootStrays, BodyChangesState,
           BodySays, BodyCompletes
  <2>2. UNCHANGED <<agenda, cases>> /\ pc' = pc
    BY <2>1 DEF coreVars
  <2>. QED BY <1>1, <2>2, SamePlanInv
<1>3. CASE OnComplete \/ UNCHANGED vars
  <2>1. UNCHANGED <<agenda, cases>> /\ (pc' = pc \/ (pc = "complete" /\ pc' = "done"))
    BY <1>3 DEF OnComplete, vars, coreVars
  <2>. QED BY <1>1, <2>1, SamePlanInv
<1>. QED BY <1>2, <1>3, CoreStepPlan DEF Next

LEMMA InitPlan == Init => PlanInv /\ Log!Init
<1>. SUFFICES ASSUME Init PROVE PlanInv /\ Log!Init
  OBVIOUS
<1>1. cases = <<>> /\ agenda = <<>>
  BY DEF Init
<1>2. 1..Len(cases) = {} /\ 1..Len(agenda) = {}
  BY <1>1, EmptySeq
<1>3. AgendaInOrder /\ CasesBehind /\ LoadAlone
  BY <1>2 DEF AgendaInOrder, CasesBehind, LoadAlone
<1>. QED BY <1>1, <1>3, InitType, InitChosen DEF PlanInv, Log!Init

(* For every suite, filter and shard the report implements the abstract log: it only
   grows, names each position of the suite's plan at most once and in declaration order,
   and a failed load is reported alone. *)
THEOREM InPlanOrderCorrect == Spec => InPlanOrder
<1>1. PlanInv /\ [Next]_vars => [Log!Next]_cases
  BY NextPlan
<1>2. PlanInv /\ [Next]_vars => PlanInv'
  BY NextPlan
<1>. QED BY <1>1, <1>2, InitPlan, PTL DEF Spec, InPlanOrder, Log!Spec
-----------------------------------------------------------------------------
(* The shards of a suite.  The recursion of LeavesIn has a solution, as that of PlanOf
   has, and lists each leaf under a group once.                                       *)

EntryLeaves(f, g) ==
    [i \in 1..Len(Entries[g]) |->
        IF Entries[g][i] \in Groups THEN f[Entries[g][i]] ELSE <<Entries[g][i]>>]
LeavesBy(f, g) == FlattenSeq(EntryLeaves(f, g))

(* f lists the leaves of a group and of all groups under it. *)
ListsUnder(f, g) == \A h \in {g} \cup Inside(g) : f[h] = LeavesBy(f, h)

LEMMA SameLeaves ==
    ASSUME NEW f1, NEW f2, NEW g \in Groups,
           \A k \in 1..Len(Entries[g]) :
              Entries[g][k] \in Groups => f1[Entries[g][k]] = f2[Entries[g][k]]
    PROVE  LeavesBy(f1, g) = LeavesBy(f2, g)
<1>1. EntryLeaves(f1, g) = EntryLeaves(f2, g)
  BY DEF EntryLeaves
<1>. QED BY <1>1 DEF LeavesBy

LEMMA LeavesAreOne ==
    ASSUME NEW g \in Groups, NEW f1, NEW f2, ListsUnder(f1, g), ListsUnder(f2, g)
    PROVE  f1[g] = f2[g]
<1>. DEFINE T == {h \in Groups : ListsUnder(f1, h) /\ ListsUnder(f2, h) /\ f1[h] # f2[h]}
<1>1. ASSUME T # {}
      PROVE  FALSE
  <2>1. T \subseteq Groups
    OBVIOUS
  <2>2. PICK h \in T : \A e \in T : ~(Inside(e) \subseteq Inside(h) /\ Inside(e) # Inside(h))
    <3>. HIDE DEF T
    <3>. QED BY <1>1, <2>1, SmallestGroup
  <2>3. h \in Groups /\ ListsUnder(f1, h) /\ ListsUnder(f2, h) /\ f1[h] # f2[h]
    BY <2>2
  <2>4. ASSUME NEW k \in 1..Len(Entries[h]), Entries[h][k] \in Groups
        PROVE  f1[Entries[h][k]] = f2[Entries[h][k]]
    <3>1. {Entries[h][k]} \cup Inside(Entries[h][k]) \subseteq Inside(h)
      BY <2>3, <2>4, InsideEntry
    <3>2. ListsUnder(f1, Entries[h][k]) /\ ListsUnder(f2, Entries[h][k])
      BY <2>3, <3>1 DEF ListsUnder
    <3>3. Inside(Entries[h][k]) \subseteq Inside(h) /\ Inside(Entries[h][k]) # Inside(h)
      BY <2>3, <2>4, EntryIsSmaller
    <3>4. Entries[h][k] \notin T
      <4>. HIDE DEF T
      <4>. QED BY <2>2, <3>3
    <3>. QED BY <2>4, <3>2, <3>4
  <2>5. LeavesBy(f1, h) = LeavesBy(f2, h)
    BY <2>3, <2>4, SameLeaves
  <2>6. f1[h] = LeavesBy(f1, h) /\ f2[h] = LeavesBy(f2, h)
    BY <2>3 DEF ListsUnder
  <2>. QED BY <2>3, <2>5, <2>6
<1>. QED BY <1>1

(* The leaves of each group, by a function that lists that group's. *)
SomeLeaves(g) == CHOOSE f : ListsUnder(f, g)
TheLeaves == [g \in Groups |-> SomeLeaves(g)[g]]
Listable(g) == \E f : ListsUnder(f, g)

LEMMA LeavesHold ==
    ASSUME NEW h \in Groups, \A e \in {h} \cup Inside(h) : Listable(e)
    PROVE  TheLeaves[h] = LeavesBy(TheLeaves, h)
<1>1. ListsUnder(SomeLeaves(h), h)
  BY Zenon DEF Listable, SomeLeaves
<1>2. SomeLeaves(h)[h] = LeavesBy(SomeLeaves(h), h)
  BY <1>1 DEF ListsUnder
<1>3. ASSUME NEW k \in 1..Len(Entries[h]), Entries[h][k] \in Groups
      PROVE  SomeLeaves(h)[Entries[h][k]] = TheLeaves[Entries[h][k]]
  <2>1. {Entries[h][k]} \cup Inside(Entries[h][k]) \subseteq Inside(h)
    BY <1>3, InsideEntry
  <2>2. ListsUnder(SomeLeaves(h), Entries[h][k])
    BY <1>1, <2>1 DEF ListsUnder
  <2>3. Listable(Entries[h][k])
    BY <2>1
  <2>4. ListsUnder(SomeLeaves(Entries[h][k]), Entries[h][k])
    BY <2>3, Zenon DEF Listable, SomeLeaves
  <2>5. SomeLeaves(h)[Entries[h][k]] = SomeLeaves(Entries[h][k])[Entries[h][k]]
    BY <1>3, <2>2, <2>4, LeavesAreOne
  <2>. QED BY <1>3, <2>5 DEF TheLeaves
<1>4. LeavesBy(SomeLeaves(h), h) = LeavesBy(TheLeaves, h)
  BY <1>3, SameLeaves
<1>. QED BY <1>2, <1>4 DEF TheLeaves

LEMMA AllListable ==
    ASSUME NEW g \in Groups
    PROVE  Listable(g)
<1>. DEFINE T == {h \in Groups : ~Listable(h)}
<1>1. ASSUME T # {}
      PROVE  FALSE
  <2>1. T \subseteq Groups
    OBVIOUS
  <2>2. PICK h \in T : \A e \in T : ~(Inside(e) \subseteq Inside(h) /\ Inside(e) # Inside(h))
    <3>. HIDE DEF T
    <3>. QED BY <1>1, <2>1, SmallestGroup
  <2>3. h \in Groups /\ ~Listable(h) /\ h \notin Inside(h)
    BY <2>2, TreeAssumption DEF Inside
  <2>4. ASSUME NEW e \in Inside(h)
        PROVE  e \in Groups /\ Inside(e) \subseteq Inside(h) /\ Listable(e)
    <3>1. e \in Groups /\ e \in Below[h]
      BY <2>4 DEF Inside
    <3>2. Inside(e) \subseteq Inside(h)
      BY <2>3, <3>1, BelowIsTransitive DEF Inside, Subtree
    <3>3. e \notin Inside(e)
      BY <3>1, TreeAssumption DEF Inside
    <3>4. Inside(e) # Inside(h)
      BY <2>4, <3>3
    <3>5. e \notin T
      <4>. HIDE DEF T
      <4>. QED BY <2>2, <3>2, <3>4
    <3>. QED BY <3>1, <3>2, <3>5
  <2>5. ASSUME NEW e \in Inside(h)
        PROVE  TheLeaves[e] = LeavesBy(TheLeaves, e)
    <3>1. \A d \in {e} \cup Inside(e) : Listable(d)
      BY <2>4
    <3>. QED BY <2>4, <3>1, LeavesHold
  <2>. DEFINE f == [d \in Groups |-> IF d = h THEN LeavesBy(TheLeaves, h) ELSE TheLeaves[d]]
  <2>6. ASSUME NEW e \in {h} \cup Inside(h)
        PROVE  f[e] = LeavesBy(f, e)
    <3>1. e \in Groups /\ Inside(e) \subseteq Inside(h)
      BY <2>3, <2>4
    <3>2. ASSUME NEW k \in 1..Len(Entries[e]), Entries[e][k] \in Groups
          PROVE  TheLeaves[Entries[e][k]] = f[Entries[e][k]]
      <4>1. Entries[e][k] \in Inside(h)
        BY <3>1, <3>2, InsideEntry
      <4>. QED BY <2>3, <3>2, <4>1
    <3>. HIDE DEF f
    <3>3. LeavesBy(TheLeaves, e) = LeavesBy(f, e)
      BY <3>1, <3>2, SameLeaves
    <3>4. f[e] = LeavesBy(TheLeaves, e)
      BY <2>5, <3>1 DEF f, TheLeaves
    <3>. QED BY <3>3, <3>4
  <2>. HIDE DEF f
  <2>7. ListsUnder(f, h)
    BY <2>6 DEF ListsUnder
  <2>. QED BY <2>3, <2>7 DEF Listable
<1>. QED BY <1>1

LEMMA LeavesInIs ==
    ASSUME NEW g \in Groups
    PROVE  LeavesIn[g] = LeavesBy(LeavesIn, g)
<1>. DEFINE Solves(f) == f = [h \in Groups |-> LeavesBy(f, h)]
<1>1. \A h \in Groups : TheLeaves[h] = LeavesBy(TheLeaves, h)
  <2>. TAKE h \in Groups
  <2>1. \A e \in {h} \cup Inside(h) : Listable(e)
    BY AllListable DEF Inside
  <2>. QED BY <2>1, LeavesHold
<1>2. Solves(TheLeaves)
  <2>1. TheLeaves = [h \in Groups |-> TheLeaves[h]]
    BY DEF TheLeaves
  <2>. HIDE DEF TheLeaves
  <2>. QED BY <1>1, <2>1
<1>3. LeavesIn = CHOOSE f : Solves(f)
  BY Zenon DEF LeavesIn, LeavesBy, EntryLeaves
<1>4. Solves(LeavesIn)
  <2>. HIDE DEF Solves
  <2>. QED BY <1>2, <1>3, Zenon
<1>. QED BY <1>4, Zenon

(* s lists the leaves of T, each of them once. *)
ListsOnce(s, T) ==
    /\ s \in Seq(Leaves)
    /\ \A x \in 1..Len(s) : s[x] \in T
    /\ \A t \in T : \E x \in 1..Len(s) : s[x] = t
    /\ \A x, y \in 1..Len(s) : s[x] = s[y] => x = y

LeavesUnder(e) == Leaves \cap Subtree(e)

LEMMA EntryListed ==
    ASSUME NEW g \in Groups, NEW k \in 1..Len(Entries[g]),
           Entries[g][k] \in Groups => ListsOnce(LeavesIn[Entries[g][k]], LeavesUnder(Entries[g][k]))
    PROVE  ListsOnce(EntryLeaves(LeavesIn, g)[k], LeavesUnder(Entries[g][k]))
<1>1. Entries[g][k] \in Nodes
  BY SuiteAssumption
<1>2. CASE Entries[g][k] \in Groups
  BY <1>2 DEF EntryLeaves
<1>3. CASE Entries[g][k] \notin Groups
  <2>. DEFINE t == Entries[g][k]
  <2>1. t \in Leaves /\ LeavesUnder(t) = {t}
    BY <1>1, <1>3 DEF Nodes, Subtree, LeavesUnder
  <2>2. EntryLeaves(LeavesIn, g)[k] = <<t>>
    BY <1>3 DEF EntryLeaves
  <2>. HIDE DEF t
  <2>3. <<t>> \in Seq(Leaves) /\ Len(<<t>>) = 1 /\ <<t>>[1] = t
    BY <2>1
  <2>4. ListsOnce(<<t>>, {t})
    BY <2>3 DEF ListsOnce
  <2>. QED BY <2>1, <2>2, <2>4 DEF t
<1>. QED BY <1>2, <1>3

Listed(g) ==
    \A k \in 1..Len(Entries[g]) :
       ListsOnce(EntryLeaves(LeavesIn, g)[k], LeavesUnder(Entries[g][k]))

(* Parts that list sets with nothing in common list their union, put one after the other. *)
LEMMA JoinedListsOnce ==
    ASSUME NEW m \in Nat, NEW ps \in Seq(Seq(Leaves)), Len(ps) = m,
           NEW names, \A i \in 1..m : ListsOnce(ps[i], names[i]),
           \A i, j \in 1..m : i # j => names[i] \cap names[j] = {}
    PROVE  ListsOnce(FlattenSeq(ps), UNION {names[i] : i \in 1..m})
<1>. DEFINE p == FlattenSeq(ps)
            T == UNION {names[i] : i \in 1..m}
<1>1. p \in Seq(Leaves) /\ \E off : Joins(p, ps, m, off)
  BY FlattenJoins
<1>2. PICK off : Joins(p, ps, m, off)
  BY <1>1
<1>3. /\ \A i \in 1..m : Len(ps[i]) \in Nat
      /\ OwnNames(ps, names, m)
  <2>1. \A i \in 1..m : Len(ps[i]) \in Nat /\ \A k \in 1..Len(ps[i]) : ps[i][k] \in names[i]
    BY LenProperties DEF ListsOnce
  <2>. QED BY <2>1 DEF OwnNames
<1>. HIDE DEF p
<1>4. ASSUME NEW x \in 1..Len(p)
      PROVE  \E i \in 1..m : p[x] \in names[i]
  <2>1. InAPart(p, ps, m, off, x)
    BY <1>2, <1>3, PlaceIn
  <2>. QED BY <1>3, <2>1 DEF InAPart, OwnNames
<1>5. ASSUME NEW t \in T
      PROVE  \E x \in 1..Len(p) : p[x] = t
  <2>1. PICK i \in 1..m : t \in names[i]
    OBVIOUS
  <2>2. PICK k \in 1..Len(ps[i]) : ps[i][k] = t
    BY <2>1 DEF ListsOnce
  <2>3. PartsThere(p, ps, m)
    BY <1>2, <1>3, PartIsThere
  <2>. QED BY <2>2, <2>3 DEF PartsThere
<1>6. ASSUME NEW i \in 1..m, NEW x \in 1..Len(p), p[x] \in names[i]
      PROVE  /\ off[i-1] \in Nat /\ x - off[i-1] \in 1..Len(ps[i])
             /\ p[x] = ps[i][x - off[i-1]]
  <2>1. Joins(p, ps, m, off) /\ OwnNames(ps, names, m) /\ m \in Nat
    BY <1>2, <1>3
  <2>2. /\ off[i-1] \in Nat /\ off[i] \in Nat /\ x - off[i-1] \in 1..Len(ps[i])
        /\ p[x] = ps[i][x - off[i-1]] /\ off[i-1] < x /\ x <= off[i]
    BY <1>6, <2>1, PartOfName, ZenonT(60)
  <2>. QED BY <2>2
<1>7. ASSUME NEW x \in 1..Len(p), NEW y \in 1..Len(p), p[x] = p[y]
      PROVE  x = y
  <2>1. PICK i \in 1..m : p[x] \in names[i] /\ p[y] \in names[i]
    BY <1>4, <1>7
  <2>. DEFINE u == x - off[i-1]
              v == y - off[i-1]
  <2>2. /\ off[i-1] \in Nat /\ u \in 1..Len(ps[i]) /\ v \in 1..Len(ps[i])
        /\ p[x] = ps[i][u] /\ p[y] = ps[i][v]
    BY <1>6, <2>1
  <2>3. u = v
    <3>1. \A a, b \in 1..Len(ps[i]) : ps[i][a] = ps[i][b] => a = b
      BY DEF ListsOnce
    <3>. HIDE DEF u, v
    <3>. QED BY <1>7, <2>2, <3>1
  <2>. QED BY <2>2, <2>3
<1>8. \A x \in 1..Len(p) : p[x] \in T
  BY <1>4
<1>. HIDE DEF T
<1>9. ListsOnce(p, T)
  BY <1>1, <1>5, <1>7, <1>8 DEF ListsOnce
<1>. QED BY <1>9 DEF p, T

LEMMA LeavesListed ==
    ASSUME NEW g \in Groups, Listed(g)
    PROVE  ListsOnce(LeavesIn[g], LeavesUnder(g))
<1>. DEFINE n == Len(Entries[g])
            ps == EntryLeaves(LeavesIn, g)
            names == [i \in 1..n |-> LeavesUnder(Entries[g][i])]
<1>1. n \in Nat
  BY SuiteAssumption
<1>2. \A i \in 1..n : ListsOnce(ps[i], names[i])
  BY DEF Listed
<1>3. ps \in Seq(Seq(Leaves)) /\ Len(ps) = n
  <2>1. \A k \in 1..n : ps[k] \in Seq(Leaves)
    BY <1>2 DEF ListsOnce
  <2>2. ps = [k \in 1..n |-> ps[k]]
    BY DEF EntryLeaves
  <2>. HIDE DEF ps, n
  <2>3. ps \in [1..n -> Seq(Leaves)]
    BY <2>1, <2>2
  <2>. QED BY <1>1, <2>3
<1>4. \A i, j \in 1..n : i # j => names[i] \cap names[j] = {}
  BY TreeAssumption DEF LeavesUnder
<1>5. LeavesUnder(g) = UNION {names[i] : i \in 1..n}
  <2>1. LeavesUnder(g) = Leaves \cap Below[g]
    BY SuiteAssumption DEF LeavesUnder, Subtree
  <2>2. Below[g] = UNION {Subtree(Entries[g][i]) : i \in 1..n}
    BY TreeAssumption
  <2>3. \A i \in 1..n : names[i] = Leaves \cap Subtree(Entries[g][i])
    BY DEF LeavesUnder
  <2>. HIDE DEF n, names
  <2>4. \A t : t \in LeavesUnder(g) <=> t \in Leaves /\ \E i \in 1..n : t \in Subtree(Entries[g][i])
    BY <2>1, <2>2
  <2>. QED BY <2>3, <2>4
<1>. HIDE DEF n, ps, names
<1>6. ListsOnce(FlattenSeq(ps), UNION {names[i] : i \in 1..n})
  BY <1>1, <1>2, <1>3, <1>4, JoinedListsOnce
<1>7. LeavesIn[g] = FlattenSeq(ps)
  BY LeavesInIs DEF LeavesBy, ps
<1>. QED BY <1>5, <1>6, <1>7

LEMMA AllListed == \A g \in Groups : ListsOnce(LeavesIn[g], LeavesUnder(g))
<1>. DEFINE T == {g \in Groups : ~ListsOnce(LeavesIn[g], LeavesUnder(g))}
<1>. SUFFICES ASSUME T # {} PROVE FALSE
  OBVIOUS
<1>1. T \subseteq Groups
  OBVIOUS
<1>2. PICK g \in T : \A h \in T : ~(Inside(h) \subseteq Inside(g) /\ Inside(h) # Inside(g))
  <2>. HIDE DEF T
  <2>. QED BY <1>1, SmallestGroup
<1>3. g \in Groups /\ \A k \in 1..Len(Entries[g]) : Entries[g][k] \notin T
  BY <1>2, EntryIsSmaller
<1>4. Listed(g)
  BY <1>3, EntryListed DEF Listed
<1>. QED BY <1>2, <1>3, <1>4, LeavesListed

(* What a name filter leaves of the suite's leaves. *)
Named(match) == Filtered(LeavesIn[Root], match)

LEMMA NamedOnce ==
    ASSUME NEW match \in SUBSET Leaves
    PROVE  ListsOnce(Named(match), match)
<1>. DEFINE s == LeavesIn[Root]
            r == Named(match)
<1>1. ListsOnce(s, Leaves)
  <2>1. LeavesUnder(Root) = Leaves
    BY RootHoldsAll, SuiteAssumption DEF LeavesUnder, Subtree
  <2>. QED BY <2>1, AllListed, SuiteAssumption
<1>2. s \in Seq(Leaves)
  BY <1>1 DEF ListsOnce
<1>3. r \in Seq(Leaves) /\ Keeps(r, s, match, Len(s))
  BY <1>2, FilteredSelects DEF Named
<1>. HIDE DEF s, r
<1>4. PICK at : KeepsAt(r, s, match, Len(s), at)
  BY <1>3 DEF Keeps
<1>5. /\ at \in [1..Len(r) -> 1..Len(s)]
      /\ \A k, l \in 1..Len(r) : k < l => at[k] < at[l]
      /\ \A k \in 1..Len(r) : r[k] = s[at[k]] /\ r[k] \in match
      /\ \A i \in 1..Len(s) : s[i] \in match => \E k \in 1..Len(r) : at[k] = i
  BY <1>4 DEF KeepsAt
<1>6. ASSUME NEW t \in match
      PROVE  \E k \in 1..Len(r) : r[k] = t
  <2>1. PICK i \in 1..Len(s) : s[i] = t
    BY <1>1 DEF ListsOnce
  <2>2. PICK k \in 1..Len(r) : at[k] = i
    BY <1>5, <2>1
  <2>. QED BY <1>5, <2>1, <2>2
<1>7. ASSUME NEW k \in 1..Len(r), NEW l \in 1..Len(r), r[k] = r[l]
      PROVE  k = l
  <2>1. at[k] \in 1..Len(s) /\ at[l] \in 1..Len(s) /\ s[at[k]] = s[at[l]]
    BY <1>5, <1>7
  <2>2. at[k] = at[l]
    BY <1>1, <2>1 DEF ListsOnce
  <2>3. Len(s) \in Nat /\ Len(r) \in Nat
    BY <1>2, <1>3, LenProperties
  <2>4. ~(at[k] < at[l]) /\ ~(at[l] < at[k])
    BY <2>1, <2>2, <2>3
  <2>5. ~(k < l) /\ ~(l < k)
    BY <1>5, <2>4
  <2>. QED BY <2>3, <2>5
<1>8. ListsOnce(r, match)
  BY <1>3, <1>5, <1>6, <1>7 DEF ListsOnce
<1>. QED BY <1>8 DEF r

(* Where the slices of n leaves begin and end, for count shards. *)
LEMMA QuotientIs ==
    ASSUME NEW a \in Nat, NEW d \in Nat \ {0}
    PROVE  a \div d \in Int /\ d * (a \div d) <= a /\ a < d * (a \div d) + d
OBVIOUS

LEMMA QuotientsGrow ==
    ASSUME NEW a \in Nat, NEW b \in Nat, a <= b, NEW d \in Nat \ {0}
    PROVE  a \div d <= b \div d
BY QuotientIs

LEMMA RoundedIs ==
    ASSUME NEW d \in Nat \ {0}
    PROVE  /\ \A a \in Nat : Rounded(a, d) \in Nat
           /\ \A a, b \in Nat : a <= b => Rounded(a, d) <= Rounded(b, d)
           /\ \A n \in Nat : Rounded(n * d, d) = n
<1>1. 2 * d \in Nat \ {0}
  OBVIOUS
<1>2. ASSUME NEW a \in Nat PROVE Rounded(a, d) \in Nat
  <2>1. 2 * a + d \in Nat
    OBVIOUS
  <2>2. (2 * a + d) \div (2 * d) \in Nat
    BY <1>1, <2>1, QuotientIs
  <2>. QED BY <2>2 DEF Rounded
<1>3. ASSUME NEW a \in Nat, NEW b \in Nat, a <= b PROVE Rounded(a, d) <= Rounded(b, d)
  <2>1. 2 * a + d \in Nat /\ 2 * b + d \in Nat /\ 2 * a + d <= 2 * b + d
    BY <1>3
  <2>. QED BY <1>1, <2>1, QuotientsGrow DEF Rounded
<1>4. ASSUME NEW n \in Nat PROVE Rounded(n * d, d) = n
  <2>. DEFINE q == Rounded(n * d, d)
  <2>1. 2 * (n * d) + d \in Nat /\ n * d \in Nat
    OBVIOUS
  <2>2. q \in Int /\ (2 * d) * q <= 2 * (n * d) + d /\ 2 * (n * d) + d < (2 * d) * q + 2 * d
    BY <1>1, <2>1, QuotientIs DEF Rounded
  <2>. HIDE DEF q
  <2>3. ~(q < n)
    <3>. SUFFICES ASSUME q + 1 <= n PROVE FALSE
      BY <2>2
    <3>1. d * (q + 1) <= d * n
      BY <2>2
    <3>. QED BY <2>2, <3>1
  <2>4. ~(n < q)
    <3>. SUFFICES ASSUME n + 1 <= q PROVE FALSE
      BY <2>2
    <3>1. d * (n + 1) <= d * q
      BY <2>2
    <3>. QED BY <2>2, <3>1
  <2>5. q = n
    BY <2>2, <2>3, <2>4
  <2>. QED BY <2>5 DEF q
<1>. QED BY <1>2, <1>3, <1>4

(* Each place of a list lies in the slice of exactly one shard. *)
InSlice(n, i, count, k) == SliceStart(n, i, count) < k /\ k <= SliceEnd(n, i, count)

LEMMA OneSlice ==
    ASSUME NEW n \in Nat, NEW count \in Nat \ {0}, NEW k \in 1..n
    PROVE  /\ \E i \in 0..count - 1 : InSlice(n, i, count, k)
           /\ \A i, j \in 0..count - 1 :
                 InSlice(n, i, count, k) /\ InSlice(n, j, count, k) => i = j
<1>. DEFINE b(i) == Rounded(n * i, count)
<1>1. /\ \A i \in Nat : b(i) \in Nat
      /\ b(0) = 0 /\ b(count) = n
      /\ \A i, j \in Nat : i <= j => b(i) <= b(j)
  <2>1. \A i \in Nat : n * i \in Nat
    OBVIOUS
  <2>2. \A i, j \in Nat : i <= j => n * i <= n * j
    OBVIOUS
  <2>3. b(0) = 0
    <3>1. n * 0 = 0 * count
      OBVIOUS
    <3>2. Rounded(0 * count, count) = 0
      BY RoundedIs
    <3>. QED BY <3>1, <3>2
  <2>4. b(count) = n
    BY RoundedIs
  <2>5. \A i \in Nat : b(i) \in Nat
    BY <2>1, RoundedIs
  <2>6. ASSUME NEW i \in Nat, NEW j \in Nat, i <= j PROVE b(i) <= b(j)
    <3>1. n * i \in Nat /\ n * j \in Nat /\ n * i <= n * j
      BY <2>1, <2>2, <2>6
    <3>. QED BY <3>1, RoundedIs
  <2>. HIDE DEF b
  <2>. QED BY <2>3, <2>4, <2>5, <2>6
<1>2. \A i \in 0..count - 1 : InSlice(n, i, count, k) <=> b(i) < k /\ k <= b(i + 1)
  BY DEF InSlice, SliceStart, SliceEnd
<1>. HIDE DEF b
<1>3. \E i \in 0..count - 1 : b(i) < k /\ k <= b(i + 1)
  <2>. DEFINE T == {i \in Nat : k <= b(i)}
  <2>1. T \subseteq Nat /\ count \in T
    BY <1>1
  <2>2. PICK i \in T : \A j \in T : i <= j
    <3>. HIDE DEF T
    <3>. QED BY <2>1, LeastNumber
  <2>3. i \in Nat /\ k <= b(i) /\ i <= count /\ i # 0
    BY <1>1, <2>1, <2>2
  <2>4. i - 1 \in Nat /\ ~(i <= i - 1)
    BY <2>3
  <2>5. i - 1 \notin T
    <3>. HIDE DEF T
    <3>. QED BY <2>2, <2>4
  <2>6. b(i - 1) < k /\ (i - 1) + 1 = i /\ i - 1 \in 0..count - 1
    BY <1>1, <2>3, <2>4, <2>5
  <2>. QED BY <2>3, <2>6
<1>4. ASSUME NEW i \in 0..count - 1, NEW j \in 0..count - 1, i < j, k <= b(i + 1), b(j) < k
      PROVE  FALSE
  <2>1. i + 1 \in Nat /\ j \in Nat /\ i + 1 <= j
    BY <1>4
  <2>2. b(i + 1) <= b(j) /\ b(i + 1) \in Nat /\ b(j) \in Nat
    BY <1>1, <2>1
  <2>. QED BY <1>4, <2>2
<1>5. \A i, j \in 0..count - 1 : i < j \/ j < i \/ i = j
  OBVIOUS
<1>. QED BY <1>2, <1>3, <1>4, <1>5

(* A shard has what stands in its slice of the filtered leaves. *)
LEMMA ChosenInSlice ==
    ASSUME NEW match \in SUBSET Leaves, NEW count \in Nat \ {0}, NEW i \in 0..count - 1
    PROVE  ChosenBy(match, <<i, count>>) =
              {t \in match : \E k \in 1..Len(Named(match)) :
                                Named(match)[k] = t /\ InSlice(Len(Named(match)), i, count, k)}
<1>. DEFINE s == Named(match)
            n == Len(s)
            a == SliceStart(n, i, count)
            z == SliceEnd(n, i, count)
            slice == SubSeq(s, a + 1, z)
<1>1. ChosenBy(match, <<i, count>>) = {t \in match : t \in ToSet(slice)}
  BY DEF ChosenBy, Named
<1>2. s \in Seq(Leaves) /\ n \in Nat
  BY NamedOnce, LenProperties DEF ListsOnce
<1>3. a \in Nat /\ z \in Nat /\ a <= z /\ z <= n
  <2>1. n * i \in Nat /\ n * (i + 1) \in Nat /\ n * i <= n * (i + 1)
    BY <1>2
  <2>2. n * (i + 1) <= n * count /\ n * count \in Nat
    <3>1. i + 1 <= count /\ i + 1 \in Nat
      OBVIOUS
    <3>. HIDE DEF n
    <3>. QED BY <1>2, <3>1
  <2>3. Rounded(n * count, count) = n
    BY <1>2, RoundedIs
  <2>. HIDE DEF n
  <2>. QED BY <2>1, <2>2, <2>3, RoundedIs DEF SliceStart, SliceEnd
<1>. HIDE DEF a, z, n, s
<1>4. /\ Len(slice) = z - a
      /\ \A x \in 1..z - a : slice[x] = s[a + x]
  <2>1. /\ a + 1 \in 1..n + 1 /\ z \in (a + 1) - 1..n
    BY <1>2, <1>3
  <2>. QED BY <1>2, <1>3, <2>1 DEF n
<1>5. \A t : t \in ToSet(slice) <=> \E k \in 1..n : s[k] = t /\ InSlice(n, i, count, k)
  <2>1. DOMAIN slice = 1..z - a
    BY <1>2, <1>3, <1>4 DEF n
  <2>. HIDE DEF slice
  <2>2. ASSUME NEW t, t \in ToSet(slice)
        PROVE  \E k \in 1..n : s[k] = t /\ InSlice(n, i, count, k)
    <3>1. PICK x \in 1..z - a : slice[x] = t
      BY <2>1, <2>2 DEF ToSet
    <3>2. a + x \in 1..n /\ a < a + x /\ a + x <= z
      BY <1>2, <1>3
    <3>. QED BY <1>4, <3>1, <3>2 DEF InSlice, a, z
  <2>3. ASSUME NEW t, NEW k \in 1..n, s[k] = t, InSlice(n, i, count, k)
        PROVE  t \in ToSet(slice)
    <3>1. a < k /\ k <= z
      BY <2>3 DEF InSlice, a, z
    <3>2. k - a \in 1..z - a /\ a + (k - a) = k
      BY <1>2, <1>3, <3>1
    <3>3. slice[k - a] = t
      BY <1>4, <2>3, <3>2
    <3>. QED BY <2>1, <3>2, <3>3 DEF ToSet
  <2>. QED BY <2>2, <2>3
<1>. QED BY <1>1, <1>5 DEF s, n

(* For every suite and filter, the shards of a run split the filtered tests: each of
   them is run by exactly one shard, however the rounding of _choose falls.         *)
THEOREM ShardsPartition ==
    ASSUME NEW match \in SUBSET Leaves, NEW count \in Nat \ {0}
    PROVE  /\ UNION {ChosenBy(match, <<i, count>>) : i \in 0..count - 1} = match
           /\ \A i, j \in 0..count - 1 :
                 i # j => ChosenBy(match, <<i, count>>) \cap ChosenBy(match, <<j, count>>) = {}
<1>. DEFINE s == Named(match)
            n == Len(s)
<1>1. ListsOnce(s, match) /\ n \in Nat
  BY NamedOnce, LenProperties DEF ListsOnce
<1>2. \A i \in 0..count - 1 : \A t :
         t \in ChosenBy(match, <<i, count>>) <=>
            t \in match /\ \E k \in 1..n : s[k] = t /\ InSlice(n, i, count, k)
  <2>. TAKE i \in 0..count - 1
  <2>1. ChosenBy(match, <<i, count>>) =
           {t \in match : \E k \in 1..n : s[k] = t /\ InSlice(n, i, count, k)}
    BY ChosenInSlice
  <2>. HIDE DEF s, n
  <2>. QED BY <2>1
<1>. HIDE DEF n, s
<1>3. ASSUME NEW t \in match
      PROVE  \E i \in 0..count - 1 : t \in ChosenBy(match, <<i, count>>)
  <2>1. PICK k \in 1..n : s[k] = t
    BY <1>1 DEF ListsOnce, n
  <2>2. PICK i \in 0..count - 1 : InSlice(n, i, count, k)
    BY <1>1, OneSlice
  <2>. QED BY <1>2, <2>1, <2>2
<1>4. ASSUME NEW i \in 0..count - 1, NEW j \in 0..count - 1, NEW t,
             t \in ChosenBy(match, <<i, count>>), t \in ChosenBy(match, <<j, count>>)
      PROVE  i = j
  <2>1. PICK k \in 1..n : s[k] = t /\ InSlice(n, i, count, k)
    BY <1>2, <1>4
  <2>2. PICK l \in 1..n : s[l] = t /\ InSlice(n, j, count, l)
    BY <1>2, <1>4
  <2>3. k = l
    BY <1>1, <2>1, <2>2 DEF ListsOnce, n
  <2>. QED BY <1>1, <2>1, <2>2, <2>3, OneSlice
<1>5. \A i \in 0..count - 1 : ChosenBy(match, <<i, count>>) \subseteq match
  BY <1>2
<1>6. UNION {ChosenBy(match, <<i, count>>) : i \in 0..count - 1} = match
  BY <1>3, <1>5
<1>7. ASSUME NEW i \in 0..count - 1, NEW j \in 0..count - 1, i # j
      PROVE  ChosenBy(match, <<i, count>>) \cap ChosenBy(match, <<j, count>>) = {}
  BY <1>4, <1>7
<1>. QED BY <1>6, <1>7

-----------------------------------------------------------------------------
(* Nothing runs that was not chosen: the hooks still to run are of groups that hold a
   chosen test, and so is whatever has run.                                          *)

ForChosen(r) == IF r[1] = "test" THEN r[2] \in chosen
                                 ELSE \E t \in chosen : t \in Below[r[2]]
WantedInv ==
    /\ chosen = {} \/ chosen = ChosenBy(opts.match, opts.shard)
    /\ \A i \in 1..Len(agenda) : ~Entry(i) => \E t \in chosen : t \in Below[agenda[i].node]
    /\ \A r \in Runs : body[r] # "idle" \/ Reported(r) => ForChosen(r)

LEMMA WantedIsOnlyChosen == WantedInv => OnlyChosenRuns
BY DEF WantedInv, OnlyChosenRuns, ForChosen

(* The step keeps what is chosen, brings no hook to the agenda but of a group with a
   chosen test, and starts or reports nothing but what is chosen. *)
LEMMA WantedStays ==
    ASSUME WantedInv, UNCHANGED <<opts, chosen>>,
           \A i \in 1..Len(agenda') :
              \/ Entry(i)'
              \/ \E k \in 1..Len(agenda) : agenda'[i] = agenda[k]
              \/ \E t \in chosen : t \in Below[agenda'[i].node],
           \A r \in Runs : (body[r] # "idle" \/ Reported(r))' =>
              body[r] # "idle" \/ Reported(r) \/ ForChosen(r)
    PROVE  WantedInv'
<1>1. chosen' = {} \/ chosen' = ChosenBy(opts'.match, opts'.shard)
  BY DEF WantedInv
<1>2. ASSUME NEW i \in 1..Len(agenda'), ~Entry(i)'
      PROVE  \E t \in chosen : t \in Below[agenda'[i].node]
  <2>1. CASE \E k \in 1..Len(agenda) : agenda'[i] = agenda[k]
    <3>1. PICK k \in 1..Len(agenda) : agenda'[i] = agenda[k]
      BY <2>1
    <3>2. ~Entry(k)
      BY <1>2, <3>1 DEF Entry
    <3>. QED BY <3>1, <3>2 DEF WantedInv
  <2>. QED BY <1>2, <2>1
<1>3. ASSUME NEW r \in Runs, (body[r] # "idle" \/ Reported(r))'
      PROVE  ForChosen(r)'
  <2>1. ForChosen(r)
    BY <1>3 DEF WantedInv
  <2>. QED BY <2>1 DEF ForChosen
<1>. QED BY <1>1, <1>2, <1>3 DEF WantedInv

LEMMA VisitWanted ==
    ASSUME TypeOK, WantedInv, VisitGroup, agenda' \in Seq(Item)
    PROVE  WantedInv'
<1>. DEFINE g == Current.node
            s == Current.skip \/ g \in opts.skip
<1>1. UNCHANGED <<opts, chosen, body, cases>>
  BY DEF VisitGroup, listenVars
<1>2. PICK a \in {0, 1}, c \in {0, 1}, n \in Nat, m \in Nat :
         VisitedTo(g, s, a, c, n, m)
  BY VisitParts
<1>3. VisitedEach(g, s, a, c, n, m)
  <2>. HIDE DEF g, s
  <2>. QED BY <1>2, EachVisited
<1>. DEFINE calls == CallsOf(g, s)
<1>4. agenda' = (IF HasChosen(g, chosen) THEN calls ELSE <<>>) \o Tail(agenda)
      /\ agenda # <<>> /\ agenda \in Seq(Item)
  BY DEF VisitGroup, AtItem, TypeOK
<1>. HIDE DEF calls, s
<1>5. ASSUME NEW i \in 1..Len(agenda')
      PROVE  \/ Entry(i)'
             \/ \E k \in 1..Len(agenda) : agenda'[i] = agenda[k]
             \/ \E t \in chosen : t \in Below[agenda'[i].node]
  <2>1. CASE HasChosen(g, chosen)
    <3>1. Len(agenda') \in Nat /\ (i \in 1..m \/ i \in m + 1..Len(agenda'))
      BY LenProperties
    <3>2. CASE i \in m + 1..Len(agenda')
      <4>1. i - m + 1 \in 2..Len(agenda) /\ agenda'[i] = agenda[i - m + 1]
        BY <1>3, <3>2 DEF VisitedEach
      <4>2. i - m + 1 \in 1..Len(agenda)
        BY <4>1
      <4>. QED BY <4>1, <4>2
    <3>3. CASE i \in 1..m
      <4>1. Entry(i)' \/ agenda'[i].node = g
        BY <1>3, <3>3 DEF VisitedEach, Call
      <4>. QED BY <2>1, <4>1 DEF HasChosen
    <3>. QED BY <3>1, <3>2, <3>3
  <2>2. CASE ~HasChosen(g, chosen)
    <3>1. agenda' = Tail(agenda)
      BY <1>4, <2>2
    <3>2. Drops(1)
      BY <1>4, <3>1, TailDrops
    <3>3. Len(agenda) \in Nat /\ Len(agenda') \in Nat
      BY <1>4, LenProperties
    <3>4. i + 1 \in 1..Len(agenda) /\ agenda'[i] = agenda[i + 1]
      BY <3>2, <3>3 DEF Drops
    <3>. QED BY <3>4
  <2>. QED BY <2>1, <2>2
<1>6. \A r \in Runs : (body[r] # "idle" \/ Reported(r))' => body[r] # "idle" \/ Reported(r)
  BY <1>1 DEF Reported
<1>. QED BY <1>1, <1>5, <1>6, WantedStays

LEMMA CoreStepWanted ==
    ASSUME IInv, ChosenInv, HooksInv, WantedInv, CoreStep
    PROVE  WantedInv'
<1>1. TypeOK /\ TypeOK' /\ Busy /\ Once /\ AtRun
  BY CoreStepType DEF IInv, HooksInv
<1>2. agenda # <<>> =>
         /\ Current = agenda[1] /\ Current \in Item /\ 1 \in 1..Len(agenda)
  BY <1>1 DEF TypeOK, Current
<1>3. ASSUME agenda # <<>>, agenda' = Tail(agenda)
      PROVE  \A i \in 1..Len(agenda') : \E k \in 1..Len(agenda) : agenda'[i] = agenda[k]
  <2>. TAKE i \in 1..Len(agenda')
  <2>1. i + 1 \in 1..Len(agenda) /\ agenda'[i] = agenda[i + 1]
    BY <1>1, <1>3 DEF TypeOK
  <2>. QED BY <2>1
<1>4. CASE LoadPrint \/ DrainText \/ DrainState \/ DrainUnknown \/ DrainSpawn
           \/ DrainComplete \/ Dropped \/ AllVisited
  <2>1. UNCHANGED <<opts, chosen, agenda, cases, body>>
    BY <1>4 DEF LoadPrint, DrainText, DrainState, DrainUnknown, DrainSpawn,
                DrainComplete, Dropped, AllVisited, Drains, coreVars, listenVars
  <2>. QED BY <2>1, WantedStays DEF Reported
<1>5. CASE LoadFails
  <2>1. UNCHANGED <<opts, chosen, agenda, body>> /\ Finish(Load, "error", "complete")
    BY <1>5 DEF LoadFails, listenVars
  <2>2. \A r : Reported(r)' <=> Reported(r) \/ r = Load
    BY <1>1, <2>1, AppendReports
  <2>3. Load \notin Runs
    BY DEF Load, Runs
  <2>. QED BY <2>1, <2>2, <2>3, WantedStays
<1>6. CASE LoadSucceeds
  <2>1. /\ UNCHANGED <<opts, body, cases>> /\ pc = "load"
        /\ chosen' = ChosenBy(opts.match, opts.shard)
        /\ agenda' = << [kind |-> "group", node |-> Root, skip |-> ~opts.testOn] >>
    BY <1>6 DEF LoadSucceeds, listenVars
  <2>2. \A r \in Runs : ~(body[r] # "idle" \/ Reported(r))'
    BY <1>1, <2>1 DEF Once, Untouched, Reported
  <2>3. \A i \in 1..Len(agenda') : Entry(i)'
    BY <2>1 DEF Entry
  <2>. QED BY <2>1, <2>2, <2>3 DEF WantedInv
<1>7. CASE VisitGroup
  BY <1>1, <1>7, VisitWanted DEF TypeOK
<1>8. CASE PassOver \/ HookSucceeds
  <2>1. /\ agenda # <<>> /\ agenda' = Tail(agenda)
        /\ UNCHANGED <<opts, chosen, cases, body>>
    BY <1>1, <1>8 DEF PassOver, HookSucceeds, AtItem, AtEnd, Busy, listenVars
  <2>. QED BY <1>3, <2>1, WantedStays DEF Reported
<1>9. CASE StartRun
  <2>. DEFINE r == NameOf(Current)
  <2>1. /\ UNCHANGED <<opts, chosen, agenda, cases>> /\ agenda # <<>>
        /\ Current.kind \in {"test", "setUp", "tearDown"}
        /\ Current.kind = "test" => Current.node \in chosen
        /\ body' = [body EXCEPT ![r] = "running"]
    BY <1>9 DEF StartRun, AtCall, AtItem
  <2>2. ForChosen(r)
    <3>1. r[1] = Current.kind /\ r[2] = Current.node
      BY DEF NameOf
    <3>2. Current.kind # "test" => \E t \in chosen : t \in Below[Current.node]
      BY <1>2, <2>1 DEF WantedInv, Entry
    <3>. QED BY <2>1, <3>1, <3>2 DEF ForChosen
  <2>. HIDE DEF r
  <2>3. \A q \in Runs : q # r => body'[q] = body[q]
    BY <1>1, <2>1 DEF TypeOK
  <2>. QED BY <2>1, <2>2, <2>3, WantedStays DEF Reported
<1>10. CASE SkipTest \/ TestEnds \/ HookFails
  <2>1. /\ UNCHANGED <<opts, chosen, body>> /\ agenda # <<>>
        /\ \E o, p : Finish(NameOf(Current), o, p)
        /\ ForChosen(NameOf(Current))
    <3>1. CASE SkipTest
      <4>1. Current.kind = "test" /\ Current.node \in chosen /\ agenda # <<>>
        BY <3>1 DEF SkipTest, AtCall, AtItem
      <4>. QED BY <3>1, <4>1 DEF SkipTest, ForChosen, NameOf, listenVars
    <3>2. CASE TestEnds \/ HookFails
      <4>1. /\ UNCHANGED <<opts, chosen, body>> /\ pc = "end"
            /\ \E o, p : Finish(NameOf(Current), o, p)
        BY <3>2 DEF TestEnds, HookFails, AtEnd, listenVars
      <4>2. agenda # <<>> /\ Current.kind # "group"
        BY <1>1, <4>1 DEF Busy
      <4>3. NameOf(Current) \in Runs /\ body[NameOf(Current)] # "idle"
        BY <1>1, <1>2, <4>1, <4>2, NameOfType DEF AtRun
      <4>. QED BY <4>1, <4>2, <4>3 DEF WantedInv
    <3>. QED BY <1>10, <3>1, <3>2
  <2>2. \A r : Reported(r)' => Reported(r) \/ r = NameOf(Current)
    BY <1>1, <2>1, AppendReports
  <2>3. \A i \in 1..Len(agenda') : \E k \in 1..Len(agenda) : agenda'[i] = agenda[k]
    <3>1. CASE agenda' = Tail(agenda)
      BY <1>3, <2>1, <3>1
    <3>2. CASE HookFails /\ Current.kind = "setUp"
      <4>. DEFINE n == Len(Entries[Current.node])
      <4>1. agenda' = SubSeq(agenda, 2 + n, Len(agenda))
        BY <3>2 DEF HookFails, AgendaAfterFailure
      <4>2. n \in Nat
        <5>1. Current.node \in Groups
          BY <1>2, <2>1, <3>2, SuiteAssumption DEF Item
        <5>. QED BY <5>1, SuiteAssumption
      <4>. HIDE DEF n
      <4>3. TAKE i \in 1..Len(agenda')
      <4>4. i + (1 + n) \in 1..Len(agenda) /\ agenda'[i] = agenda[i + (1 + n)]
        BY <1>1, <4>1, <4>2 DEF TypeOK
      <4>. QED BY <4>4
    <3>3. agenda' = Tail(agenda) \/ (HookFails /\ Current.kind = "setUp")
      BY <1>10 DEF SkipTest, TestEnds, HookFails, AgendaAfterFailure, AgendaAfterTest,
                   AtEnd
    <3>. QED BY <3>1, <3>2, <3>3
  <2>. QED BY <2>1, <2>2, <2>3, WantedStays
<1>. QED BY <1>4, <1>5, <1>6, <1>7, <1>8, <1>9, <1>10 DEF CoreStep

LEMMA ListenerWanted ==
    ASSUME IInv, WantedInv, Listener
    PROVE  WantedInv'
<1>1. UNCHANGED <<opts, chosen, agenda, cases>>
  BY DEF Listener, DeclarationPrints, SuiteAnswers, RootStrays, BodyChangesState,
         BodySays, BodyCompletes, coreVars
<1>2. BodiesStay
  BY DEF Listener, DeclarationPrints, SuiteAnswers, RootStrays, BodyChangesState,
         BodySays, BodyCompletes, IInv, TypeOK, BodiesStay
<1>. QED BY <1>1, <1>2, WantedStays DEF Reported, BodiesStay

LEMMA InitWanted == Init => WantedInv
BY DEF Init, WantedInv, Reported

LEMMA NextWanted ==
    IInv /\ ChosenInv /\ HooksInv /\ WantedInv /\ [Next]_vars => WantedInv'
<1>. SUFFICES ASSUME IInv, ChosenInv, HooksInv, WantedInv, [Next]_vars PROVE WantedInv'
  OBVIOUS
<1>1. CASE UNCHANGED vars \/ OnComplete
  <2>1. UNCHANGED <<opts, chosen, agenda, cases, body>>
    BY <1>1 DEF vars, coreVars, listenVars, OnComplete
  <2>. QED BY <2>1, WantedStays DEF Reported
<1>. QED BY <1>1, CoreStepWanted, ListenerWanted DEF Next

LEMMA ShardsAlwaysSplit == TypeOK => ShardsSplit
<1>. SUFFICES ASSUME TypeOK PROVE ShardsSplit
  OBVIOUS
<1>1. opts.match \in SUBSET Leaves /\ opts.shard[1] \in Nat /\ opts.shard[2] \in Nat
      /\ opts.shard[1] < opts.shard[2]
  BY CoreAssumption DEF TypeOK
<1>2. opts.match \in SUBSET Leaves /\ opts.shard[2] \in Nat \ {0}
  BY <1>1
<1>. QED BY <1>2, ShardsPartition DEF ShardsSplit

(* For every suite, filter and shard: when the suite is done each chosen test is accounted
   for; at no time does a test run or is reported that was not chosen, or a hook of a
   group without a chosen test, or anything that is skipped; and the shards of the run
   choose each test the filter leaves exactly once. *)
THEOREM ChosenOnlyCorrect == Spec => []ChosenOnly
<1>1. Init => IInv /\ ChosenInv /\ HooksInv /\ WantedInv
  BY InitInv, InitChosen, InitHooks, InitWanted
<1>2. IInv /\ ChosenInv /\ HooksInv /\ WantedInv /\ [Next]_vars =>
         (IInv /\ ChosenInv /\ HooksInv /\ WantedInv)'
  BY NextInv, NextChosen, NextHooks, NextWanted DEF IInv
<1>3. IInv /\ ChosenInv /\ HooksInv /\ WantedInv => ChosenOnly
  BY ChosenIsAccounted, WantedIsOnlyChosen, ShardsAlwaysSplit
     DEF ChosenOnly, IInv, HooksInv
<1>. QED BY <1>1, <1>2, <1>3, PTL DEF Spec
=============================================================================
