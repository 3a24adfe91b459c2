--------------------------- MODULE ProgressProofs ---------------------------
(****************************************************************************)
(* The index's loop of rounds computes the grounding fixpoint, for any      *)
(* recipe graph and whatever other connections do between two rounds; and   *)
(* what crosses a thread or a wire is what was sent: the NFS record layer   *)
(* and the execution of a recipe, for any number of connections, records,   *)
(* guests, outputs and blocks and every bound on what happens meanwhile.    *)
(****************************************************************************)
EXTENDS MCProgress, GroundingLemmas, FiniteSetTheorems, WellFoundedInduction, TLAPS

----------------------------------------------------------------------------
(* The grounding loop.                                                      *)

\* The loop's variables keep their types, and always/ever bracket the
\* usable recipes while a call runs.
THEOREM LoopTypeOK == Spec => []TypeOK
  <1>1. Init => TypeOK
    BY DEF Init, TypeOK
  <1>2. TypeOK /\ [Next]_vars => TypeOK'
    <2> SUFFICES ASSUME TypeOK, [Next]_vars
                 PROVE  TypeOK'
      OBVIOUS
    <2> USE DEF TypeOK
    <2>1. ASSUME NEW W \in SUBSET Blob, Seed(W)
          PROVE  TypeOK'
      BY <2>1 DEF Seed
    <2>2. CASE Round
      <3>1. Yielded \subseteq Blob
        BY GroundingAssumption DEF Yielded
      <3> QED
        BY <2>2, <3>1 DEF Round
    <2>3. CASE Finish
      BY <2>3 DEF Finish
    <2>4. ASSUME NEW r \in Recipe, Reverify(r)
          PROVE  TypeOK'
      BY <2>4 DEF Reverify
    <2>5. ASSUME NEW b \in Blob, Reside(b)
          PROVE  TypeOK'
      BY <2>5 DEF Reside
    <2>6. CASE UNCHANGED vars
      BY <2>6 DEF vars
    <2> QED
      BY <2>1, <2>2, <2>3, <2>4, <2>5, <2>6 DEF Next
  <1> QED
    BY <1>1, <1>2, PTL DEF Spec

\* The inductive invariant of the loop.
LoopInv ==
    /\ TypeOK
    /\ Sound
    /\ stage # "idle" => seeds \subseteq table
    /\ stage = "done" => Closed(table, always, Out)

\* The invariant holds in every behaviour.
LEMMA LoopInvAlways == Spec => []LoopInv
  <1>1. Init => LoopInv
    BY DEF Init, LoopInv, TypeOK, Sound
  <1>2. LoopInv /\ [Next]_vars => LoopInv'
    <2> SUFFICES ASSUME LoopInv, [Next]_vars, TypeOK'
                 PROVE  LoopInv'
      <3>1. TypeOK /\ [Next]_vars => TypeOK'
        <4> SUFFICES ASSUME TypeOK, [Next]_vars PROVE TypeOK'
          OBVIOUS
        <4> USE DEF TypeOK
        <4>1. Yielded \subseteq Blob
          BY GroundingAssumption DEF Yielded
        <4> QED
          BY <4>1 DEF Next, Seed, Round, Finish, Reverify, Reside, vars
      <3> QED
        BY <3>1 DEF LoopInv
    <2> USE DEF LoopInv, TypeOK
    <2>1. ASSUME NEW W \in SUBSET Blob, Seed(W)
          PROVE  LoopInv'
      BY <2>1, GroundedHoldsLiterals DEF Seed, Sound
    <2>2. CASE Round
      <3>1. table \subseteq Grounded(seeds, ever, Out)
        BY <2>2 DEF Round, Sound
      <3>2. Closed(Grounded(seeds, ever, Out), ever, Out)
        BY GroundedIsClosed, GroundingAssumption
      <3>3. Yielded \subseteq Grounded(seeds, ever, Out)
        BY <2>2, <3>1, <3>2 DEF Yielded, Closed, Round
      <3>4. Sound'
        BY <2>2, <3>1, <3>3 DEF Round, Sound
      <3>5. ASSUME stage' = "done"
            PROVE  Closed(table, always, Out)'
        BY <2>2, <3>5 DEF Round, Closed, Yielded
      <3> QED
        BY <2>2, <3>4, <3>5 DEF Round
    <2>3. CASE Finish
      BY <2>3 DEF Finish, Sound
    <2>4. ASSUME NEW r \in Recipe, Reverify(r)
          PROVE  LoopInv'
      <3>1. Grounded(seeds, ever, Out) \subseteq Grounded(seeds, ever', Out)
        BY <2>4, GroundedIsMonotone DEF Reverify
      <3>2. Sound'
        BY <2>4, <3>1 DEF Reverify, Sound
      <3>3. Closed(table, always, Out) => Closed(table, always, Out)'
        BY <2>4 DEF Reverify, Closed
      <3> QED
        BY <2>4, <3>2, <3>3 DEF Reverify
    <2>5. ASSUME NEW b \in Blob, Reside(b)
          PROVE  LoopInv'
      BY <2>5 DEF Reside, Sound, Closed
    <2>6. CASE UNCHANGED vars
      BY <2>6 DEF vars, Sound, Closed
    <2> QED
      BY <2>1, <2>2, <2>3, <2>4, <2>5, <2>6 DEF Next
  <1> QED
    BY <1>1, <1>2, PTL DEF Spec

\* The loop never grounds a blob that the recipes seen since it began do not
\* ground, for every recipe graph and whatever other connections do to the
\* recipe table between two rounds.
THEOREM LoopIsSound == Spec => []Sound
  <1>1. LoopInv => Sound
    BY DEF LoopInv
  <1> QED
    BY <1>1, LoopInvAlways, PTL

\* Nor does it end before it has grounded all that the recipes it could rely
\* on throughout do ground.
THEOREM LoopIsComplete == Spec => []Complete
  <1>1. ASSUME LoopInv, stage = "done"
        PROVE  Grounded(seeds, always, Out) \subseteq table
    BY <1>1, GroundedIsLeast DEF LoopInv, TypeOK
  <1>2. LoopInv => Complete
    BY <1>1 DEF Complete
  <1> QED
    BY <1>2, LoopInvAlways, PTL

----------------------------------------------------------------------------
(* Sequences.                                                               *)

LEMMA SeqTail ==
    ASSUME NEW T, NEW w \in Seq(T), w # <<>>
    PROVE  /\ Len(w) \in Nat /\ Len(w) > 0 /\ DOMAIN w = 1 .. Len(w)
           /\ Head(w) = w[1] /\ Head(w) \in T
           /\ Tail(w) \in Seq(T) /\ Len(Tail(w)) = Len(w) - 1
           /\ DOMAIN Tail(w) = 1 .. Len(w) - 1
           /\ \A i \in 1 .. Len(w) - 1 : Tail(w)[i] = w[i + 1]
OBVIOUS

LEMMA SeqAppend ==
    ASSUME NEW T, NEW w \in Seq(T), NEW e \in T
    PROVE  /\ Len(w) \in Nat /\ DOMAIN w = 1 .. Len(w) /\ \A i \in 1 .. Len(w) : w[i] \in T
           /\ Append(w, e) \in Seq(T) /\ Append(w, e) # <<>>
           /\ Len(Append(w, e)) = Len(w) + 1 /\ DOMAIN Append(w, e) = 1 .. Len(w) + 1
           /\ \A i \in 1 .. Len(w) : Append(w, e)[i] = w[i]
           /\ Append(w, e)[Len(w) + 1] = e
           /\ Head(Append(w, e)) = IF w = <<>> THEN e ELSE Head(w)
OBVIOUS

\* Two elements at once are two elements, one after the other.
LEMMA SeqAppendTwo ==
    ASSUME NEW T, NEW w \in Seq(T), NEW d \in T, NEW e \in T
    PROVE  w \o <<d, e>> = Append(Append(w, d), e)
OBVIOUS

----------------------------------------------------------------------------
(* The record layer: retransmissions.                                       *)

TaskStates == {"new", "run", "good", "bad", "send", "fail"}
Frame == Xids \X BOOLEAN
Frames == Seq(Frame)
XidSeq == Seq(Xids)

LEMMA FrameParts ==
    /\ \A f \in Frame : f[1] \in Xids /\ f[2] \in BOOLEAN
    /\ \A x \in Xids, b \in BOOLEAN : <<x, b>> \in Frame
    /\ \A x : <<x, TRUE>>[1] = x /\ <<x, TRUE>>[2] /\ <<x, FALSE>>[1] = x /\ ~ <<x, FALSE>>[2]
BY DEF Frame

LEMMA NoneYet == <<>> \in Frames /\ <<>> \in XidSeq
BY DEF Frames, XidSeq

\* A fragment that is not its record's last is followed by the last one.
WireOK(w) ==
    \A i \in DOMAIN w :
        ~ w[i][2] => i + 1 \in DOMAIN w /\ w[i + 1][1] = w[i][1] /\ w[i + 1][2]

\* The first fragment of a record that is half read waits for its second.
PartialOK(c) ==
    \/ partial[c] = <<>>
    \/ wire[c] # <<>> /\ partial[c] = <<Head(wire[c])[1]>> /\ Head(wire[c])[2]

TaskOK(t) == t \in [conn : Conns, xid : Xids, n : {t.n}, st : TaskStates]

RpcType ==
    /\ wire \in [Conns -> Frames]
    /\ partial \in [Conns -> XidSeq]
    /\ chan \in [Conns -> Frames]
    /\ answers \in [Conns -> XidSeq]
    /\ sent \in [Conns -> XidSeq]
    /\ \A t \in tasks : TaskOK(t)
    /\ \A c \in Conns : WireOK(wire[c]) /\ PartialOK(c)

LEMMA RpcTypeInit ==
    ASSUME R!RInit
    PROVE  RpcType
BY NoneYet DEF R!RInit, RpcType, WireOK, PartialOK

LEMMA RpcReadKeepsType ==
    ASSUME RpcType, NEW c \in Conns, R!ReadFragment(c)
    PROVE  RpcType'
<1> DEFINE w == wire[c]
           f == Head(w)
<1>1. w \in Seq(Frame) /\ w # <<>> /\ partial[c] \in Seq(Xids) /\ WireOK(w) /\ PartialOK(c)
  BY DEF RpcType, R!ReadFragment, Frames, XidSeq
<1>2. /\ Len(w) \in Nat /\ Len(w) > 0 /\ DOMAIN w = 1 .. Len(w) /\ f = w[1] /\ f \in Frame
      /\ Tail(w) \in Seq(Frame) /\ Len(Tail(w)) = Len(w) - 1 /\ DOMAIN Tail(w) = 1 .. Len(w) - 1
      /\ \A i \in 1 .. Len(w) - 1 : Tail(w)[i] = w[i + 1]
  BY <1>1, SeqTail
<1>3. f[1] \in Xids /\ f[2] \in BOOLEAN
  BY <1>2, FrameParts
<1>4. wire' = [wire EXCEPT ![c] = Tail(w)]
  BY DEF R!ReadFragment
<1> DEFINE frags == Append(partial[c], f[1])
<1>a. /\ f[2] => /\ partial' = [partial EXCEPT ![c] = <<>>]
                 /\ tasks' = tasks \cup {[conn |-> c, xid |-> Head(frags), n |-> R!Record(c), st |-> "new"]}
      /\ ~ f[2] => partial' = [partial EXCEPT ![c] = frags] /\ tasks' = tasks
      /\ UNCHANGED <<chan, answers, sent>>
  BY DEF R!ReadFragment
<1>b. frags \in Seq(Xids) /\ Head(frags) \in Xids
  BY <1>1, <1>3
<1>d. Tail(w) \in Frames /\ frags \in XidSeq
  BY <1>2, <1>b DEF Frames, XidSeq
<1>c. partial[c] = <<>> => frags = <<f[1]>>
  BY <1>3
<1> HIDE DEF w, f, frags
<1>5. WireOK(Tail(w))
  <2> SUFFICES ASSUME NEW i \in 1 .. Len(w) - 1, ~ Tail(w)[i][2]
               PROVE  i + 1 \in 1 .. Len(w) - 1 /\ Tail(w)[i + 1][1] = Tail(w)[i][1] /\ Tail(w)[i + 1][2]
    BY <1>2 DEF WireOK
  <2>1. i + 1 \in 1 .. Len(w) /\ ~ w[i + 1][2]
    BY <1>2
  <2>2. i + 1 + 1 \in 1 .. Len(w) /\ w[i + 1 + 1][1] = w[i + 1][1] /\ w[i + 1 + 1][2]
    BY <2>1, <1>1, <1>2 DEF WireOK
  <2>3. i + 1 \in 1 .. Len(w) - 1
    BY <2>2, <1>2
  <2> QED
    BY <2>2, <2>3, <1>2
<1>6. CASE f[2]
  <2>1. TaskOK([conn |-> c, xid |-> Head(frags), n |-> R!Record(c), st |-> "new"])
    BY <1>b DEF TaskOK, TaskStates
  <2>2. \A t \in tasks' : TaskOK(t)
    BY <1>6, <1>a, <2>1 DEF RpcType
  <2>3. \A d \in Conns : WireOK(wire'[d]) /\ PartialOK(d)'
    BY <1>4, <1>5, <1>6, <1>a DEF RpcType, PartialOK
  <2> QED
    BY <1>d, <1>4, <1>6, <1>a, <2>2, <2>3, NoneYet DEF RpcType
<1>7. CASE ~ f[2]
  <2>1. partial[c] = <<>>
    BY <1>1, <1>7 DEF PartialOK, w, f
  <2>2. 2 \in 1 .. Len(w) /\ w[2][1] = f[1] /\ w[2][2]
    BY <1>1, <1>2, <1>7 DEF WireOK
  <2>3. Tail(w) # <<>> /\ Head(Tail(w)) = w[2]
    <3>1. Tail(w) # <<>>
      <4>1. 1 \in DOMAIN Tail(w)
        BY <1>2, <2>2
      <4> QED
        BY <4>1
    <3>2. Head(Tail(w)) = Tail(w)[1]
      BY <3>1, <1>2, SeqTail
    <3> QED
      BY <3>1, <3>2, <1>2, <2>2
  <2>4. \A d \in Conns : WireOK(wire'[d]) /\ PartialOK(d)'
    <3>1. PartialOK(c)'
      BY <1>4, <1>7, <1>a, <1>c, <2>1, <2>2, <2>3 DEF RpcType, PartialOK
    <3> QED
      BY <3>1, <1>4, <1>5, <1>7, <1>a DEF RpcType, PartialOK
  <2> QED
    BY <1>d, <1>4, <1>7, <1>a, <2>4 DEF RpcType
<1> QED
  BY <1>3, <1>6, <1>7

LEMMA RpcCallKeepsType ==
    ASSUME RpcType, NEW c \in Conns, NEW x \in Xids, R!Call(c, x)
    PROVE  RpcType'
<1> DEFINE w == wire[c]
           lst == <<x, TRUE>>
           fst == <<x, FALSE>>
           one == Append(w, lst)
           half == Append(w, fst)
           two == Append(half, lst)
<1>1. w \in Seq(Frame) /\ WireOK(w) /\ PartialOK(c)
  BY DEF RpcType, Frames
<1>2. lst \in Frame /\ fst \in Frame /\ lst[1] = x /\ lst[2] /\ fst[1] = x /\ ~ fst[2]
  BY FrameParts
<1>3. w \o <<fst, lst>> = two
  <2> HIDE DEF w, fst, lst
  <2> QED
    BY <1>1, <1>2, SeqAppendTwo
<1>4. /\ wire' = [wire EXCEPT ![c] = one] \/ wire' = [wire EXCEPT ![c] = two]
      /\ UNCHANGED <<partial, tasks, chan, answers>>
      /\ sent' = [sent EXCEPT ![c] = Append(@, x)]
  BY <1>3 DEF R!Call
<1> HIDE DEF lst, fst
<1>5. /\ Len(w) \in Nat /\ DOMAIN w = 1 .. Len(w)
      /\ one \in Seq(Frame) /\ one # <<>> /\ DOMAIN one = 1 .. Len(w) + 1
      /\ \A i \in 1 .. Len(w) : one[i] = w[i]
      /\ one[Len(w) + 1] = lst /\ (w # <<>> => Head(one) = Head(w))
      /\ half \in Seq(Frame) /\ half # <<>> /\ Len(half) = Len(w) + 1
      /\ \A i \in 1 .. Len(w) : half[i] = w[i]
      /\ half[Len(w) + 1] = fst /\ (w # <<>> => Head(half) = Head(w))
  BY <1>1, <1>2, SeqAppend
<1> HIDE DEF half
<1>6. /\ two \in Seq(Frame) /\ two # <<>> /\ DOMAIN two = 1 .. Len(w) + 1 + 1
      /\ \A i \in 1 .. Len(w) + 1 : two[i] = half[i]
      /\ two[Len(w) + 1 + 1] = lst /\ (w # <<>> => Head(two) = Head(w))
  <2>1. /\ two \in Seq(Frame) /\ two # <<>> /\ DOMAIN two = 1 .. Len(half) + 1
        /\ \A i \in 1 .. Len(half) : two[i] = half[i]
        /\ two[Len(half) + 1] = lst /\ Head(two) = Head(half)
    BY <1>2, <1>5, SeqAppend
  <2> HIDE DEF two
  <2> QED
    BY <2>1, <1>5
<1>a. one \in Frames /\ two \in Frames /\ Append(sent[c], x) \in XidSeq
  BY <1>5, <1>6 DEF Frames, XidSeq, RpcType
<1> HIDE DEF one, two, w
<1>7. WireOK(one)
  BY <1>1, <1>2, <1>5 DEF WireOK
<1>8. WireOK(two)
  <2> SUFFICES ASSUME NEW i \in 1 .. Len(w) + 2, ~ two[i][2]
               PROVE  i + 1 \in 1 .. Len(w) + 2 /\ two[i + 1][1] = two[i][1] /\ two[i + 1][2]
    BY <1>5, <1>6 DEF WireOK
  <2>1. CASE i \in 1 .. Len(w)
    <3>1. two[i] = w[i]
      BY <2>1, <1>5, <1>6
    <3>2. i + 1 \in 1 .. Len(w) /\ w[i + 1][1] = w[i][1] /\ w[i + 1][2]
      BY <2>1, <3>1, <1>1, <1>5 DEF WireOK
    <3>3. two[i + 1] = w[i + 1]
      BY <3>2, <1>5, <1>6
    <3> QED
      BY <3>1, <3>2, <3>3, <1>5
  <2>2. CASE i = Len(w) + 1
    BY <2>2, <1>2, <1>5, <1>6
  <2>3. CASE i = Len(w) + 2
    BY <2>3, <1>2, <1>5, <1>6
  <2> QED
    BY <2>1, <2>2, <2>3, <1>5
<1>9. \A d \in Conns : WireOK(wire'[d]) /\ PartialOK(d)'
  <2>1. PartialOK(c)'
    BY <1>1, <1>4, <1>5, <1>6 DEF RpcType, PartialOK, w
  <2> QED
    BY <2>1, <1>4, <1>7, <1>8 DEF RpcType, PartialOK
<1> QED
  BY <1>4, <1>9, <1>a DEF RpcType

LEMMA RpcTypeStep ==
    ASSUME RpcType, [R!RNext]_(R!rvars)
    PROVE  RpcType'
<1>1. CASE UNCHANGED R!rvars
  BY <1>1 DEF R!rvars, RpcType, WireOK, PartialOK
<1>2. ASSUME NEW c \in Conns, R!Reply(c) \/ R!Disconnect(c)
      PROVE  RpcType'
  <2>1. /\ tasks' = tasks /\ sent' = sent
        /\ \/ wire' = wire /\ partial' = partial
           \/ wire' = [wire EXCEPT ![c] = <<>>] /\ partial' = [partial EXCEPT ![c] = <<>>]
    BY <1>2 DEF R!Reply, R!Disconnect, R!Shut
  <2>2. WireOK(<<>>)
    BY DEF WireOK
  <2>3. \A d \in Conns : WireOK(wire'[d]) /\ PartialOK(d)'
    BY <2>1, <2>2 DEF RpcType, PartialOK
  <2>4. /\ \/ chan' = [chan EXCEPT ![c] = <<>>]
           \/ chan[c] # <<>> /\ chan' = [chan EXCEPT ![c] = Tail(chan[c])]
        /\ \/ answers' = answers
           \/ /\ chan[c] # <<>>
              /\ answers' = [answers EXCEPT ![c] = Append(answers[c], Head(chan[c])[1])]
    BY <1>2 DEF R!Reply, R!Disconnect, R!Shut
  <2>5. chan[c] \in Seq(Frame) /\ answers[c] \in Seq(Xids)
    BY DEF RpcType, Frames, XidSeq
  <2>6. chan[c] # <<>> => /\ Tail(chan[c]) \in Frames
                          /\ Append(answers[c], Head(chan[c])[1]) \in XidSeq
    BY <2>5, SeqTail, FrameParts DEF Frames, XidSeq
  <2>7. chan' \in [Conns -> Frames] /\ answers' \in [Conns -> XidSeq]
    BY <2>4, <2>6, NoneYet DEF RpcType
  <2>8. wire' \in [Conns -> Frames] /\ partial' \in [Conns -> XidSeq]
    BY <2>1, NoneYet DEF RpcType
  <2> QED
    BY <2>1, <2>3, <2>7, <2>8 DEF RpcType
<1>3. ASSUME NEW t \in tasks, R!TaskStep(t)
      PROVE  RpcType'
  <2>1. TaskOK(t) /\ t.conn \in Conns /\ t.xid \in Xids
    BY DEF RpcType, TaskOK
  <2>2. /\ UNCHANGED <<wire, partial, answers, sent>>
        /\ \/ tasks' = tasks \ {t}
           \/ \E st \in TaskStates : tasks' = R!Becomes(t, st)
        /\ \/ chan' = chan
           \/ \E ok \in BOOLEAN : chan' = [chan EXCEPT ![t.conn] = Append(@, <<t.xid, ok>>)]
    <3>1. CASE R!Admit(t) \/ R!MarkProcessed(t)
      BY <3>1 DEF R!Admit, R!MarkProcessed, TaskStates
    <3>2. CASE R!Queue(t)
      BY <3>2, Zenon DEF R!Queue
    <3>3. ASSUME NEW ok \in BOOLEAN, R!Misformed(t, ok)
          PROVE  <2>2!:
      BY <3>3, Zenon DEF R!Misformed
    <3>4. ASSUME NEW ok \in BOOLEAN, R!Return(t, ok)
          PROVE  <2>2!:
      BY <3>4 DEF R!Return, TaskStates
    <3> QED
      BY <1>3, <3>1, <3>2, <3>3, <3>4, Zenon DEF R!TaskStep
  <2>3. \A st \in TaskStates : TaskOK([t EXCEPT !.st = st])
    BY <2>1 DEF TaskOK
  <2>4. \A u \in tasks' : TaskOK(u)
    BY <2>2, <2>3 DEF RpcType, R!Becomes
  <2>5. \A ok \in BOOLEAN : Append(chan[t.conn], <<t.xid, ok>>) \in Frames
    BY <2>1, FrameParts DEF RpcType, Frames
  <2>6. chan' \in [Conns -> Frames]
    BY <2>1, <2>2, <2>5 DEF RpcType
  <2> QED
    BY <2>2, <2>4, <2>6 DEF RpcType, WireOK, PartialOK
<1>4. CASE R!Tick
  BY <1>4 DEF R!Tick, RpcType, WireOK, PartialOK
<1> QED
  BY <1>1, <1>2, <1>3, <1>4, RpcReadKeepsType, RpcCallKeepsType DEF R!RNext

\* Every run of a transaction that may still be repeated is in the table: in
\* progress while it runs, and completed no earlier than it ended as long as
\* its retention lasts.
Runs == [conn : Conns, xid : Xids, from : Nat, to : Nat]

Remembered(r) ==
    LET p == <<r.conn, r.xid>> IN
    /\ r.from <= now
    /\ r.to <= now \/ r.to = MaxTime + 1
    /\ r.to > MaxTime => p \in DOMAIN txn /\ txn[p][1] = "InProgress"
    /\ r.to <= now /\ r.to + Retention >= now =>
        p \in DOMAIN txn /\ (txn[p][1] = "InProgress" \/ txn[p][2] >= r.to)

RunInv ==
    /\ now \in 0 .. MaxTime
    /\ ran \in Seq(Runs)
    /\ \A p \in DOMAIN txn : txn[p][2] \in Nat
    /\ \A i \in DOMAIN ran : Remembered(ran[i])
    /\ R!RunOnce

LEMMA RunInvInit ==
    ASSUME R!RInit
    PROVE  RunInv
<1>1. ran = <<>> /\ DOMAIN ran = {} /\ DOMAIN txn = {} /\ now = 0
  BY DEF R!RInit
<1> QED
  BY <1>1, ProgressAssumption DEF RunInv, R!RunOnce

LEMMA RunInvStep ==
    ASSUME RpcType, RunInv, [R!RNext]_(R!rvars)
    PROVE  RunInv'
<1> USE ProgressAssumption
<1>1. /\ ran \in Seq(Runs) /\ Len(ran) \in Nat /\ DOMAIN ran = 1 .. Len(ran)
      /\ \A i \in 1 .. Len(ran) : /\ ran[i] \in Runs
                                  /\ ran[i].from \in Nat /\ ran[i].to \in Nat
                                  /\ ran[i].conn \in Conns /\ ran[i].xid \in Xids
  <2>1. /\ ran \in Seq(Runs) /\ Len(ran) \in Nat /\ DOMAIN ran = 1 .. Len(ran)
        /\ \A i \in 1 .. Len(ran) : ran[i] \in Runs
    BY DEF RunInv
  <2>2. \A r \in Runs : r.from \in Nat /\ r.to \in Nat /\ r.conn \in Conns /\ r.xid \in Xids
    BY DEF Runs
  <2> QED
    BY <2>1, <2>2
<1>2. CASE UNCHANGED <<txn, ran, now>>
  BY <1>2 DEF RunInv, Remembered, R!RunOnce
<1>3. CASE R!Tick
  <2>1. now' = now + 1 /\ now < MaxTime /\ UNCHANGED <<txn, ran>>
    BY <1>3 DEF R!Tick
  <2>2. \A i \in DOMAIN ran : Remembered(ran[i])'
    BY <1>1, <2>1 DEF RunInv, Remembered
  <2> QED
    BY <2>1, <2>2 DEF RunInv, R!RunOnce
<1>4. ASSUME NEW t \in tasks, R!Admit(t)
      PROVE  RunInv'
  <2> DEFINE p == <<t.conn, t.xid>>
             kept == R!Housekept(txn, Retention)
             new == [conn |-> t.conn, xid |-> t.xid, from |-> now, to |-> MaxTime + 1]
  <2>1. t.conn \in Conns /\ t.xid \in Xids
    BY DEF RpcType, TaskOK
  <2>2. /\ DOMAIN kept = {q \in DOMAIN txn : txn[q][1] = "InProgress" \/ txn[q][2] + Retention >= now}
        /\ \A q \in DOMAIN kept : kept[q] = txn[q]
    BY DEF R!Housekept
  <2>3. /\ p \in DOMAIN kept => txn' = kept /\ ran' = ran
        /\ p \notin DOMAIN kept =>
             /\ txn' = [q \in DOMAIN kept \cup {p} |-> IF q = p THEN <<"InProgress", 0>> ELSE kept[q]]
             /\ ran' = Append(ran, new)
        /\ now' = now
    BY <1>4 DEF R!Admit
  <2> HIDE DEF kept
  <2>4. \A q \in DOMAIN kept : q \in DOMAIN txn' /\ txn'[q] = txn[q]
    BY <2>2, <2>3
  <2>5. \A q \in DOMAIN txn' : txn'[q][2] \in Nat
    BY <2>2, <2>3 DEF RunInv
  <2>6. ASSUME NEW r \in Runs, Remembered(r)
        PROVE  Remembered(r)'
    <3> DEFINE q == <<r.conn, r.xid>>
    <3>1. r.to > MaxTime => q \in DOMAIN txn' /\ txn'[q][1] = "InProgress"
      BY <2>2, <2>4, <2>6 DEF Remembered
    <3>2. ASSUME r.to <= now, r.to + Retention >= now
          PROVE  q \in DOMAIN txn' /\ (txn'[q][1] = "InProgress" \/ txn'[q][2] >= r.to)
      <4>1. q \in DOMAIN txn /\ (txn[q][1] = "InProgress" \/ txn[q][2] >= r.to)
        BY <2>6, <3>2 DEF Remembered
      <4>2. txn[q][2] \in Nat /\ r.to \in Nat /\ now \in Nat
        BY <4>1 DEF RunInv, Runs
      <4>3. q \in DOMAIN kept
        BY <4>1, <4>2, <3>2, <2>2
      <4> QED
        BY <4>1, <4>3, <2>4
    <3> QED
      BY <3>1, <3>2, <2>3, <2>6 DEF Remembered
  <2>7. CASE p \in DOMAIN kept
    <3>1. ran' = ran /\ now' = now
      BY <2>3, <2>7
    <3>2. \A i \in DOMAIN ran' : Remembered(ran[i])'
      BY <2>6, <3>1, <1>1 DEF RunInv
    <3> QED
      BY <2>5, <3>1, <3>2 DEF RunInv, R!RunOnce
  <2>8. CASE p \notin DOMAIN kept
    <3>1. new \in Runs
      BY <2>1 DEF Runs, RunInv
    <3>2. /\ ran' \in Seq(Runs) /\ DOMAIN ran' = 1 .. Len(ran) + 1
          /\ \A i \in 1 .. Len(ran) : ran'[i] = ran[i]
          /\ ran'[Len(ran) + 1] = new
      <4>1. ran' = Append(ran, new)
        BY <2>3, <2>8
      <4> HIDE DEF new
      <4> QED
        BY <4>1, <3>1, <1>1, SeqAppend
    <3>3. ASSUME NEW r, r = new
          PROVE  Remembered(r)'
      <4>1. p \in DOMAIN txn' /\ txn'[p] = <<"InProgress", 0>>
        BY <2>3, <2>8
      <4> QED
        BY <3>3, <4>1, <2>3 DEF Remembered, RunInv
    <3>4. ASSUME NEW i \in 1 .. Len(ran), ran[i].conn = t.conn, ran[i].xid = t.xid
          PROVE  now > ran[i].to + Retention
      <4>1. Remembered(ran[i]) /\ now \in Nat /\ \A q \in DOMAIN txn : txn[q][2] \in Nat
        BY <1>1 DEF RunInv
      <4>2. ran[i].to \in Nat
        BY <1>1
      <4>3. p \in DOMAIN txn => /\ txn[p][1] # "InProgress" /\ txn[p][2] \in Nat
                               /\ ~ (txn[p][2] + Retention >= now)
        BY <4>1, <2>2, <2>8
      <4> QED
        BY <4>1, <4>2, <4>3, <3>4 DEF Remembered
    <3>5. R!RunOnce'
      <4> SUFFICES ASSUME NEW i \in DOMAIN ran', NEW j \in DOMAIN ran', i < j,
                          ran'[i].conn = ran'[j].conn, ran'[i].xid = ran'[j].xid
                   PROVE  ran'[j].from > ran'[i].to + Retention
        BY DEF R!RunOnce
      <4>1. i \in 1 .. Len(ran) /\ (j \in 1 .. Len(ran) \/ j = Len(ran) + 1)
        BY <3>2, <1>1
      <4>2. CASE j \in 1 .. Len(ran)
        BY <4>1, <4>2, <3>2, <1>1 DEF RunInv, R!RunOnce
      <4>3. CASE j = Len(ran) + 1
        BY <4>1, <4>3, <3>2, <3>4
      <4> QED
        BY <4>1, <4>2, <4>3
    <3>6. \A i \in DOMAIN ran' : Remembered(ran[i])'
      <4> HIDE DEF new
      <4> SUFFICES ASSUME NEW i \in DOMAIN ran', NEW r, r = ran'[i]
                   PROVE  Remembered(r)'
        OBVIOUS
      <4>1. CASE i \in 1 .. Len(ran)
        BY <4>1, <3>2, <2>6, <1>1 DEF RunInv
      <4>2. CASE i = Len(ran) + 1
        BY <4>2, <3>2, <3>3
      <4> QED
        BY <4>1, <4>2, <3>2, <1>1
    <3> QED
      BY <2>3, <2>5, <3>2, <3>5, <3>6 DEF RunInv
  <2> QED
    BY <2>7, <2>8
<1>5. ASSUME NEW t \in tasks, R!MarkProcessed(t)
      PROVE  RunInv'
  <2> DEFINE p == <<t.conn, t.xid>>
             Closes(i) == ran[i].conn = t.conn /\ ran[i].xid = t.xid /\ ran[i].to > MaxTime
  <2>1. /\ txn' = IF p \in DOMAIN txn THEN [txn EXCEPT ![p] = <<"Completed", now>>] ELSE txn
        /\ ran' = [i \in DOMAIN ran |-> IF Closes(i) THEN [ran[i] EXCEPT !.to = now] ELSE ran[i]]
        /\ now' = now
    BY <1>5 DEF R!MarkProcessed
  <2>2. now \in Nat /\ now <= MaxTime /\ \A q \in DOMAIN txn : txn[q][2] \in Nat
    BY DEF RunInv
  <2>3. \A i \in 1 .. Len(ran) : [ran[i] EXCEPT !.to = now] \in Runs
    BY <1>1, <2>2 DEF Runs
  <2>4. \A i \in 1 .. Len(ran) : ran'[i] \in Runs
    BY <1>1, <2>1, <2>3
  <2>5. ran' \in Seq(Runs) /\ DOMAIN ran' = 1 .. Len(ran)
    <3>1. ran' \in [1 .. Len(ran) -> Runs]
      BY <2>1, <2>4, <1>1
    <3> QED
      BY <3>1, <1>1
  <2>6. \A i \in 1 .. Len(ran) :
          /\ ran'[i].conn = ran[i].conn /\ ran'[i].xid = ran[i].xid /\ ran'[i].from = ran[i].from
          /\ ran'[i].to = IF Closes(i) THEN now ELSE ran[i].to
    BY <2>1, <1>1 DEF Runs
  <2>7. /\ DOMAIN txn' = DOMAIN txn
        /\ \A q \in DOMAIN txn : q # p => txn'[q] = txn[q]
        /\ p \in DOMAIN txn => txn'[p] = <<"Completed", now>>
    BY <2>1
  <2>8. \A q \in DOMAIN txn' : txn'[q][2] \in Nat
    BY <2>2, <2>7
  <2>9. ASSUME NEW i \in 1 .. Len(ran)
        PROVE  Remembered(ran[i])'
    <3> DEFINE q == <<ran[i].conn, ran[i].xid>>
    <3>1. Remembered(ran[i])
      BY <1>1 DEF RunInv
    <3>2. ran[i].to \in Nat /\ ran[i].from <= now /\ (ran[i].to <= now \/ ran[i].to = MaxTime + 1)
      BY <3>1, <1>1 DEF Remembered
    <3>3. CASE q = p
      <4>1. ran[i].conn = t.conn /\ ran[i].xid = t.xid
        BY <3>3
      <4>2. ran'[i].to <= now /\ ran'[i].to \in Nat
        BY <4>1, <3>2, <2>2, <2>6
      <4>3. ran'[i].to + Retention >= now => p \in DOMAIN txn
        BY <3>1, <3>2, <4>1, <2>2, <2>6 DEF Remembered
      <4>4. ran'[i].to + Retention >= now => p \in DOMAIN txn' /\ txn'[p][2] = now
        BY <4>3, <2>7
      <4>5. ran'[i].conn = t.conn /\ ran'[i].xid = t.xid /\ ran'[i].from <= now
        BY <4>1, <3>2, <2>6
      <4>6. ~ (ran'[i].to > MaxTime) /\ now' = now
        BY <4>2, <2>1, <2>2
      <4>7. <<ran'[i].conn, ran'[i].xid>> = p
        BY <4>5
      <4> HIDE DEF p
      <4>8. ran'[i].to + Retention >= now => p \in DOMAIN txn' /\ txn'[p][2] >= ran'[i].to
        BY <4>2, <4>4, <2>2
      <4> QED
        BY <4>2, <4>5, <4>6, <4>7, <4>8 DEF Remembered
    <3>4. CASE q # p
      <4>1. ~ (ran[i].conn = t.conn /\ ran[i].xid = t.xid)
        BY <3>4
      <4>2. ran'[i].to = ran[i].to
        BY <4>1, <2>6
      <4>3. q \in DOMAIN txn => q \in DOMAIN txn' /\ txn'[q] = txn[q]
        BY <3>4, <2>7
      <4> QED
        BY <3>1, <4>2, <4>3, <2>1, <2>6 DEF Remembered
    <3> QED
      BY <3>3, <3>4
  <2>10. R!RunOnce'
    <3> SUFFICES ASSUME NEW i \in 1 .. Len(ran), NEW j \in 1 .. Len(ran), i < j,
                        ran'[i].conn = ran'[j].conn, ran'[i].xid = ran'[j].xid
                 PROVE  ran'[j].from > ran'[i].to + Retention
      BY <2>5 DEF R!RunOnce
    <3>1. ran[j].from > ran[i].to + Retention
      BY <2>6, <1>1 DEF RunInv, R!RunOnce
    <3>2. Remembered(ran[j])
      BY <1>1 DEF RunInv
    <3>3. ran[j].from <= now /\ ran[j].from \in Nat /\ ran[i].to \in Nat
      BY <3>2, <1>1 DEF Remembered
    <3> QED
      BY <3>1, <3>3, <2>2, <2>6
  <2> QED
    BY <2>1, <2>2, <2>5, <2>8, <2>9, <2>10 DEF RunInv
<1> QED
  <2>1. ASSUME NEW c \in Conns, NEW x \in Xids,
               R!ReadFragment(c) \/ R!Reply(c) \/ R!Disconnect(c) \/ R!Call(c, x)
        PROVE  UNCHANGED <<txn, ran, now>>
    BY <2>1 DEF R!ReadFragment, R!Reply, R!Disconnect, R!Call
  <2>2. ASSUME NEW c \in Conns, R!ReadFragment(c) \/ R!Reply(c) \/ R!Disconnect(c)
        PROVE  UNCHANGED <<txn, ran, now>>
    BY <2>2 DEF R!ReadFragment, R!Reply, R!Disconnect
  <2>3. ASSUME NEW t, NEW ok, R!Queue(t) \/ R!Misformed(t, ok) \/ R!Return(t, ok)
        PROVE  UNCHANGED <<txn, ran, now>>
    BY <2>3 DEF R!Queue, R!Misformed, R!Return
  <2>4. UNCHANGED R!rvars => UNCHANGED <<txn, ran, now>>
    BY DEF R!rvars
  <2>5. ASSUME NEW t \in tasks, R!TaskStep(t)
        PROVE  RunInv'
    BY <2>3, <2>5, <1>2, <1>4, <1>5, Zenon DEF R!TaskStep
  <2> QED
    BY <2>1, <2>2, <2>4, <2>5, <1>2, <1>3, Zenon DEF R!RNext

----------------------------------------------------------------------------
(* The record layer: answers.                                               *)

\* How many elements of s are in V; Times counts one value.
CountIn(s, V) == Cardinality({i \in DOMAIN s : s[i] \in V})

LEMMA CountInType ==
    ASSUME NEW T, NEW s \in Seq(T), NEW V
    PROVE  IsFiniteSet({i \in DOMAIN s : s[i] \in V}) /\ CountIn(s, V) \in Nat
<1>1. DOMAIN s = 1 .. Len(s) /\ Len(s) \in Nat
  OBVIOUS
<1>2. IsFiniteSet(1 .. Len(s))
  BY <1>1, FS_Interval
<1>3. IsFiniteSet({i \in DOMAIN s : s[i] \in V})
  BY <1>1, <1>2, FS_Subset
<1> QED
  BY <1>3, FS_CardinalityType DEF CountIn

LEMMA CountInNone ==
    ASSUME NEW V
    PROVE  CountIn(<<>>, V) = 0
<1>1. {i \in DOMAIN <<>> : <<>>[i] \in V} = {}
  OBVIOUS
<1> QED
  BY <1>1, FS_EmptySet DEF CountIn

LEMMA CountInAppend ==
    ASSUME NEW T, NEW s \in Seq(T), NEW e \in T, NEW V
    PROVE  CountIn(Append(s, e), V) = CountIn(s, V) + (IF e \in V THEN 1 ELSE 0)
<1> DEFINE Hits == {i \in DOMAIN s : s[i] \in V}
           A == {i \in DOMAIN Append(s, e) : Append(s, e)[i] \in V}
           n == Len(s) + 1
<1>1. /\ Len(s) \in Nat /\ DOMAIN s = 1 .. Len(s) /\ DOMAIN Append(s, e) = 1 .. Len(s) + 1
      /\ \A i \in 1 .. Len(s) : Append(s, e)[i] = s[i]
      /\ Append(s, e)[Len(s) + 1] = e
  BY SeqAppend
<1>2. A = IF e \in V THEN Hits \cup {n} ELSE Hits
  BY <1>1
<1>3. n \notin Hits /\ IsFiniteSet(Hits) /\ CountIn(s, V) \in Nat
  <2>1. n \notin Hits
    BY <1>1
  <2>2. IsFiniteSet(Hits) /\ CountIn(s, V) \in Nat
    BY CountInType
  <2> QED
    BY <2>1, <2>2
<1>4. Cardinality(Hits \cup {n}) = Cardinality(Hits) + 1
  BY <1>3, FS_AddElement
<1>5. CountIn(s, V) = Cardinality(Hits) /\ CountIn(Append(s, e), V) = Cardinality(A)
  BY DEF CountIn
<1> HIDE DEF Hits, A, n
<1> QED
  BY <1>2, <1>3, <1>4, <1>5

LEMMA CountInTail ==
    ASSUME NEW T, NEW s \in Seq(T), s # <<>>, NEW V
    PROVE  CountIn(s, V) = CountIn(Tail(s), V) + (IF Head(s) \in V THEN 1 ELSE 0)
<1> DEFINE Hits == {i \in DOMAIN s : s[i] \in V}
           A == {i \in DOMAIN Tail(s) : Tail(s)[i] \in V}
           Rest == Hits \ {1}
           f == [i \in A |-> i + 1]
<1>1. /\ Len(s) \in Nat /\ Len(s) > 0 /\ DOMAIN s = 1 .. Len(s) /\ Head(s) = s[1]
      /\ DOMAIN Tail(s) = 1 .. Len(s) - 1 /\ Tail(s) \in Seq(T)
      /\ \A i \in 1 .. Len(s) - 1 : Tail(s)[i] = s[i + 1]
  BY SeqTail
<1>2. f \in Bijection(A, Rest)
  <2>1. \A i \in A : i \in Nat /\ i + 1 \in Rest
    BY <1>1
  <2>2. f \in [A -> Rest]
    BY <2>1
  <2>3. \A i, j \in A : f[i] = f[j] => i = j
    BY <2>1
  <2>4. \A j \in Rest : j - 1 \in A /\ f[j - 1] = j
    <3>1. \A j \in Rest : j \in 2 .. Len(s) /\ s[j] \in V
      BY <1>1
    <3>2. \A j \in Rest : j - 1 \in 1 .. Len(s) - 1 /\ (j - 1) + 1 = j
      BY <3>1, <1>1
    <3>3. \A j \in Rest : j - 1 \in A
      BY <3>1, <3>2, <1>1
    <3> QED
      BY <3>2, <3>3
  <2> HIDE DEF A, Rest, f
  <2> QED
    BY <2>2, <2>3, <2>4 DEF Bijection, Injection, Surjection, IsInjective
<1>3. IsFiniteSet(A) /\ IsFiniteSet(Hits) /\ CountIn(Tail(s), V) \in Nat
  <2>1. IsFiniteSet(Hits)
    BY CountInType
  <2>2. Tail(s) \in Seq(T)
    BY <1>1
  <2>3. IsFiniteSet(A) /\ CountIn(Tail(s), V) \in Nat
    BY <2>2, CountInType
  <2> QED
    BY <2>1, <2>3
<1>4. Cardinality(Rest) = Cardinality(A)
  <2> HIDE DEF A, Rest, f
  <2> QED
    BY <1>2, <1>3, FS_Bijection DEF ExistsBijection
<1>5. Cardinality(Rest) = IF 1 \in Hits THEN Cardinality(Hits) - 1 ELSE Cardinality(Hits)
  BY <1>3, FS_RemoveElement
<1>6. 1 \in Hits <=> Head(s) \in V
  BY <1>1
<1>7. CountIn(s, V) = Cardinality(Hits) /\ CountIn(Tail(s), V) = Cardinality(A) /\ Cardinality(Hits) \in Nat
  BY <1>3, FS_CardinalityType DEF CountIn
<1> HIDE DEF Hits, A, Rest
<1> QED
  BY <1>3, <1>4, <1>5, <1>6, <1>7

\* The last fragments of the records that carry x, and the replies to x.
LastOf(x) == {f \in Frame : f[1] = x /\ f[2]}
TasksOf(c, x) == {t \in tasks : t.conn = c /\ t.xid = x}

\* A record that was sent is on the wire, with a task, in the channel or
\* answered, and only in one of these places at a time.
Accounted(c, x) ==
    CountIn(answers[c], {x}) + CountIn(chan[c], LastOf(x)) + Cardinality(TasksOf(c, x))
        + CountIn(wire[c], LastOf(x)) <= CountIn(sent[c], {x})

AskedInv ==
    /\ IsFiniteSet(tasks)
    /\ \A c \in Conns, x \in Xids : Accounted(c, x)

LEMMA CountsAreNumbers ==
    ASSUME RpcType, IsFiniteSet(tasks), NEW c \in Conns, NEW x
    PROVE  /\ CountIn(answers[c], {x}) \in Nat /\ CountIn(chan[c], LastOf(x)) \in Nat
           /\ IsFiniteSet(TasksOf(c, x)) /\ Cardinality(TasksOf(c, x)) \in Nat
           /\ CountIn(wire[c], LastOf(x)) \in Nat /\ CountIn(sent[c], {x}) \in Nat
<1>1. /\ answers[c] \in Seq(Xids) /\ sent[c] \in Seq(Xids)
      /\ chan[c] \in Seq(Frame) /\ wire[c] \in Seq(Frame)
  BY DEF RpcType, Frames, XidSeq
<1>2. TasksOf(c, x) \subseteq tasks
  BY DEF TasksOf
<1>3. IsFiniteSet(TasksOf(c, x))
  BY <1>2, FS_Subset
<1> QED
  BY <1>1, <1>3, CountInType, FS_CardinalityType

LEMMA AskedInvInit ==
    ASSUME R!RInit
    PROVE  AskedInv
<1>1. tasks = {} /\ \A c \in Conns : wire[c] = <<>> /\ chan[c] = <<>> /\ answers[c] = <<>> /\ sent[c] = <<>>
  BY DEF R!RInit
<1>2. \A c, x : TasksOf(c, x) = {}
  BY <1>1 DEF TasksOf
<1>3. IsFiniteSet(tasks) /\ Cardinality({}) = 0
  BY <1>1, FS_EmptySet
<1>4. ASSUME NEW c \in Conns, NEW x \in Xids
      PROVE  Accounted(c, x)
  <2>1. /\ CountIn(answers[c], {x}) = 0 /\ CountIn(chan[c], LastOf(x)) = 0
        /\ CountIn(wire[c], LastOf(x)) = 0 /\ CountIn(sent[c], {x}) = 0
    BY <1>1, CountInNone
  <2>2. Cardinality(TasksOf(c, x)) = 0
    BY <1>2, <1>3
  <2> QED
    BY <2>1, <2>2 DEF Accounted
<1> QED
  BY <1>3, <1>4 DEF AskedInv

LEMMA AskedReadKeeps ==
    ASSUME RpcType, AskedInv, NEW c \in Conns, R!ReadFragment(c)
    PROVE  AskedInv'
<1> DEFINE w == wire[c]
           f == Head(w)
           h == Head(Append(partial[c], f[1]))
           new == [conn |-> c, xid |-> h, n |-> R!Record(c), st |-> "new"]
<1>1. w \in Seq(Frame) /\ w # <<>> /\ partial[c] \in Seq(Xids) /\ PartialOK(c) /\ IsFiniteSet(tasks)
  BY DEF RpcType, R!ReadFragment, Frames, XidSeq, AskedInv
<1>2. f \in Frame /\ f[1] \in Xids /\ f[2] \in BOOLEAN
  BY <1>1, SeqTail, FrameParts
<1>3. h = f[1]
  <2>1. CASE partial[c] = <<>>
    BY <2>1, <1>2
  <2>2. CASE partial[c] = <<f[1]>>
    BY <2>2, <1>2
  <2> QED
    BY <1>1, <2>1, <2>2 DEF PartialOK
<1>4. /\ wire' = [wire EXCEPT ![c] = Tail(w)] /\ UNCHANGED <<chan, answers, sent>>
      /\ f[2] => tasks' = tasks \cup {new}
      /\ ~ f[2] => tasks' = tasks
  BY DEF R!ReadFragment
<1>5. /\ wire'[c] = Tail(w)
      /\ \A d \in Conns : d # c => wire'[d] = wire[d]
  BY <1>4 DEF RpcType
<1> HIDE DEF w, f, h
<1>6. \A x : CountIn(w, LastOf(x)) = CountIn(Tail(w), LastOf(x)) + (IF f \in LastOf(x) THEN 1 ELSE 0)
  BY <1>1, CountInTail DEF f
<1>7. \A x : f \in LastOf(x) <=> f[1] = x /\ f[2]
  BY <1>2 DEF LastOf
<1>8. IsFiniteSet(tasks')
  BY <1>1, <1>2, <1>4, FS_AddElement
<1>9. ASSUME NEW d \in Conns, NEW x \in Xids
      PROVE  Accounted(d, x)'
  <2>1. RpcType' /\ Accounted(d, x)
    BY RpcReadKeepsType DEF AskedInv
  <2> DEFINE now1 == Cardinality(TasksOf(d, x))
             then1 == Cardinality(TasksOf(d, x)')
  <2>2. /\ CountIn(answers[d], {x}) \in Nat /\ CountIn(chan[d], LastOf(x)) \in Nat
        /\ IsFiniteSet(TasksOf(d, x)) /\ now1 \in Nat
        /\ CountIn(wire[d], LastOf(x)) \in Nat /\ CountIn(sent[d], {x}) \in Nat
    BY <1>1, CountsAreNumbers
  <2>3. CASE d = c /\ f[2] /\ x = f[1]
    <3>1. TasksOf(d, x)' = TasksOf(d, x) \cup {new}
      BY <1>3, <1>4, <2>3 DEF TasksOf
    <3>2. then1 <= now1 + 1 /\ then1 \in Nat
      <4> HIDE DEF new
      <4>1. Cardinality(TasksOf(d, x) \cup {new}) = IF new \in TasksOf(d, x) THEN now1 ELSE now1 + 1
        BY <2>2, FS_AddElement
      <4> QED
        BY <3>1, <4>1, <2>2
    <3>3. CountIn(wire[d], LastOf(x)) = CountIn(Tail(w), LastOf(x)) + 1
      BY <2>3, <1>6, <1>7 DEF w
    <3>4. CountIn(Tail(w), LastOf(x)) \in Nat
      BY <1>1, SeqTail, CountInType
    <3> HIDE DEF now1, then1
    <3>5. /\ answers' = answers /\ chan' = chan /\ sent' = sent /\ wire'[d] = Tail(w)
      BY <1>4, <1>5, <2>3
    <3>6. CountIn(answers[d], {x}) + CountIn(chan[d], LastOf(x)) + then1
            + CountIn(Tail(w), LastOf(x)) <= CountIn(sent[d], {x})
      BY <2>1, <2>2, <3>2, <3>3, <3>4 DEF Accounted, now1
    <3> QED
      BY <3>5, <3>6 DEF Accounted, then1
  <2>4. CASE ~ (d = c /\ f[2] /\ x = f[1])
    <3>1. TasksOf(d, x)' = TasksOf(d, x)
      BY <1>2, <1>3, <1>4, <2>4 DEF TasksOf
    <3>2. CountIn(wire'[d], LastOf(x)) = CountIn(wire[d], LastOf(x))
      <4>1. CASE d # c
        BY <4>1, <1>5
      <4>2. CASE d = c
        <5>1. f \notin LastOf(x)
          BY <4>2, <2>4, <1>7
        <5>2. CountIn(Tail(w), LastOf(x)) \in Nat
          BY <1>1, SeqTail, CountInType
        <5> QED
          BY <4>2, <5>1, <5>2, <1>5, <1>6 DEF w
      <4> QED
        BY <4>1, <4>2
    <3> QED
      BY <1>4, <2>1, <3>1, <3>2 DEF Accounted
  <2> QED
    BY <2>3, <2>4
<1> QED
  BY <1>8, <1>9 DEF AskedInv

LEMMA AskedTaskKeeps ==
    ASSUME RpcType, AskedInv, NEW t \in tasks, R!TaskStep(t)
    PROVE  AskedInv'
<1>1. t.conn \in Conns /\ t.xid \in Xids /\ TaskOK(t) /\ IsFiniteSet(tasks)
  BY DEF RpcType, TaskOK, AskedInv
<1> DEFINE Later == tasks' = tasks \ {t} \/ \E st \in TaskStates : tasks' = R!Becomes(t, st)
           Queued(ok) == chan' = [chan EXCEPT ![t.conn] = Append(@, <<t.xid, ok>>)]
<1>2. /\ UNCHANGED <<wire, answers, sent>>
      /\ \/ chan' = chan /\ Later
         \/ tasks' = tasks \ {t} /\ \E ok \in BOOLEAN : Queued(ok)
  <2>1. CASE R!Admit(t) \/ R!MarkProcessed(t)
    BY <2>1 DEF R!Admit, R!MarkProcessed, TaskStates
  <2>2. CASE R!Queue(t)
    BY <2>2, Zenon DEF R!Queue
  <2>3. ASSUME NEW ok \in BOOLEAN, R!Misformed(t, ok)
        PROVE  <1>2!:
    BY <2>3, Zenon DEF R!Misformed
  <2>4. ASSUME NEW ok \in BOOLEAN, R!Return(t, ok)
        PROVE  <1>2!:
    BY <2>4 DEF R!Return, TaskStates
  <2> QED
    BY <2>1, <2>2, <2>3, <2>4, Zenon DEF R!TaskStep
<1>3. IsFiniteSet(tasks')
  <2>1. IsFiniteSet(tasks \ {t})
    BY <1>1, FS_RemoveElement
  <2>2. \A u : IsFiniteSet((tasks \ {t}) \cup {u})
    BY <2>1, FS_AddElement
  <2> QED
    BY <1>2, <2>1, <2>2 DEF R!Becomes
<1>4. ASSUME NEW d \in Conns, NEW x \in Xids
      PROVE  Accounted(d, x)'
  <2> DEFINE Own == TasksOf(d, x)
             mine == t.conn = d /\ t.xid = x
  <2>1. Accounted(d, x)
    BY DEF AskedInv
  <2>2. /\ CountIn(answers[d], {x}) \in Nat /\ CountIn(chan[d], LastOf(x)) \in Nat
        /\ IsFiniteSet(Own) /\ Cardinality(Own) \in Nat
        /\ CountIn(wire[d], LastOf(x)) \in Nat /\ CountIn(sent[d], {x}) \in Nat
    BY <1>1, CountsAreNumbers
  <2>3. t \in Own <=> mine
    BY DEF TasksOf
  <2>4. tasks' = tasks \ {t} => Own' = Own \ {t}
    BY DEF TasksOf
  <2>5. ASSUME NEW st \in TaskStates, tasks' = R!Becomes(t, st)
        PROVE  Own' = IF mine THEN (Own \ {t}) \cup {[t EXCEPT !.st = st]} ELSE Own \ {t}
    <3>1. [t EXCEPT !.st = st].conn = t.conn /\ [t EXCEPT !.st = st].xid = t.xid
      BY <1>1 DEF TaskOK
    <3> QED
      BY <2>5, <3>1 DEF TasksOf, R!Becomes
  <2> HIDE DEF Own
  <2>6. /\ IsFiniteSet(Own \ {t})
        /\ Cardinality(Own \ {t}) = IF mine THEN Cardinality(Own) - 1 ELSE Cardinality(Own)
    BY <2>2, <2>3, FS_RemoveElement
  <2>7. Cardinality(Own \ {t}) \in Nat
    BY <2>6, FS_CardinalityType
  <2>8. CASE chan' = chan /\ Later
    <3>1. Cardinality(Own') \in Nat /\ Cardinality(Own') <= Cardinality(Own)
      <4>1. CASE tasks' = tasks \ {t}
        BY <4>1, <2>2, <2>4, <2>6, <2>7
      <4>2. ASSUME NEW st \in TaskStates, tasks' = R!Becomes(t, st)
            PROVE  <3>1!:
        <5> DEFINE u == [t EXCEPT !.st = st]
        <5> HIDE DEF u
        <5>1. Cardinality((Own \ {t}) \cup {u}) =
                IF u \in Own \ {t} THEN Cardinality(Own \ {t}) ELSE Cardinality(Own \ {t}) + 1
          BY <2>6, FS_AddElement
        <5>2. Own' = IF mine THEN (Own \ {t}) \cup {u} ELSE Own \ {t}
          BY <2>5, <4>2 DEF u
        <5> QED
          BY <5>1, <5>2, <2>2, <2>6, <2>7
      <4> QED
        BY <2>8, <4>1, <4>2
    <3>2. answers' = answers /\ chan' = chan /\ sent' = sent /\ wire' = wire
      BY <1>2, <2>8
    <3>3. CountIn(answers[d], {x}) + CountIn(chan[d], LastOf(x)) + Cardinality(Own')
            + CountIn(wire[d], LastOf(x)) <= CountIn(sent[d], {x})
      BY <2>1, <2>2, <3>1 DEF Accounted, Own
    <3> QED
      BY <3>2, <3>3 DEF Accounted, Own
  <2>9. ASSUME tasks' = tasks \ {t}, NEW ok \in BOOLEAN, Queued(ok)
        PROVE  Accounted(d, x)'
    <3> DEFINE r == <<t.xid, ok>>
               more == IF r \in LastOf(x) THEN 1 ELSE 0
    <3>1. r \in Frame
      BY <1>1, FrameParts
    <3>2. r \in LastOf(x) => t.xid = x
      BY DEF LastOf
    <3> HIDE DEF r
    <3>3. chan[d] \in Seq(Frame) /\ chan' = [chan EXCEPT ![t.conn] = Append(chan[t.conn], r)]
      BY <2>9 DEF RpcType, Frames, r
    <3>4. /\ d = t.conn => chan'[d] = Append(chan[d], r)
          /\ d # t.conn => chan'[d] = chan[d]
      BY <1>1, <3>3 DEF RpcType
    <3>5. CountIn(Append(chan[d], r), LastOf(x)) = CountIn(chan[d], LastOf(x)) + more
      BY <3>1, <3>3, CountInAppend
    <3>6. /\ CountIn(chan'[d], LastOf(x)) \in Nat
          /\ CountIn(chan'[d], LastOf(x)) + Cardinality(Own') <= CountIn(chan[d], LastOf(x)) + Cardinality(Own)
      <4>1. Cardinality(Own') = IF mine THEN Cardinality(Own) - 1 ELSE Cardinality(Own)
        BY <2>4, <2>6, <2>9
      <4>2. CASE d = t.conn
        <5>1. CountIn(chan'[d], LastOf(x)) = CountIn(chan[d], LastOf(x)) + more
          BY <3>4, <3>5, <4>2
        <5>2. more = 0 \/ (more = 1 /\ mine)
          BY <3>2, <4>2
        <5> HIDE DEF more, mine
        <5> QED
          BY <2>2, <4>1, <5>1, <5>2
      <4>3. CASE d # t.conn
        BY <2>2, <3>4, <4>1, <4>3
      <4> QED
        BY <4>2, <4>3
    <3>7. answers' = answers /\ sent' = sent /\ wire' = wire /\ Cardinality(Own') \in Nat
      BY <1>2, <2>4, <2>7, <2>9
    <3>8. CountIn(answers[d], {x}) + CountIn(chan'[d], LastOf(x)) + Cardinality(Own')
            + CountIn(wire[d], LastOf(x)) <= CountIn(sent[d], {x})
      BY <2>1, <2>2, <3>6, <3>7 DEF Accounted, Own
    <3> QED
      BY <3>7, <3>8 DEF Accounted, Own
  <2> QED
    BY <1>2, <2>8, <2>9
<1> QED
  BY <1>3, <1>4 DEF AskedInv

LEMMA AskedCallKeeps ==
    ASSUME RpcType, AskedInv, NEW c \in Conns, NEW y \in Xids, R!Call(c, y)
    PROVE  AskedInv'
<1> DEFINE w == wire[c]
           lst == <<y, TRUE>>
           fst == <<y, FALSE>>
           half == Append(w, fst)
<1>1. w \in Seq(Frame) /\ sent[c] \in Seq(Xids) /\ IsFiniteSet(tasks)
  BY DEF RpcType, Frames, XidSeq, AskedInv
<1>2. lst \in Frame /\ fst \in Frame /\ lst[1] = y /\ lst[2] /\ ~ fst[2]
  BY FrameParts
<1>3. w \o <<fst, lst>> = Append(half, lst)
  <2> HIDE DEF w, fst, lst
  <2> QED
    BY <1>1, <1>2, SeqAppendTwo
<1>4. /\ wire' = [wire EXCEPT ![c] = Append(w, lst)] \/ wire' = [wire EXCEPT ![c] = Append(half, lst)]
      /\ UNCHANGED <<tasks, chan, answers>>
      /\ sent' = [sent EXCEPT ![c] = Append(sent[c], y)]
  BY <1>3 DEF R!Call
<1>5. \A x : (lst \in LastOf(x) <=> y = x) /\ fst \notin LastOf(x)
  BY <1>2 DEF LastOf
<1> HIDE DEF lst, fst
<1>6. \A x : /\ CountIn(Append(w, lst), LastOf(x)) = CountIn(w, LastOf(x)) + (IF y = x THEN 1 ELSE 0)
             /\ CountIn(Append(half, lst), LastOf(x)) = CountIn(w, LastOf(x)) + (IF y = x THEN 1 ELSE 0)
  <2>1. half \in Seq(Frame)
    BY <1>1, <1>2, SeqAppend
  <2>2. ASSUME NEW x
        PROVE  /\ CountIn(Append(w, lst), LastOf(x)) = CountIn(w, LastOf(x)) + (IF lst \in LastOf(x) THEN 1 ELSE 0)
               /\ CountIn(half, LastOf(x)) = CountIn(w, LastOf(x)) + (IF fst \in LastOf(x) THEN 1 ELSE 0)
               /\ CountIn(w, LastOf(x)) \in Nat
    <3> HIDE DEF w
    <3> QED
      BY <1>1, <1>2, CountInAppend, CountInType
  <2>3. ASSUME NEW x
        PROVE  CountIn(Append(half, lst), LastOf(x)) = CountIn(half, LastOf(x)) + (IF lst \in LastOf(x) THEN 1 ELSE 0)
    <3> HIDE DEF half
    <3> QED
      BY <2>1, <1>2, CountInAppend
  <2> HIDE DEF half, w
  <2> QED
    BY <2>2, <2>3, <1>5
<1> HIDE DEF half
<1>7. ASSUME NEW d \in Conns, NEW x \in Xids
      PROVE  Accounted(d, x)'
  <2> DEFINE more == IF y = x THEN 1 ELSE 0
  <2>1. Accounted(d, x)
    BY DEF AskedInv
  <2>2. /\ CountIn(answers[d], {x}) \in Nat /\ CountIn(chan[d], LastOf(x)) \in Nat
        /\ Cardinality(TasksOf(d, x)) \in Nat
        /\ CountIn(wire[d], LastOf(x)) \in Nat /\ CountIn(sent[d], {x}) \in Nat
    BY <1>1, CountsAreNumbers
  <2>3. TasksOf(d, x)' = TasksOf(d, x) /\ answers' = answers /\ chan' = chan
    BY <1>4 DEF TasksOf
  <2>4. CASE d # c
    <3>1. wire'[d] = wire[d] /\ sent'[d] = sent[d]
      BY <1>4, <2>4 DEF RpcType
    <3> QED
      BY <2>1, <2>3, <3>1 DEF Accounted
  <2>5. CASE d = c
    <3>1. CountIn(wire'[d], LastOf(x)) = CountIn(wire[d], LastOf(x)) + more
      BY <1>4, <1>6, <2>5 DEF RpcType
    <3>2. CountIn(sent'[d], {x}) = CountIn(sent[d], {x}) + more
      <4>1. sent'[d] = Append(sent[c], y)
        BY <1>4, <2>5 DEF RpcType
      <4>2. CountIn(Append(sent[c], y), {x}) = CountIn(sent[c], {x}) + (IF y \in {x} THEN 1 ELSE 0)
        BY <1>1, CountInAppend
      <4> QED
        BY <4>1, <4>2, <2>5
    <3>3. CountIn(answers[d], {x}) + CountIn(chan[d], LastOf(x)) + Cardinality(TasksOf(d, x))
            + CountIn(wire'[d], LastOf(x)) <= CountIn(sent'[d], {x})
      BY <2>1, <2>2, <3>1, <3>2 DEF Accounted
    <3> QED
      BY <2>3, <3>3 DEF Accounted
  <2> QED
    BY <2>4, <2>5
<1> QED
  BY <1>1, <1>4, <1>7 DEF AskedInv

LEMMA AskedReplyKeeps ==
    ASSUME RpcType, AskedInv, NEW c \in Conns, R!Reply(c) \/ R!Disconnect(c)
    PROVE  AskedInv'
<1> DEFINE q == chan[c]
           f == Head(q)
<1>1. q \in Seq(Frame) /\ answers[c] \in Seq(Xids) /\ IsFiniteSet(tasks)
  BY DEF RpcType, Frames, XidSeq, AskedInv
<1>2. /\ tasks' = tasks /\ sent' = sent
      /\ \/ /\ wire' = [wire EXCEPT ![c] = <<>>] /\ chan' = [chan EXCEPT ![c] = <<>>]
            /\ answers' = answers
         \/ /\ wire' = wire /\ q # <<>> /\ f[2]
            /\ chan' = [chan EXCEPT ![c] = Tail(q)]
            /\ answers' = [answers EXCEPT ![c] = Append(answers[c], f[1])]
  BY DEF R!Reply, R!Disconnect, R!Shut
<1>3. q # <<>> => f \in Frame /\ f[1] \in Xids
  BY <1>1, SeqTail, FrameParts
<1>4. ASSUME q # <<>>, NEW x
      PROVE  CountIn(q, LastOf(x)) = CountIn(Tail(q), LastOf(x)) + (IF f \in LastOf(x) THEN 1 ELSE 0)
  <2> HIDE DEF q
  <2> QED
    BY <1>1, <1>4, CountInTail
<1>5. ASSUME q # <<>>, NEW x
      PROVE  CountIn(Tail(q), LastOf(x)) \in Nat
  BY <1>1, <1>5, SeqTail, CountInType
<1>6. ASSUME NEW d \in Conns, NEW x \in Xids
      PROVE  Accounted(d, x)'
  <2>1. Accounted(d, x)
    BY DEF AskedInv
  <2>2. /\ CountIn(answers[d], {x}) \in Nat /\ CountIn(chan[d], LastOf(x)) \in Nat
        /\ Cardinality(TasksOf(d, x)) \in Nat
        /\ CountIn(wire[d], LastOf(x)) \in Nat /\ CountIn(sent[d], {x}) \in Nat
    BY <1>1, CountsAreNumbers
  <2>3. TasksOf(d, x)' = TasksOf(d, x) /\ sent' = sent
    BY <1>2 DEF TasksOf
  <2>4. CASE d # c
    <3>1. wire'[d] = wire[d] /\ answers'[d] = answers[d] /\ chan'[d] = chan[d]
      BY <1>2, <2>4 DEF RpcType
    <3> QED
      BY <2>1, <2>3, <3>1 DEF Accounted
  <2>5. CASE d = c /\ wire' # wire
    <3>1. wire'[d] = <<>> /\ answers'[d] = answers[d] /\ chan'[d] = <<>>
      BY <1>2, <2>5 DEF RpcType
    <3>2. CountIn(wire'[d], LastOf(x)) = 0 /\ CountIn(chan'[d], LastOf(x)) = 0
      BY <3>1, CountInNone
    <3> QED
      BY <2>1, <2>2, <2>3, <3>1, <3>2 DEF Accounted
  <2>6. CASE d = c /\ wire' = wire
    <3>1. CASE answers' = answers /\ chan' = [chan EXCEPT ![c] = <<>>]
      <4>1. chan'[d] = <<>>
        BY <3>1, <2>6 DEF RpcType
      <4>2. CountIn(chan'[d], LastOf(x)) = 0
        BY <4>1, CountInNone
      <4> QED
        BY <2>1, <2>2, <2>3, <2>6, <3>1, <4>2 DEF Accounted
    <3>2. CASE /\ q # <<>> /\ f[2]
               /\ chan' = [chan EXCEPT ![c] = Tail(q)]
               /\ answers' = [answers EXCEPT ![c] = Append(answers[c], f[1])]
      <4> DEFINE more == IF f[1] = x THEN 1 ELSE 0
      <4>1. f \in LastOf(x) <=> f[1] = x
        BY <3>2, <1>3 DEF LastOf
      <4>2. chan'[d] = Tail(q) /\ answers'[d] = Append(answers[c], f[1])
        BY <3>2, <2>6 DEF RpcType
      <4>3. CountIn(chan[d], LastOf(x)) = CountIn(Tail(q), LastOf(x)) + more
        BY <3>2, <1>4, <4>1, <2>6
      <4>4. CountIn(answers'[d], {x}) = CountIn(answers[d], {x}) + more
        <5> HIDE DEF f
        <5>1. CountIn(Append(answers[c], f[1]), {x}) = CountIn(answers[c], {x}) + (IF f[1] \in {x} THEN 1 ELSE 0)
          BY <1>1, <1>3, <3>2, CountInAppend
        <5> QED
          BY <5>1, <4>2, <2>6
      <4>5. CountIn(Tail(q), LastOf(x)) \in Nat
        BY <1>5, <3>2
      <4>6. CountIn(answers'[d], {x}) + CountIn(chan'[d], LastOf(x)) = CountIn(answers[d], {x}) + CountIn(chan[d], LastOf(x))
        BY <4>2, <4>3, <4>4, <4>5, <2>2
      <4> QED
        BY <2>1, <2>2, <2>3, <2>6, <4>6 DEF Accounted
    <3> QED
      BY <1>2, <3>1, <3>2
  <2> QED
    BY <2>4, <2>5, <2>6
<1> QED
  BY <1>1, <1>2, <1>6 DEF AskedInv

\* The record layer's invariant and what it means.
RpcInv == RpcType /\ RunInv /\ AskedInv

LEMMA RpcInvInit ==
    ASSUME R!RInit
    PROVE  RpcInv
BY RpcTypeInit, RunInvInit, AskedInvInit DEF RpcInv

LEMMA RpcInvStep ==
    ASSUME RpcInv, [R!RNext]_(R!rvars)
    PROVE  RpcInv'
<1>1. RpcType /\ RunInv /\ AskedInv
  BY DEF RpcInv
<1>2. RpcType' /\ RunInv'
  BY <1>1, RpcTypeStep, RunInvStep
<1>3. AskedInv'
  <2>1. CASE UNCHANGED <<wire, chan, answers, sent, tasks>>
    BY <2>1, <1>1 DEF AskedInv, Accounted, TasksOf
  <2>2. UNCHANGED R!rvars \/ R!Tick => UNCHANGED <<wire, chan, answers, sent, tasks>>
    BY DEF R!rvars, R!Tick
  <2> QED
    BY <1>1, <2>1, <2>2, AskedReadKeeps, AskedReplyKeeps, AskedCallKeeps, AskedTaskKeeps DEF R!RNext
<1> QED
  BY <1>2, <1>3 DEF RpcInv

LEMMA RpcInvSuffices ==
    ASSUME RpcInv
    PROVE  R!RunOnce /\ R!AnswersWereAsked
<1>1. \A s, x : R!Times(s, x) = CountIn(s, {x})
  <2>1. \A T : R!Cardinality(T) = Cardinality(T)
    BY DEF R!Cardinality, Cardinality
  <2> SUFFICES ASSUME NEW s, NEW x
               PROVE  R!Times(s, x) = CountIn(s, {x})
    OBVIOUS
  <2>2. {i \in DOMAIN s : s[i] = x} = {i \in DOMAIN s : s[i] \in {x}}
    OBVIOUS
  <2> QED
    BY <2>1, <2>2 DEF R!Times, CountIn
<1>2. ASSUME NEW c \in Conns, NEW x \in Xids
      PROVE  CountIn(answers[c], {x}) <= CountIn(sent[c], {x})
  <2>1. Accounted(c, x) /\ RpcType /\ IsFiniteSet(tasks)
    BY DEF RpcInv, AskedInv
  <2> QED
    BY <2>1, CountsAreNumbers DEF Accounted
<1> QED
  BY <1>1, <1>2 DEF RpcInv, RunInv, R!AnswersWereAsked

----------------------------------------------------------------------------
(* An execution: who may take an end for a clean one.                       *)

PlShape ==
    /\ DOMAIN queue = P!Pipe /\ DOMAIN tx = P!Pipe /\ DOMAIN rx = P!Pipe
    /\ finished \in [P!Pipe -> BOOLEAN] /\ error \in [P!Pipe -> {"none", "transient", "deterministic"}]
    /\ gpc \in [P!Stage -> {"run", "verdict", "finish", "done"}]
    /\ result \in [P!Stage -> {"none", "ok", "trap", "fuel", "short_input"}]
    /\ DOMAIN early = P!Stage /\ DOMAIN consumed = P!Stage /\ DOMAIN hand = P!Stage
    /\ DOMAIN unsent = P!Stage
    /\ cpc \in [P!Consumer -> {"read", "done"}] /\ DOMAIN got = P!Consumer
    /\ ended \in [P!Consumer -> {"none", "ok", "mismatch", "transient", "deterministic"}]
    /\ joined \in {"guest", "fail", "finish", "consumers", "done"}
    /\ verdict \in {"none", "licensed", "poisoned", "retry"}

Settled(s) == gpc[s] \in {"finish", "done"}
Told == joined \in {"finish", "consumers", "done"}

\* A pipe is finished only after its writer's verdict is on it; so who took a
\* clean end has a writer that returned without error.
EofInv ==
    /\ \A s \in P!Stage : gpc[s] # "run" => result[s] # "none"
    /\ \A s \in P!Stage \ {Stages} :
        /\ finished[s] => Settled(s)
        /\ Settled(s) /\ result[s] # "ok" => error[s] # "none"
    /\ \A s \in P!Stage \ {1} : early[s] => Settled(s - 1) /\ result[s - 1] = "ok"
    /\ joined # "guest" => gpc[Stages] = "done"
    /\ \A p \in P!Pipe : p >= Stages =>
        /\ finished[p] => Told
        /\ Told /\ result[Stages] # "ok" => error[p] # "none"
    /\ \A c \in P!Consumer : ended[c] \in {"ok", "mismatch"} => gpc[Stages] = "done" /\ result[Stages] = "ok"

\* An output that was accepted is whole, and a licence rests on all of them.
WholeInv ==
    /\ \A c \in P!Consumer : ended[c] = "ok" => P!Whole(got[c])
    /\ \A c \in P!Consumer : ended[c] # "none" => cpc[c] = "done"
    /\ verdict # "none" => \A c \in P!Consumer : cpc[c] = "done"
    /\ verdict = "licensed" => \A c \in P!Consumer : ended[c] = "ok"

LEMMA PlSets ==
    /\ Stages \in P!Stage /\ P!Stage \subseteq Nat
    /\ \A s \in P!Stage : 1 <= s /\ s <= Stages
    /\ \A s \in P!Stage \ {1} : s - 1 \in P!Stage \ {Stages} /\ s - 1 \in P!Pipe
    /\ \A s \in P!Stage \ {Stages} : s \in P!Pipe /\ s < Stages /\ s + 1 \in P!Stage /\ (s + 1) - 1 = s
    /\ \A c \in P!Consumer : c - 1 \in P!Pipe /\ c - 1 >= Stages /\ c \in Nat
    /\ P!Pipe \subseteq Nat
    /\ \A p \in P!Pipe : p >= Stages => p + 1 \in P!Consumer /\ (p + 1) - 1 = p
    /\ \A p \in P!Pipe : p < Stages => p \in P!Stage \ {Stages}
BY ProgressAssumption DEF P!Stage, P!Consumer, P!Pipe

LEMMA PlShapeInit ==
    ASSUME P!PLInit
    PROVE  PlShape /\ EofInv /\ WholeInv
<1>1. PlShape
  BY DEF P!PLInit, PlShape
<1>2. EofInv
  BY PlSets DEF P!PLInit, EofInv, Settled, Told
<1>3. WholeInv
  BY DEF P!PLInit, WholeInv
<1> QED
  BY <1>1, <1>2, <1>3

LEMMA PlShapeStep ==
    ASSUME PlShape, [P!PLNext]_(P!plvars)
    PROVE  PlShape'
<1>1. CASE UNCHANGED P!plvars
  BY <1>1 DEF P!plvars, P!guest, P!consumer, PlShape
<1>2. ASSUME NEW s \in P!Stage, P!Guest(s) \/ P!ReadLiteralFails(s)
      PROVE  PlShape'
  <2>1. CASE P!ReadLiteral(s)
    BY <2>1 DEF P!ReadLiteral, P!Take, P!consumer, PlShape
  <2>2. CASE P!ReadLiteralFails(s)
    BY <2>2 DEF P!ReadLiteralFails, P!Trap, P!consumer, PlShape
  <2>3. CASE P!ReadPipe(s)
    <3>1. /\ UNCHANGED <<tx, rx, error, finished, gpc, cpc, got, ended, joined, verdict>>
          /\ DOMAIN queue' = DOMAIN queue /\ DOMAIN early' = DOMAIN early
          /\ DOMAIN consumed' = DOMAIN consumed /\ DOMAIN hand' = DOMAIN hand
          /\ DOMAIN unsent' = DOMAIN unsent
          /\ result' = result \/ result' = [result EXCEPT ![s] = "trap"]
      BY <2>3 DEF P!ReadPipe, P!Take, P!Trap, P!consumer
    <3> QED
      BY <3>1 DEF PlShape
  <2>4. CASE P!WritePipe(s)
    BY <2>4 DEF P!WritePipe, P!Trap, P!consumer, PlShape
  <2>5. CASE P!Return(s)
    BY <2>5 DEF P!Return, P!consumer, PlShape
  <2>6. CASE P!Leave(s)
    BY <2>6 DEF P!Leave, P!consumer, PlShape
  <2>7. CASE P!Verdict(s)
    BY <2>7 DEF P!Verdict, P!FailWith, P!consumer, PlShape
  <2>8. CASE P!Finish(s)
    BY <2>8 DEF P!Finish, P!consumer, PlShape
  <2> QED
    BY <1>2, <2>1, <2>2, <2>3, <2>4, <2>5, <2>6, <2>7, <2>8 DEF P!Guest
<1>3. ASSUME NEW c \in P!Consumer, P!Consume(c) \/ P!ConsumerFails(c)
      PROVE  PlShape'
  <2>1. /\ UNCHANGED <<tx, finished, error, gpc, result, early, consumed, hand, unsent, joined, verdict>>
        /\ DOMAIN queue' = DOMAIN queue /\ DOMAIN rx' = DOMAIN rx /\ DOMAIN got' = DOMAIN got
        /\ \/ UNCHANGED <<cpc, ended>>
           \/ \E how \in {"ok", "mismatch", "transient", "deterministic"} :
                /\ cpc' = [cpc EXCEPT ![c] = "done"] /\ ended' = [ended EXCEPT ![c] = how]
    BY <1>3, PlSets DEF P!Consume, P!ConsumerFails, P!Stop, P!EndOfStream, P!guest, PlShape
  <2> QED
    BY <2>1 DEF PlShape
<1>4. CASE P!Joiner
  <2>1. CASE P!JoinGuest \/ P!Conclude
    BY <2>1 DEF P!JoinGuest, P!Conclude, P!guest, P!consumer, PlShape
  <2>2. CASE P!RecordVerdict
    <3>1. finished' \in [P!Pipe -> BOOLEAN]
      BY <2>2 DEF P!RecordVerdict
    <3>2. error' \in [P!Pipe -> {"none", "transient", "deterministic"}]
      BY <2>2 DEF P!RecordVerdict, PlShape
    <3> QED
      BY <2>2, <3>1, <3>2 DEF P!RecordVerdict, P!guest, P!consumer, PlShape
  <2>3. CASE P!FinishOutputs
    <3>1. finished' \in [P!Pipe -> BOOLEAN]
      BY <2>3 DEF P!FinishOutputs
    <3> QED
      BY <2>3, <3>1 DEF P!FinishOutputs, P!guest, P!consumer, PlShape
  <2> QED
    BY <1>4, <2>1, <2>2, <2>3 DEF P!Joiner
<1> QED
  BY <1>1, <1>2, <1>3, <1>4 DEF P!PLNext, P!Faulty

LEMMA WholeStep ==
    ASSUME PlShape, WholeInv, [P!PLNext]_(P!plvars)
    PROVE  WholeInv'
<1>1. CASE UNCHANGED <<cpc, ended, got, verdict>>
  BY <1>1 DEF WholeInv, P!Whole
<1>2. ASSUME NEW c \in P!Consumer, P!Consume(c) \/ P!ConsumerFails(c)
      PROVE  WholeInv'
  <2>1. /\ cpc[c] = "read" /\ verdict' = verdict
        /\ \/ UNCHANGED <<cpc, ended>> /\ \E e : got' = [got EXCEPT ![c] = e]
           \/ /\ cpc' = [cpc EXCEPT ![c] = "done"] /\ got' = got
              /\ \E how : /\ ended' = [ended EXCEPT ![c] = how]
                          /\ how = "ok" => P!Whole(got[c])
    <3>1. error[c - 1] # "ok"
      BY PlSets DEF PlShape
    <3>2. P!EndOfStream(got[c]) = "ok" => P!Whole(got[c])
      BY DEF P!EndOfStream
    <3>3. ASSUME NEW how, P!Stop(c, how)
          PROVE  /\ cpc' = [cpc EXCEPT ![c] = "done"] /\ got' = got
                 /\ ended' = [ended EXCEPT ![c] = how]
      BY <3>3 DEF P!Stop
    <3>4. /\ cpc[c] = "read" /\ verdict' = verdict
          /\ \/ UNCHANGED <<cpc, ended>> /\ \E e : got' = [got EXCEPT ![c] = e]
             \/ P!Stop(c, P!EndOfStream(got[c])) \/ P!Stop(c, error[c - 1]) \/ P!Stop(c, "transient")
      BY <1>2, Zenon DEF P!Consume, P!ConsumerFails
    <3> HIDE DEF P!Stop
    <3> QED
      BY <3>1, <3>2, <3>3, <3>4
  <2>2. verdict = "none" /\ ended[c] = "none"
    BY <2>1 DEF WholeInv, PlShape
  <2>3. \A d \in P!Consumer \ {c} : cpc'[d] = cpc[d] /\ ended'[d] = ended[d] /\ got'[d] = got[d]
    BY <2>1 DEF PlShape
  <2>4. /\ ended'[c] = "ok" => P!Whole(got'[c])
        /\ ended'[c] # "none" => cpc'[c] = "done"
    BY <2>1, <2>2 DEF PlShape
  <2>5. verdict' = "none"
    BY <2>1, <2>2
  <2> QED
    BY <2>3, <2>4, <2>5 DEF WholeInv, P!Whole
<1>3. CASE P!Conclude
  <2>1. /\ UNCHANGED <<cpc, ended, got>> /\ \A c \in P!Consumer : cpc[c] = "done"
        /\ verdict' = "licensed" => P!FirstFailure = {}
    BY <1>3 DEF P!Conclude, P!consumer, P!Succeeded
  <2>2. ASSUME P!FirstFailure = {}
        PROVE  \A c \in P!Consumer : ended[c] = "ok"
    <3> DEFINE Bad == {c \in P!Consumer : ended[c] # "ok"}
    <3> SUFFICES ASSUME Bad # {}
                 PROVE  FALSE
      OBVIOUS
    <3>1. Bad \subseteq Nat
      BY PlSets
    <3>2. PICK c \in Bad : \A d \in Bad : ~ (<<d, c>> \in OpToRel(<, Nat))
      <4> HIDE DEF Bad
      <4> QED
        BY <3>1, NatLessThanWellFounded, WFMin
    <3>3. \A d \in P!Consumer : d < c => ended[d] = "ok"
      BY <3>1, <3>2, PlSets DEF OpToRel
    <3> QED
      BY <2>2, <3>2, <3>3 DEF P!FirstFailure
  <2> QED
    BY <2>1, <2>2 DEF WholeInv, P!Whole
<1>4. ASSUME NEW s \in P!Stage, P!Guest(s) \/ P!ReadLiteralFails(s)
      PROVE  UNCHANGED <<cpc, ended, got, verdict>>
  BY <1>4 DEF P!Guest, P!ReadLiteral, P!ReadPipe, P!WritePipe, P!Return, P!Leave, P!Verdict, P!Finish,
              P!ReadLiteralFails, P!consumer
<1>5. P!JoinGuest \/ P!RecordVerdict \/ P!FinishOutputs => UNCHANGED <<cpc, ended, got, verdict>>
  BY DEF P!JoinGuest, P!RecordVerdict, P!FinishOutputs, P!consumer
<1>6. UNCHANGED P!plvars => UNCHANGED <<cpc, ended, got, verdict>>
  BY DEF P!plvars, P!consumer
<1> QED
  BY <1>1, <1>2, <1>3, <1>4, <1>5, <1>6 DEF P!PLNext, P!Faulty, P!Joiner

LEMMA EofStep ==
    ASSUME PlShape, EofInv, [P!PLNext]_(P!plvars)
    PROVE  EofInv'
<1> USE PlSets DEF PlShape
<1>1. CASE UNCHANGED P!plvars
  BY <1>1 DEF P!plvars, P!guest, P!consumer, EofInv, Settled, Told
\* Inside run_fueled a guest changes its own outcome only.
<1>2. ASSUME NEW s \in P!Stage,
             P!ReadLiteral(s) \/ P!ReadLiteralFails(s) \/ P!ReadPipe(s) \/ P!WritePipe(s) \/ P!Return(s)
      PROVE  EofInv'
  <2>1. /\ UNCHANGED <<gpc, error, finished, ended, joined>> /\ gpc[s] = "run"
        /\ \/ result' = result
           \/ \E r \in {"ok", "trap", "fuel"} : result' = [result EXCEPT ![s] = r]
        /\ \/ early' = early
           \/ /\ early' = [early EXCEPT ![s] = TRUE]
              /\ s # 1 => finished[s - 1] /\ error[s - 1] = "none"
    BY <1>2 DEF P!ReadLiteral, P!ReadLiteralFails, P!ReadPipe, P!WritePipe, P!Return, P!Take, P!Trap,
                P!Running, P!Wanting, P!AtEnd, P!consumer
  <2>2. \A u \in P!Stage : gpc[u] # "run" => result'[u] = result[u]
    BY <2>1
  <2>3. \A u \in P!Stage \ {1} : early'[u] => Settled(u - 1) /\ result[u - 1] = "ok"
    BY <2>1 DEF EofInv
  <2> QED
    BY <2>1, <2>2, <2>3 DEF EofInv, Settled, Told
<1>3. ASSUME NEW s \in P!Stage, P!Leave(s)
      PROVE  EofInv'
  <2>1. /\ UNCHANGED <<early, error, finished, ended, joined>> /\ gpc[s] = "run" /\ result[s] # "none"
        /\ gpc' = [gpc EXCEPT ![s] = IF s = Stages THEN "done" ELSE "verdict"]
        /\ \E r \in {"none", "ok", "trap", "fuel", "short_input"} \ {"none"} :
             result' = [result EXCEPT ![s] = r]
    BY <1>3 DEF P!Leave, P!consumer, P!Top
  <2> QED
    BY <2>1 DEF EofInv, Settled, Told
<1>4. ASSUME NEW s \in P!Stage, P!Verdict(s) \/ P!Finish(s)
      PROVE  EofInv'
  <2>1. /\ UNCHANGED <<early, result, ended, joined>> /\ s # Stages
        /\ \A u \in P!Stage \ {s} : gpc'[u] = gpc[u]
        /\ Settled(s)' /\ gpc[s] # "run" /\ gpc'[s] # "run"
        /\ \A p \in P!Pipe \ {s} : finished'[p] = finished[p] /\ error'[p] = error[p]
        /\ gpc[s] = "finish" \/ result[s] = "ok" \/ error'[s] # "none"
        /\ gpc[s] = "finish" => error'[s] = error[s]
    BY <1>4 DEF P!Verdict, P!Finish, P!FailWith, P!consumer, P!Top, Settled
  <2> QED
    BY <2>1 DEF EofInv, Settled, Told
<1>5. ASSUME NEW c \in P!Consumer, P!Consume(c) \/ P!ConsumerFails(c)
      PROVE  EofInv'
  <2>1. /\ UNCHANGED <<gpc, early, result, error, finished, joined>>
        /\ \/ ended' = ended
           \/ \E how : /\ ended' = [ended EXCEPT ![c] = how]
                       /\ how \in {"ok", "mismatch"} => finished[c - 1] /\ error[c - 1] = "none"
    BY <1>5 DEF P!Consume, P!ConsumerFails, P!Stop, P!AtEnd, P!guest
  <2>2. finished[c - 1] /\ error[c - 1] = "none" => gpc[Stages] = "done" /\ result[Stages] = "ok"
    BY DEF EofInv, Told
  <2> QED
    BY <2>1, <2>2 DEF EofInv, Settled, Told
<1>6. CASE P!Joiner
  <2>1. CASE P!JoinGuest \/ P!Conclude
    BY <2>1 DEF P!JoinGuest, P!Conclude, P!guest, P!consumer, P!Top, EofInv, Settled, Told
  <2>2. CASE P!RecordVerdict
    <3>1. /\ UNCHANGED <<gpc, early, result, ended>> /\ joined = "fail" /\ joined' = "finish"
          /\ \A p \in P!Pipe : p < Stages => (finished'[p] <=> finished[p]) /\ error'[p] = error[p]
          /\ \A p \in P!Pipe : p >= Stages /\ result[Stages] # "ok" => error'[p] # "none"
      BY <2>2 DEF P!RecordVerdict, P!guest, P!consumer, P!Top
    <3> QED
      BY <3>1 DEF EofInv, Settled, Told
  <2>3. CASE P!FinishOutputs
    <3>1. /\ UNCHANGED <<gpc, early, result, ended, error>> /\ joined = "finish" /\ joined' = "consumers"
          /\ \A p \in P!Pipe : p < Stages => (finished'[p] <=> finished[p])
      BY <2>3 DEF P!FinishOutputs, P!guest, P!consumer, P!Top
    <3> QED
      BY <3>1 DEF EofInv, Settled, Told
  <2> QED
    BY <1>6, <2>1, <2>2, <2>3 DEF P!Joiner
<1> QED
  BY <1>1, <1>2, <1>3, <1>4, <1>5, <1>6 DEF P!PLNext, P!Faulty, P!Guest

----------------------------------------------------------------------------
(* An execution of honest guests over a whole literal, without a fault.     *)

Right == {TRUE}
Rights == Seq(Right)

Honest ==
    /\ pipeFaults = 0 /\ literal + consumed[1] = Blocks
    /\ \A s \in P!Stage : habit[s] = "honest"

\* A guest neither ends early nor fails, and is done with all it read.
GuestFine(s) ==
    /\ consumed[s] \in 0 .. Blocks /\ ~ early[s] /\ hand[s] \in Right
    /\ result[s] \in {"none", "ok"}
    /\ result[s] = "ok" => consumed[s] = Blocks /\ unsent[s] = {}
    /\ unsent[s] \subseteq P!SinksOf(s)
    /\ unsent[s] # {} => consumed[s] > 0

WriterOf(p) == IF p < Stages THEN p ELSE Stages
Written(p) == consumed[WriterOf(p)] - (IF p \in unsent[WriterOf(p)] THEN 1 ELSE 0)
Read(p) == IF p < Stages THEN consumed[p + 1] ELSE Len(got[p + 1])
Reading(p) == IF p < Stages THEN gpc[p + 1] = "run" ELSE cpc[p + 1] = "read"

\* Nothing is lost in a pipe: what was written is in it or was read, and a
\* reader leaves only when the writer is done with it.
PipeFine(p) ==
    /\ queue[p] \in Rights /\ error[p] = "none"
    /\ (rx[p] <=> Reading(p)) /\ (tx[p] <=> gpc[WriterOf(p)] = "run")
    /\ Reading(p) => Written(p) = Len(queue[p]) + Read(p)
    /\ ~ Reading(p) => Written(p) = Blocks

ConsumerFine(c) ==
    /\ got[c] \in Rights
    /\ cpc[c] = "done" => ended[c] = "ok"

Fine ==
    /\ \A s \in P!Stage : GuestFine(s)
    /\ \A p \in P!Pipe : PipeFine(p)
    /\ \A c \in P!Consumer : ConsumerFine(c)
    /\ verdict # "none" => verdict = "licensed"

HonestInv ==
    /\ literal \in Nat /\ pipeFaults \in Nat /\ consumed \in [P!Stage -> Nat]
    /\ Honest => Fine

LEMMA RightTail ==
    ASSUME NEW q \in Rights, q # <<>>
    PROVE  Head(q) \in Right /\ Tail(q) \in Rights /\ Len(Tail(q)) = Len(q) - 1 /\ Len(q) \in Nat
BY DEF Rights

LEMMA RightAppend ==
    ASSUME NEW q \in Rights, NEW e \in Right
    PROVE  Append(q, e) \in Rights /\ Len(Append(q, e)) = Len(q) + 1 /\ Len(q) \in Nat
BY DEF Rights

LEMMA RightNone == <<>> \in Rights /\ Len(<<>>) = 0 /\ \A q \in Rights : Len(q) \in Nat
BY DEF Rights

\* Blocks right blocks are the whole output.
LEMMA RightWhole ==
    ASSUME NEW q \in Rights, Len(q) = Blocks
    PROVE  P!Whole(q)
<1>1. q \in [1 .. Blocks -> Right]
  BY DEF Rights
<1>2. \A i \in 1 .. Blocks : q[i] = TRUE
  BY <1>1 DEF Right
<1> QED
  BY <1>1, <1>2, Zenon DEF P!Whole

LEMMA SinksWriter ==
    /\ \A s \in P!Stage, p \in P!Pipe : p \in P!SinksOf(s) <=> WriterOf(p) = s
    /\ \A s \in P!Stage : P!SinksOf(s) \subseteq P!Pipe
    /\ \A p \in P!Pipe : WriterOf(p) \in P!Stage
BY ProgressAssumption DEF P!SinksOf, WriterOf, P!Stage, P!Pipe, P!Top

LEMMA HonestInit ==
    ASSUME P!PLInit
    PROVE  HonestInv
<1>1. literal \in Nat /\ pipeFaults \in Nat /\ consumed \in [P!Stage -> Nat]
  BY ProgressAssumption DEF P!PLInit
<1>2. ASSUME NEW s \in P!Stage
      PROVE  GuestFine(s)
  BY ProgressAssumption DEF P!PLInit, GuestFine, Right
<1>3. ASSUME NEW p \in P!Pipe
      PROVE  PipeFine(p)
  <2>1. /\ queue[p] = <<>> /\ error[p] = "none" /\ rx[p] /\ tx[p]
        /\ gpc[WriterOf(p)] = "run" /\ consumed[WriterOf(p)] = 0 /\ unsent[WriterOf(p)] = {}
    BY SinksWriter DEF P!PLInit
  <2>2. Reading(p) /\ Read(p) = 0
    BY PlSets, RightNone DEF P!PLInit, Reading, Read
  <2>3. Written(p) = 0
    <3>1. (IF p \in unsent[WriterOf(p)] THEN 1 ELSE 0) = 0
      BY <2>1
    <3>2. Written(p) = 0 - 0
      BY <2>1, <3>1, Zenon DEF Written
    <3> QED
      BY <3>2
  <2> QED
    BY <2>1, <2>2, <2>3, RightNone DEF PipeFine
<1>4. ASSUME NEW c \in P!Consumer
      PROVE  ConsumerFine(c)
  BY RightNone DEF P!PLInit, ConsumerFine
<1> QED
  BY <1>1, <1>2, <1>3, <1>4 DEF HonestInv, Fine, P!PLInit

\* What makes an execution honest does not come about on the way.
LEMMA HonestBefore ==
    ASSUME PlShape, literal \in Nat, pipeFaults \in Nat, consumed \in [P!Stage -> Nat],
           [P!PLNext]_(P!plvars)
    PROVE  /\ literal' \in Nat /\ pipeFaults' \in Nat /\ consumed' \in [P!Stage -> Nat]
           /\ Honest' => Honest
<1> DEFINE Goal == /\ literal' \in Nat /\ pipeFaults' \in Nat /\ consumed' \in [P!Stage -> Nat]
                   /\ Honest' => Honest
<1>0. 1 \in P!Stage
  BY ProgressAssumption DEF P!Stage
<1>1. ASSUME NEW s \in P!Stage, P!ReadLiteral(s)
      PROVE  Goal
  <2>1. /\ s = 1 /\ UNCHANGED <<habit, pipeFaults>>
        /\ \/ literal > 0 /\ literal' = literal - 1 /\ consumed' = [consumed EXCEPT ![s] = @ + 1]
           \/ UNCHANGED <<literal, consumed>>
    BY <1>1 DEF P!ReadLiteral, P!Take
  <2> QED
    BY <2>1, <1>0 DEF Honest
<1>2. ASSUME NEW s \in P!Stage, P!ReadPipe(s)
      PROVE  Goal
  <2>1. /\ s # 1 /\ UNCHANGED <<habit, literal, pipeFaults>>
        /\ consumed' = [consumed EXCEPT ![s] = @ + 1] \/ consumed' = consumed
    <3>1. s > 1 /\ s \in Nat
      BY <1>2, PlSets DEF P!ReadPipe
    <3>2. UNCHANGED <<habit, literal, pipeFaults>>
      BY <1>2 DEF P!ReadPipe
    <3>3. consumed' = [consumed EXCEPT ![s] = @ + 1] \/ consumed' = consumed
      BY <1>2, Zenon DEF P!ReadPipe, P!Take, P!Trap
    <3> QED
      BY <3>1, <3>2, <3>3
  <2> QED
    BY <2>1, <1>0 DEF Honest
<1>3. CASE UNCHANGED <<habit, literal, consumed>> /\ (pipeFaults' = pipeFaults \/ pipeFaults' = pipeFaults + 1)
  BY <1>3 DEF Honest
<1>4. ASSUME NEW s \in P!Stage,
             P!WritePipe(s) \/ P!Return(s) \/ P!Leave(s) \/ P!Verdict(s) \/ P!Finish(s) \/ P!ReadLiteralFails(s)
      PROVE  UNCHANGED <<habit, literal, consumed>> /\ (pipeFaults' = pipeFaults \/ pipeFaults' = pipeFaults + 1)
  BY <1>4 DEF P!WritePipe, P!Return, P!Leave, P!Verdict, P!Finish, P!ReadLiteralFails, P!Trap
<1>5. ASSUME NEW c \in P!Consumer, P!Consume(c) \/ P!ConsumerFails(c)
      PROVE  UNCHANGED <<habit, literal, consumed>> /\ (pipeFaults' = pipeFaults \/ pipeFaults' = pipeFaults + 1)
  BY <1>5 DEF P!Consume, P!ConsumerFails, P!guest
<1>6. P!Joiner \/ UNCHANGED P!plvars => UNCHANGED <<habit, literal, consumed, pipeFaults>>
  BY DEF P!Joiner, P!JoinGuest, P!RecordVerdict, P!FinishOutputs, P!Conclude, P!guest, P!plvars
<1> QED
  BY <1>1, <1>2, <1>3, <1>4, <1>5, <1>6 DEF P!PLNext, P!Faulty, P!Guest

\* A guest that takes a block has to write it to each of its sinks.
LEMMA TakeKeepsFine ==
    ASSUME PlShape, HonestInv, Fine, NEW s \in P!Stage, P!Wanting(s),
           consumed' = [consumed EXCEPT ![s] = @ + 1],
           hand' = [hand EXCEPT ![s] = TRUE],
           unsent' = [unsent EXCEPT ![s] = P!SinksOf(s)],
           UNCHANGED <<tx, rx, error, gpc, result, early, cpc, got, ended, verdict>>,
           s = 1 => queue' = queue,
           s # 1 => P!HasChunk(s - 1) /\ queue' = [queue EXCEPT ![s - 1] = Tail(@)]
    PROVE  Fine'
<1> USE DEF PlShape
<1>1. /\ gpc[s] = "run" /\ result[s] = "none" /\ unsent[s] = {} /\ consumed[s] < Blocks
      /\ GuestFine(s)
  BY DEF P!Wanting, P!Running, Fine
<1>2. ASSUME NEW u \in P!Stage
      PROVE  GuestFine(u)'
  <2>1. CASE u = s
    <3>1. consumed'[s] = consumed[s] + 1 /\ hand'[s] = TRUE /\ unsent'[s] = P!SinksOf(s)
      OBVIOUS
    <3>2. consumed[s] + 1 \in 0 .. Blocks /\ consumed[s] + 1 > 0
      BY <1>1, ProgressAssumption DEF GuestFine
    <3>3. P!SinksOf(s)' = P!SinksOf(s)
      BY DEF P!SinksOf
    <3> QED
      BY <1>1, <2>1, <3>1, <3>2, <3>3 DEF GuestFine, Right
  <2>2. CASE u # s
    <3>1. GuestFine(u) /\ consumed'[u] = consumed[u] /\ hand'[u] = hand[u] /\ unsent'[u] = unsent[u]
      BY <2>2 DEF Fine
    <3> QED
      BY <3>1 DEF GuestFine, P!SinksOf
  <2> QED
    BY <2>1, <2>2
<1>3. ASSUME NEW p \in P!Pipe
      PROVE  PipeFine(p)'
  <2>1. PipeFine(p) /\ WriterOf(p) \in P!Stage /\ p \in Nat /\ s \in Nat /\ s >= 1
    BY SinksWriter, PlSets DEF Fine
  <2>2. Written(p)' = Written(p) /\ WriterOf(p)' = WriterOf(p)
    <3>1. CASE WriterOf(p) = s
      <4>1. p \in P!SinksOf(s)
        BY <3>1, SinksWriter
      <4>2. unsent'[s] = P!SinksOf(s) /\ consumed'[s] = consumed[s] + 1 /\ consumed[s] \in Nat
        BY DEF HonestInv
      <4> QED
        BY <1>1, <3>1, <4>1, <4>2 DEF Written, WriterOf
    <3>2. CASE WriterOf(p) # s
      <4>1. unsent'[WriterOf(p)] = unsent[WriterOf(p)] /\ consumed'[WriterOf(p)] = consumed[WriterOf(p)]
        BY <3>2, <2>1
      <4> QED
        BY <4>1 DEF Written, WriterOf
    <3> QED
      BY <3>1, <3>2
  <2>3. CASE p = s - 1
    <3>1. s # 1 /\ p < Stages /\ p + 1 = s
      BY <2>1, <2>3, PlSets
    <3>2. queue[p] # <<>> /\ queue'[p] = Tail(queue[p])
      BY <2>3, <3>1 DEF P!HasChunk
    <3>3. /\ queue'[p] \in Rights /\ Len(queue'[p]) = Len(queue[p]) - 1 /\ Len(queue[p]) \in Nat
      BY <2>1, <3>2, RightTail DEF PipeFine
    <3>4. Read(p)' = Read(p) + 1 /\ Read(p) \in Nat /\ Reading(p) /\ Reading(p)'
      BY <1>1, <3>1 DEF Read, Reading, HonestInv
    <3> QED
      BY <2>1, <2>2, <3>3, <3>4 DEF PipeFine
  <2>4. CASE p # s - 1
    <3>1. queue'[p] = queue[p]
      BY <2>4
    <3>2. Read(p)' = Read(p) /\ (Reading(p)' <=> Reading(p))
      BY <2>1, <2>4, PlSets DEF Read, Reading
    <3> QED
      BY <2>1, <2>2, <3>1, <3>2 DEF PipeFine
  <2> QED
    BY <2>3, <2>4
<1> QED
  BY <1>2, <1>3 DEF Fine, ConsumerFine

LEMMA ReadKeepsFine ==
    ASSUME PlShape, EofInv, HonestInv, Honest, Fine, NEW s \in P!Stage,
           P!ReadLiteral(s) \/ P!ReadPipe(s)
    PROVE  Fine'
<1> USE DEF PlShape
<1>1. P!Wanting(s) /\ gpc[s] = "run" /\ consumed[s] < Blocks /\ habit[s] # "liar"
  BY DEF P!ReadLiteral, P!ReadPipe, P!Wanting, P!Running, Honest
<1>2. CASE P!ReadLiteral(s)
  <2>1. s = 1 /\ literal > 0
    BY <1>1, <1>2, ProgressAssumption DEF P!ReadLiteral, Honest, HonestInv
  <2>2. /\ consumed' = [consumed EXCEPT ![s] = @ + 1]
        /\ hand' = [hand EXCEPT ![s] = TRUE]
        /\ unsent' = [unsent EXCEPT ![s] = P!SinksOf(s)]
        /\ UNCHANGED <<tx, rx, error, gpc, result, early, cpc, got, ended, verdict, queue>>
    BY <1>1, <1>2, <2>1 DEF P!ReadLiteral, P!Take, P!consumer
  <2> QED
    BY <1>1, <2>1, <2>2, TakeKeepsFine
<1>3. CASE P!ReadPipe(s)
  <2> DEFINE p == s - 1
  <2>1. s # 1 /\ p \in P!Pipe /\ p \in P!Stage /\ p < Stages /\ p + 1 = s
    BY <1>3, PlSets DEF P!ReadPipe
  <2>2. PipeFine(p) /\ GuestFine(p) /\ GuestFine(s)
    BY <2>1 DEF Fine
  <2>3. ~ P!AtEnd(p)
    <3> SUFFICES ASSUME P!AtEnd(p)
                 PROVE  FALSE
      OBVIOUS
    <3>1. WriterOf(p) = p /\ Reading(p) /\ Read(p) = consumed[s] /\ Len(queue[p]) = 0
      BY <1>1, <2>1, RightNone DEF WriterOf, Reading, Read, P!AtEnd
    <3>2. gpc[p] # "run"
      BY <2>2, <3>1 DEF PipeFine, P!AtEnd
    <3>3. result[p] = "ok"
      BY <2>1, <2>2, <3>2 DEF EofInv, GuestFine
    <3>4. Written(p) = Blocks
      BY <2>2, <3>1, <3>3, ProgressAssumption DEF GuestFine, Written
    <3> QED
      BY <1>1, <2>1, <2>2, <3>1, <3>4, ProgressAssumption DEF PipeFine, HonestInv
  <2>4. /\ P!HasChunk(p) /\ P!Take(s, Head(queue[p])) /\ queue' = [queue EXCEPT ![p] = Tail(@)]
        /\ UNCHANGED <<tx, rx, error, cpc, got, ended, verdict>>
    BY <1>3, <2>3 DEF P!ReadPipe, P!consumer
  <2>5. Head(queue[p]) = TRUE
    BY <2>2, <2>4, RightTail DEF P!HasChunk, PipeFine, Right
  <2>6. /\ consumed' = [consumed EXCEPT ![s] = @ + 1]
        /\ hand' = [hand EXCEPT ![s] = TRUE]
        /\ unsent' = [unsent EXCEPT ![s] = P!SinksOf(s)]
        /\ UNCHANGED <<gpc, result, early>>
    BY <1>1, <2>4, <2>5 DEF P!Take
  <2> QED
    BY <1>1, <2>1, <2>4, <2>6, TakeKeepsFine
<1> QED
  BY <1>2, <1>3

LEMMA WriteKeepsFine ==
    ASSUME PlShape, HonestInv, Fine, NEW s \in P!Stage, P!WritePipe(s)
    PROVE  Fine'
<1> USE DEF PlShape
<1>1. PICK p \in unsent[s] :
        /\ \/ rx[p] /\ queue' = [queue EXCEPT ![p] = Append(@, hand[s])]
              /\ unsent' = [unsent EXCEPT ![s] = @ \ {p}] /\ result' = result
           \/ ~ rx[p]
        /\ P!Running(s)
        /\ UNCHANGED <<tx, rx, error, gpc, cpc, got, ended, verdict, consumed, early, hand>>
  BY DEF P!WritePipe, P!Trap, P!consumer
<1>2. GuestFine(s) /\ p \in P!Pipe /\ WriterOf(p) = s
  BY SinksWriter DEF Fine, GuestFine
<1>3. PipeFine(p) /\ consumed[s] \in Nat /\ consumed[s] <= Blocks
  BY <1>2 DEF Fine, HonestInv, GuestFine
<1>4. Written(p) = consumed[s] - 1
  BY <1>2 DEF Written
<1>5. rx[p] /\ Reading(p)
  BY <1>3, <1>4, ProgressAssumption DEF PipeFine
<1>6. /\ queue' = [queue EXCEPT ![p] = Append(@, hand[s])]
      /\ unsent' = [unsent EXCEPT ![s] = @ \ {p}] /\ result' = result
  BY <1>1, <1>5
<1>7. ASSUME NEW u \in P!Stage
      PROVE  GuestFine(u)'
  <2>1. GuestFine(u) /\ unsent'[u] \subseteq unsent[u]
    BY <1>6 DEF Fine
  <2>2. result[u] = "ok" => unsent'[u] = {}
    BY <2>1 DEF GuestFine
  <2> QED
    BY <1>1, <1>6, <2>1, <2>2 DEF GuestFine, P!SinksOf
<1>8. ASSUME NEW q \in P!Pipe
      PROVE  PipeFine(q)'
  <2>1. PipeFine(q) /\ WriterOf(q) \in P!Stage /\ WriterOf(q)' = WriterOf(q)
    BY SinksWriter DEF Fine, WriterOf
  <2>2. (Reading(q)' <=> Reading(q)) /\ Read(q)' = Read(q)
    BY <1>1 DEF Reading, Read
  <2>3. CASE q = p
    <3>1. p \notin unsent'[s] /\ consumed'[s] = consumed[s]
      BY <1>1, <1>6
    <3>2. Written(p)' = consumed[s]
      BY <1>2, <1>3, <3>1, <2>1, <2>3 DEF Written
    <3>3. queue'[p] = Append(queue[p], hand[s])
      BY <1>2, <1>6
    <3>4. queue'[p] \in Rights /\ Len(queue'[p]) = Len(queue[p]) + 1 /\ Len(queue[p]) \in Nat
      BY <1>2, <1>3, <3>3, RightAppend DEF PipeFine, GuestFine
    <3>5. Read(p) \in Nat
      <4>1. CASE p < Stages
        BY <1>2, <4>1, PlSets DEF Read, HonestInv
      <4>2. CASE ~ (p < Stages)
        BY <1>2, <4>2, PlSets, RightNone DEF Read, Fine, ConsumerFine
      <4> QED
        BY <4>1, <4>2
    <3>6. Written(p)' = Len(queue'[p]) + Read(p)
      <4>1. consumed[s] - 1 = Len(queue[p]) + Read(p)
        BY <1>3, <1>4, <1>5 DEF PipeFine
      <4> QED
        BY <1>3, <3>2, <3>4, <3>5, <4>1
    <3> QED
      BY <1>1, <1>5, <2>1, <2>2, <2>3, <3>4, <3>6 DEF PipeFine
  <2>4. CASE q # p
    <3>1. queue'[q] = queue[q] /\ (q \in unsent'[WriterOf(q)] <=> q \in unsent[WriterOf(q)])
      BY <1>6, <2>1, <2>4
    <3>2. Written(q)' = Written(q)
      BY <1>1, <2>1, <3>1 DEF Written
    <3> QED
      BY <1>1, <2>1, <2>2, <3>1, <3>2 DEF PipeFine
  <2> QED
    BY <2>3, <2>4
<1> QED
  BY <1>1, <1>7, <1>8 DEF Fine, ConsumerFine

LEMMA ReturnKeepsFine ==
    ASSUME PlShape, HonestInv, Honest, Fine, NEW s \in P!Stage, P!Return(s)
    PROVE  Fine'
<1> USE DEF PlShape
<1>1. ~ P!Strays(s) /\ GuestFine(s)
  BY DEF P!Strays, Honest, Fine
<1>2. /\ unsent[s] = {} /\ consumed[s] = Blocks /\ result' = [result EXCEPT ![s] = "ok"]
      /\ UNCHANGED <<queue, tx, rx, error, gpc, cpc, got, ended, verdict, consumed, early, hand, unsent>>
  BY <1>1 DEF P!Return, P!consumer, GuestFine
<1>3. ASSUME NEW u \in P!Stage
      PROVE  GuestFine(u)'
  BY <1>2 DEF Fine, GuestFine, P!SinksOf
<1>4. ASSUME NEW q \in P!Pipe
      PROVE  PipeFine(q)'
  BY <1>2 DEF Fine, PipeFine, Written, Read, Reading, WriterOf
<1> QED
  BY <1>2, <1>3, <1>4 DEF Fine, ConsumerFine

LEMMA LeaveKeepsFine ==
    ASSUME PlShape, HonestInv, Fine, NEW s \in P!Stage, P!Leave(s)
    PROVE  Fine'
<1> USE DEF PlShape
<1>1. GuestFine(s) /\ gpc[s] = "run" /\ result[s] = "ok" /\ ~ early[s]
      /\ consumed[s] = Blocks
  BY DEF P!Leave, Fine, GuestFine
<1>2. /\ gpc'[s] # "run" /\ \A u \in P!Stage \ {s} : gpc'[u] = gpc[u]
      /\ \A u \in P!Stage : result'[u] = result[u]
      /\ \A p \in P!Pipe : /\ tx'[p] <=> tx[p] /\ p \notin P!SinksOf(s)
                           /\ rx'[p] <=> rx[p] /\ p # s - 1
                           /\ queue'[p] = IF p = s - 1 THEN <<>> ELSE queue[p]
      /\ UNCHANGED <<error, cpc, got, ended, verdict, consumed, early, hand, unsent>>
  BY <1>1 DEF P!Leave, P!consumer
<1>3. ASSUME NEW u \in P!Stage
      PROVE  GuestFine(u)'
  BY <1>2 DEF Fine, GuestFine, P!SinksOf
<1>4. ASSUME NEW q \in P!Pipe
      PROVE  PipeFine(q)'
  <2>1. /\ PipeFine(q) /\ WriterOf(q) \in P!Stage /\ WriterOf(q)' = WriterOf(q)
        /\ q \in P!SinksOf(s) <=> WriterOf(q) = s
        /\ q \in Nat /\ s \in Nat /\ s <= Stages
    BY SinksWriter, PlSets DEF Fine, WriterOf
  <2>2. Written(q)' = Written(q) /\ Read(q)' = Read(q)
    BY <1>2 DEF Written, Read, WriterOf
  <2>3. (tx'[q] <=> gpc'[WriterOf(q)] = "run") /\ (rx'[q] <=> rx[q] /\ q # s - 1)
    <3>1. /\ tx[q] <=> gpc[WriterOf(q)] = "run"
          /\ tx'[q] <=> tx[q] /\ q \notin P!SinksOf(s)
          /\ rx'[q] <=> rx[q] /\ q # s - 1
      BY <1>2, <2>1, Zenon DEF PipeFine
    <3>2. WriterOf(q) # s => gpc'[WriterOf(q)] = gpc[WriterOf(q)]
      BY <1>2, <2>1
    <3>3. gpc'[WriterOf(q)] = "run" <=> gpc[WriterOf(q)] = "run" /\ WriterOf(q) # s
      <4>1. CASE WriterOf(q) = s
        BY <1>2, <4>1
      <4>2. CASE WriterOf(q) # s
        BY <3>2, <4>2
      <4> QED
        BY <4>1, <4>2
    <3> QED
      BY <2>1, <3>1, <3>3
  <2>4. CASE q = s - 1
    <3>1. q < Stages /\ q + 1 = s
      BY <2>1, <2>4, ProgressAssumption
    <3>2. Reading(q) /\ ~ Reading(q)' /\ Read(q) = Blocks
      BY <1>1, <1>2, <3>1 DEF Reading, Read
    <3>3. Written(q) = Len(queue[q]) + Blocks /\ Len(queue[q]) \in Nat
      BY <2>1, <3>2, RightNone DEF PipeFine
    <3>4. GuestFine(WriterOf(q)) /\ consumed[WriterOf(q)] \in Nat
      BY <2>1 DEF Fine, HonestInv
    <3>5. Written(q) = Blocks
      BY <3>3, <3>4, ProgressAssumption DEF GuestFine, Written
    <3>6. queue'[q] = <<>> /\ error'[q] = error[q]
      BY <1>2, <2>4, Zenon
    <3>7. queue'[q] \in Rights /\ error'[q] = "none" /\ ~ rx'[q]
      BY <2>1, <2>3, <2>4, <3>6, RightNone DEF PipeFine
    <3> QED
      BY <2>1, <2>2, <2>3, <3>2, <3>5, <3>7 DEF PipeFine
  <2>5. CASE q # s - 1
    <3>1. Reading(q)' <=> Reading(q)
      BY <1>2, <2>1, <2>5, PlSets DEF Reading
    <3>2. queue'[q] = queue[q] /\ error'[q] = error[q] /\ (rx'[q] <=> rx[q])
      BY <1>2, <2>3, <2>5, Zenon
    <3> QED
      BY <2>1, <2>2, <2>3, <3>1, <3>2 DEF PipeFine
  <2> QED
    BY <2>4, <2>5
<1> QED
  BY <1>2, <1>3, <1>4 DEF Fine, ConsumerFine

LEMMA ConsumeKeepsFine ==
    ASSUME PlShape, EofInv, WholeInv, HonestInv, Fine, NEW c \in P!Consumer, P!Consume(c)
    PROVE  Fine'
<1> USE DEF PlShape
<1> DEFINE p == c - 1
<1>1. /\ p \in P!Pipe /\ p >= Stages /\ p + 1 = c /\ c \in Nat /\ p \in Nat /\ ~ (p < Stages)
      /\ WriterOf(p) = Stages /\ Stages \in P!Stage
  BY PlSets, ProgressAssumption DEF WriterOf
<1> HIDE DEF p
<1>2. PipeFine(p) /\ GuestFine(Stages) /\ ConsumerFine(c) /\ cpc[c] = "read"
  BY <1>1 DEF Fine, P!Consume
<1>3. Reading(p) /\ Read(p) = Len(got[c]) /\ Len(got[c]) \in Nat /\ Len(queue[p]) \in Nat
      /\ error[p] = "none"
  BY <1>1, <1>2, RightNone DEF Reading, Read, ConsumerFine, PipeFine
<1>4. UNCHANGED <<tx, error, gpc, result, consumed, early, hand, unsent, verdict>>
  BY DEF P!Consume, P!guest
<1>5. \A u \in P!Stage : GuestFine(u)'
  BY <1>4 DEF Fine, GuestFine, P!SinksOf
<1>6. \A q \in P!Pipe : Written(q)' = Written(q) /\ WriterOf(q)' = WriterOf(q)
  BY <1>4 DEF Written, WriterOf
<1>7. \A q \in P!Pipe \ {p} : q + 1 # c \/ q < Stages
  BY <1>1, PlSets
<1>8. CASE P!HasChunk(p) /\ got' = [got EXCEPT ![c] = Append(@, Head(queue[p]))]
           /\ queue' = [queue EXCEPT ![p] = Tail(@)] /\ UNCHANGED <<rx, cpc, ended>>
  <2>1. /\ Head(queue[p]) \in Right /\ queue'[p] \in Rights /\ Len(queue'[p]) = Len(queue[p]) - 1
    BY <1>1, <1>2, <1>8, RightTail DEF P!HasChunk, PipeFine
  <2>2. /\ got'[c] \in Rights /\ Len(got'[c]) = Len(got[c]) + 1
    BY <1>2, <1>8, <2>1, RightAppend DEF ConsumerFine
  <2>3. Read(p)' = Len(got'[c]) /\ Reading(p)'
    BY <1>1, <1>2, <1>8 DEF Read, Reading
  <2>4. PipeFine(p)'
    <3>1. Written(p) = Len(queue'[p]) + Len(got'[c])
      <4>1. Written(p) = Len(queue[p]) + Len(got[c])
        BY <1>2, <1>3 DEF PipeFine
      <4>2. Len(queue'[p]) = Len(queue[p]) - 1 /\ Len(got'[c]) = Len(got[c]) + 1
        BY <2>1, <2>2
      <4>3. Len(queue[p]) \in Nat /\ Len(got[c]) \in Nat
        BY <1>3
      <4>4. \A a, b \in Nat : a + b = (a - 1) + (b + 1)
        OBVIOUS
      <4>5. Len(queue[p]) + Len(got[c]) = (Len(queue[p]) - 1) + (Len(got[c]) + 1)
        BY <4>3, <4>4, Zenon
      <4> QED
        BY <4>1, <4>2, <4>5, Zenon
    <3>2. Written(p)' = Written(p) /\ WriterOf(p)' = WriterOf(p)
      BY <1>1, <1>6
    <3>3. rx[p] /\ (tx[p] <=> gpc[WriterOf(p)] = "run")
      BY <1>2, <1>3 DEF PipeFine
    <3> QED
      BY <1>3, <1>4, <1>8, <2>1, <2>3, <3>1, <3>2, <3>3 DEF PipeFine
  <2>5. ASSUME NEW q \in P!Pipe \ {p}
        PROVE  PipeFine(q)'
    <3>1. PipeFine(q) /\ queue'[q] = queue[q]
      BY <1>8 DEF Fine
    <3>2. Read(q)' = Read(q) /\ (Reading(q)' <=> Reading(q))
      BY <1>4, <1>7, <1>8, PlSets DEF Read, Reading
    <3> QED
      BY <1>4, <1>6, <1>8, <3>1, <3>2 DEF PipeFine
  <2>6. \A d \in P!Consumer : ConsumerFine(d)'
    BY <1>2, <1>8, <2>2 DEF Fine, ConsumerFine
  <2> QED
    BY <1>4, <1>5, <2>4, <2>5, <2>6 DEF Fine
<1>9. CASE P!AtEnd(p) /\ P!Stop(c, P!EndOfStream(got[c]))
  <2>1. gpc[Stages] # "run" /\ Len(queue[p]) = 0
    BY <1>1, <1>2, <1>9, RightNone DEF PipeFine, P!AtEnd
  <2>2. result[Stages] = "ok"
    BY <1>1, <1>2, <2>1 DEF EofInv, GuestFine
  <2>3. Written(p) = Blocks
    <3>1. consumed[Stages] = Blocks /\ p \notin unsent[Stages]
      BY <1>2, <2>2 DEF GuestFine
    <3> QED
      BY <1>1, <3>1, ProgressAssumption DEF Written
  <2>4. Len(got[c]) = Blocks
    BY <1>2, <1>3, <2>1, <2>3, ProgressAssumption DEF PipeFine
  <2>5. P!EndOfStream(got[c]) = "ok"
    BY <1>2, <2>4, RightWhole DEF ConsumerFine, P!EndOfStream
  <2>6. /\ cpc' = [cpc EXCEPT ![c] = "done"] /\ ended' = [ended EXCEPT ![c] = "ok"] /\ got' = got
        /\ rx' = [rx EXCEPT ![p] = FALSE] /\ queue' = [queue EXCEPT ![p] = <<>>]
    BY <1>9, <2>5 DEF P!Stop, p
  <2>7. PipeFine(p)'
    <3>1. ~ Reading(p)' /\ ~ rx'[p] /\ queue'[p] = <<>>
      BY <1>1, <2>6 DEF Reading
    <3> QED
      BY <1>1, <1>2, <1>4, <1>6, <2>3, <3>1, RightNone DEF PipeFine
  <2>8. ASSUME NEW q \in P!Pipe \ {p}
        PROVE  PipeFine(q)'
    <3>1. PipeFine(q) /\ queue'[q] = queue[q] /\ rx'[q] = rx[q]
      BY <2>6 DEF Fine
    <3>2. Read(q)' = Read(q) /\ (Reading(q)' <=> Reading(q))
      BY <1>4, <1>7, <2>6, PlSets DEF Read, Reading
    <3> QED
      BY <1>4, <1>6, <3>1, <3>2 DEF PipeFine
  <2>9. \A d \in P!Consumer : ConsumerFine(d)'
    BY <2>6 DEF Fine, ConsumerFine
  <2> QED
    BY <1>4, <1>5, <2>7, <2>8, <2>9 DEF Fine
<1> QED
  BY <1>3, <1>8, <1>9 DEF P!Consume, p

LEMMA OtherKeepsFine ==
    ASSUME PlShape, EofInv, WholeInv, HonestInv, Fine,
           P!Joiner \/ \E s \in P!Stage : P!Verdict(s) \/ P!Finish(s)
    PROVE  Fine'
<1> USE DEF PlShape
<1>1. ASSUME /\ \A u \in P!Stage : (gpc'[u] = "run" <=> gpc[u] = "run")
             /\ \A q \in P!Pipe : error'[q] = error[q]
             /\ UNCHANGED <<queue, tx, rx, result, consumed, early, hand, unsent, cpc, got, ended>>
             /\ verdict' = verdict \/ verdict' = "licensed"
      PROVE  Fine'
  <2>1. \A u \in P!Stage : GuestFine(u)'
    BY <1>1 DEF Fine, GuestFine, P!SinksOf
  <2>2. ASSUME NEW q \in P!Pipe
        PROVE  PipeFine(q)'
    <3>1. PipeFine(q) /\ WriterOf(q) \in P!Stage /\ WriterOf(q)' = WriterOf(q)
      BY SinksWriter DEF Fine, WriterOf
    <3>2. Read(q)' = Read(q) /\ (Reading(q)' <=> Reading(q)) /\ Written(q)' = Written(q)
      BY <1>1, <3>1, PlSets DEF Read, Reading, Written
    <3> QED
      BY <1>1, <3>1, <3>2 DEF PipeFine
  <2> QED
    BY <1>1, <2>1, <2>2 DEF Fine, ConsumerFine
<1>2. \A u \in P!Stage : gpc[u] # "run" => result[u] = "ok"
  BY DEF EofInv, Fine, GuestFine
<1>3. joined # "guest" => result[Stages] = "ok"
  BY <1>2, PlSets DEF EofInv
<1>4. ASSUME NEW s \in P!Stage, P!Verdict(s) \/ P!Finish(s)
      PROVE  Fine'
  <2>1. /\ \A u \in P!Stage : (gpc'[u] = "run" <=> gpc[u] = "run")
        /\ UNCHANGED <<queue, tx, rx, error, result, consumed, early, hand, unsent, cpc, got, ended, verdict>>
    BY <1>2, <1>4 DEF P!Verdict, P!Finish, P!consumer
  <2> QED
    BY <1>1, <2>1
<1>5. CASE P!JoinGuest \/ P!FinishOutputs
  BY <1>1, <1>5 DEF P!JoinGuest, P!FinishOutputs, P!guest, P!consumer
<1>6. CASE P!RecordVerdict
  <2>1. \A q \in P!Pipe : error'[q] = error[q]
    BY <1>3, <1>6 DEF P!RecordVerdict, P!Top
  <2> QED
    BY <1>1, <1>6, <2>1 DEF P!RecordVerdict, P!guest, P!consumer
<1>7. CASE P!Conclude
  <2>1. \A c \in P!Consumer : ended[c] = "ok"
    BY <1>7 DEF P!Conclude, Fine, ConsumerFine
  <2>2. P!Succeeded
    BY <1>3, <1>7, <2>1 DEF P!Succeeded, P!FirstFailure, P!Conclude, P!Top
  <2> QED
    BY <1>1, <1>7, <2>2 DEF P!Conclude, P!guest, P!consumer
<1> QED
  BY <1>4, <1>5, <1>6, <1>7 DEF P!Joiner

LEMMA HonestStep ==
    ASSUME PlShape, EofInv, WholeInv, HonestInv, [P!PLNext]_(P!plvars)
    PROVE  HonestInv'
<1>1. /\ literal' \in Nat /\ pipeFaults' \in Nat /\ consumed' \in [P!Stage -> Nat]
      /\ Honest' => Honest
  BY HonestBefore DEF HonestInv
<1> SUFFICES ASSUME Honest', Honest, Fine
             PROVE  Fine'
  BY <1>1 DEF HonestInv
<1>2. CASE UNCHANGED P!plvars
  BY <1>2 DEF P!plvars, P!guest, P!consumer, Fine, GuestFine, PipeFine, ConsumerFine, P!SinksOf,
              Written, Read, Reading, WriterOf
<1>3. ~ P!Faulty
  BY DEF P!Faulty, P!ReadLiteralFails, P!ConsumerFails, Honest
<1> QED
  BY <1>2, <1>3, ReadKeepsFine, WriteKeepsFine, ReturnKeepsFine, LeaveKeepsFine, ConsumeKeepsFine,
     OtherKeepsFine DEF P!PLNext, P!Guest

\* The invariant of an execution and what it means.
PlInv == PlShape /\ EofInv /\ WholeInv /\ HonestInv

LEMMA PlInvInit ==
    ASSUME P!PLInit
    PROVE  PlInv
BY PlShapeInit, HonestInit DEF PlInv

LEMMA PlInvStep ==
    ASSUME PlInv, [P!PLNext]_(P!plvars)
    PROVE  PlInv'
BY PlShapeStep, EofStep, WholeStep, HonestStep DEF PlInv

LEMMA PlInvSuffices ==
    ASSUME PlInv
    PROVE  P!LicensedOnlyIfTrue /\ P!NoCleanEofAfterFailure /\ P!HonestIsLicensed
<1>1. P!LicensedOnlyIfTrue
  BY DEF PlInv, WholeInv, P!LicensedOnlyIfTrue, P!Whole
<1>2. P!NoCleanEofAfterFailure
  BY DEF PlInv, EofInv, P!NoCleanEofAfterFailure, P!Top
<1>3. P!HonestIsLicensed
  BY DEF PlInv, HonestInv, Honest, Fine, P!HonestIsLicensed
<1> QED
  BY <1>1, <1>2, <1>3

----------------------------------------------------------------------------
(* The suite.                                                               *)

ExchangesInv == RpcInv /\ PlInv

LEMMA SuiteStarts == SuiteInit => R!RInit /\ P!PLInit
BY DEF SuiteInit, RRests, PRests

LEMMA SuiteSteps == [SuiteNext]_allVars => [R!RNext]_(R!rvars) /\ [P!PLNext]_(P!plvars)
<1> SUFFICES ASSUME [SuiteNext]_allVars
             PROVE  [R!RNext]_(R!rvars) /\ [P!PLNext]_(P!plvars)
  OBVIOUS
<1>1. UNCHANGED RVars => UNCHANGED R!rvars
  BY DEF RVars, R!rvars
<1>2. UNCHANGED PVars => UNCHANGED P!plvars
  BY DEF PVars, P!plvars, P!guest, P!consumer
<1>3. CASE RStep
  BY <1>2, <1>3 DEF RStep
<1>4. CASE PStep
  BY <1>1, <1>4 DEF PStep
<1>5. CASE GStep \/ SStep \/ BStep \/ IStep \/ UNCHANGED allVars
  <2>1. UNCHANGED RVars /\ UNCHANGED PVars
    BY <1>5 DEF GStep, SStep, BStep, IStep, allVars
  <2> QED
    BY <1>1, <1>2, <2>1
<1> QED
  BY <1>3, <1>4, <1>5 DEF SuiteNext

\* No transaction is run twice within its retention and nothing is answered
\* that was not asked (rpcwire.rs, transaction_tracker.rs); a recipe is
\* licensed only on whole and right outputs, no reader takes a failed producer
\* for a finished one, and honest guests are licensed (pipe.rs, stream.rs), for
\* any number of connections, guests, outputs and blocks.
THEOREM ExchangesStayHonest == ProgressSpec => []ExchangesHonest
<1>1. SuiteInit => ExchangesInv
  BY SuiteStarts, RpcInvInit, PlInvInit DEF ExchangesInv
<1>2. ExchangesInv /\ [SuiteNext]_allVars => ExchangesInv'
  BY SuiteSteps, RpcInvStep, PlInvStep DEF ExchangesInv
<1>3. ExchangesInv => ExchangesHonest
  BY RpcInvSuffices, PlInvSuffices DEF ExchangesInv, ExchangesHonest
<1> QED
  BY <1>1, <1>2, <1>3, PTL DEF ProgressSpec

=============================================================================
