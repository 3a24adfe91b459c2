-------------------------------- MODULE Rpc ---------------------------------
(****************************************************************************)
(* The RPC layer below the NFS export (datboi-nfs-server rpcwire.rs, tcp.rs *)
(* and transaction_tracker.rs): one task reads a connection, one assembles  *)
(* records, one task per record handles it, replies go through a channel to *)
(* the connection's task, and a table of transactions drops retransmissions.*)
(****************************************************************************)
EXTENDS Naturals, Sequences, FiniteSets, SequencesExt

CONSTANTS Conns,       \* connections, each from an address of its own
          Xids,        \* transaction ids
          Retention,   \* how long a completed transaction is remembered
          MaxSends,    \* bound: records a client sends on one connection
          MaxTime      \* bound: clock ticks

VARIABLES
    wire,     \* per connection: fragments on their way to the server, <<xid, last>>
    partial,  \* per connection: cur_fragment, the fragments of the record so far
    tasks,    \* handler tasks: [conn, xid, n, st], n the record's number
    txn,      \* TransactionTracker: pairs -> "InProgress" or the completion time
    chan,     \* per connection: replies queued, <<xid, good>>
    answers,  \* per connection: the xids answered on the socket
    open,     \* per connection: the socket is open
    sent,     \* history, per connection: the records sent
    ran,      \* history: the handler runs, [conn, xid, from, to]
    now

rvars == <<wire, partial, tasks, txn, chan, answers, open, sent, ran, now>>

Pairs == Conns \X Xids

TypeOK ==
    /\ \A c \in Conns : /\ \A i \in DOMAIN wire[c] : wire[c][i] \in Xids \X BOOLEAN
                        /\ \A i \in DOMAIN chan[c] : chan[c][i] \in Xids \X BOOLEAN
                        /\ Range(answers[c]) \subseteq Xids
    /\ open \in [Conns -> BOOLEAN]
    /\ DOMAIN txn \subseteq Pairs
    /\ \A p \in DOMAIN txn : txn[p] \in {<<"InProgress", 0>>} \cup ({"Completed"} \X (0 .. MaxTime))
    /\ now \in 0 .. MaxTime

\* A client sends a record, in one fragment or in two; it may repeat an xid it
\* has not seen answered.
Call(c, x) ==
    /\ open[c] /\ Len(sent[c]) < MaxSends
    /\ x \notin Range(answers[c])
    /\ sent' = [sent EXCEPT ![c] = Append(@, x)]
    /\ \/ wire' = [wire EXCEPT ![c] = Append(@, <<x, TRUE>>)]
       \/ wire' = [wire EXCEPT ![c] = @ \o <<<<x, FALSE>>, <<x, TRUE>>>>]
    /\ UNCHANGED <<partial, tasks, txn, chan, answers, open, ran, now>>

\* The number of the record whose last fragment is at the head of the wire.
Record(c) == Len(sent[c]) + 1 - Len(SelectSeq(wire[c], LAMBDA f : f[2]))

\* Mutant: the assembled record is not taken out of cur_fragment.
ReadFragmentKeeps(c) ==
    /\ wire[c] # <<>>
    /\ wire' = [wire EXCEPT ![c] = Tail(@)]
    /\ partial' = [partial EXCEPT ![c] = Append(@, Head(wire[c])[1])]
    /\ IF Head(wire[c])[2]
       THEN tasks' = tasks \cup {[conn |-> c, xid |-> Head(partial'[c]), n |-> Record(c), st |-> "new"]}
       ELSE UNCHANGED tasks
    /\ UNCHANGED <<txn, chan, answers, open, sent, ran, now>>

\* read_fragment and SocketMessageHandler::read: the last fragment completes
\* the record, which a new task handles.
ReadFragment(c) ==
    /\ wire[c] # <<>>
    /\ wire' = [wire EXCEPT ![c] = Tail(@)]
    /\ LET frags == Append(partial[c], Head(wire[c])[1]) IN
       IF Head(wire[c])[2]
       THEN /\ partial' = [partial EXCEPT ![c] = <<>>]
            /\ tasks' = tasks \cup {[conn |-> c, xid |-> Head(frags), n |-> Record(c),
                                     st |-> "new"]}
       ELSE partial' = [partial EXCEPT ![c] = frags] /\ UNCHANGED tasks
    /\ UNCHANGED <<txn, chan, answers, open, sent, ran, now>>

\* Mutant: a transaction under way ages like one that is completed.
HousekeptAll(t, age) ==
    LET keep == {p \in DOMAIN t : t[p][2] + age >= now} IN [p \in keep |-> t[p]]

\* housekeeping: completed transactions past the retention are forgotten.
Housekept(t, age) ==
    LET keep == {p \in DOMAIN t : t[p][1] = "InProgress" \/ t[p][2] + age >= now}
    IN [p \in keep |-> t[p]]

Becomes(t, st) == (tasks \ {t}) \cup {[t EXCEPT !.st = st]}

\* is_retransmission, one step under the tracker's lock: a known transaction is
\* dropped, a new one is in progress.
Admit(t) ==
    /\ t \in tasks /\ t.st = "new"
    /\ LET p == <<t.conn, t.xid>>
           kept == Housekept(txn, Retention)
       IN IF p \in DOMAIN kept
          THEN /\ tasks' = tasks \ {t} /\ txn' = kept /\ UNCHANGED ran
          ELSE /\ txn' = [q \in DOMAIN kept \cup {p} |-> IF q = p THEN <<"InProgress", 0>> ELSE kept[q]]
               /\ tasks' = Becomes(t, "run")
               /\ ran' = Append(ran, [conn |-> t.conn, xid |-> t.xid, from |-> now, to |-> MaxTime + 1])
    /\ UNCHANGED <<wire, partial, chan, answers, open, sent, now>>

\* A record that is not a call, or whose RPC version is not 2, never reaches
\* the tracker: it fails the connection or is answered.
Misformed(t, good) ==
    /\ t \in tasks /\ t.st = "new"
    /\ tasks' = tasks \ {t}
    /\ chan' = [chan EXCEPT ![t.conn] = Append(@, <<t.xid, good>>)]
    /\ UNCHANGED <<wire, partial, txn, answers, open, sent, ran, now>>

\* The handler returns, with a reply or with an error.
Return(t, good) ==
    /\ t \in tasks /\ t.st = "run"
    /\ tasks' = Becomes(t, IF good THEN "good" ELSE "bad")
    /\ UNCHANGED <<wire, partial, txn, chan, answers, open, sent, ran, now>>

\* mark_processed: the completion time starts the retention.
MarkProcessed(t) ==
    /\ t \in tasks /\ t.st \in {"good", "bad"}
    /\ txn' = IF <<t.conn, t.xid>> \in DOMAIN txn
              THEN [txn EXCEPT ![<<t.conn, t.xid>>] = <<"Completed", now>>] ELSE txn
    /\ ran' = [i \in DOMAIN ran |->
                 IF ran[i].conn = t.conn /\ ran[i].xid = t.xid /\ ran[i].to > MaxTime
                 THEN [ran[i] EXCEPT !.to = now] ELSE ran[i]]
    /\ tasks' = Becomes(t, IF t.st = "good" THEN "send" ELSE "fail")
    /\ UNCHANGED <<wire, partial, chan, answers, open, sent, now>>

\* The reply, or the error, goes into the connection's channel.
Queue(t) ==
    /\ t \in tasks /\ t.st \in {"send", "fail"}
    /\ tasks' = tasks \ {t}
    /\ chan' = [chan EXCEPT ![t.conn] = Append(@, <<t.xid, t.st = "send">>)]
    /\ UNCHANGED <<wire, partial, txn, answers, open, sent, ran, now>>

Shut(c) ==
    /\ open' = [open EXCEPT ![c] = FALSE]
    /\ wire' = [wire EXCEPT ![c] = <<>>] /\ partial' = [partial EXCEPT ![c] = <<>>]
    /\ chan' = [chan EXCEPT ![c] = <<>>]

\* process_socket's other arm: a reply is written, an error ends the connection.
Reply(c) ==
    /\ open[c] /\ chan[c] # <<>>
    /\ IF Head(chan[c])[2]
       THEN /\ answers' = [answers EXCEPT ![c] = Append(@, Head(chan[c])[1])]
            /\ chan' = [chan EXCEPT ![c] = Tail(@)]
            /\ UNCHANGED <<open, wire, partial>>
       ELSE Shut(c) /\ UNCHANGED answers
    /\ UNCHANGED <<tasks, txn, sent, ran, now>>

\* The client goes away; its tasks run on and answer nobody.
Disconnect(c) ==
    /\ open[c] /\ Shut(c)
    /\ UNCHANGED <<tasks, txn, answers, sent, ran, now>>

Tick ==
    /\ now < MaxTime /\ now' = now + 1
    /\ UNCHANGED <<wire, partial, tasks, txn, chan, answers, open, sent, ran>>

RInit ==
    /\ wire = [c \in Conns |-> <<>>] /\ partial = [c \in Conns |-> <<>>]
    /\ tasks = {} /\ txn = [p \in {} |-> 0] /\ chan = [c \in Conns |-> <<>>]
    /\ answers = [c \in Conns |-> <<>>] /\ open = [c \in Conns |-> TRUE]
    /\ sent = [c \in Conns |-> <<>>] /\ ran = <<>> /\ now = 0

TaskStep(t) ==
    \/ Admit(t) \/ MarkProcessed(t) \/ Queue(t)
    \/ \E good \in BOOLEAN : Misformed(t, good) \/ Return(t, good)

RNext ==
    \/ \E c \in Conns : ReadFragment(c) \/ Reply(c) \/ Disconnect(c) \/ \E x \in Xids : Call(c, x)
    \/ \E t \in tasks : TaskStep(t)
    \/ Tick

\* tokio runs every task that is ready, and the socket is read when readable.
RFair ==
    /\ \A c \in Conns : WF_rvars(ReadFragment(c)) /\ WF_rvars(Reply(c))
    /\ WF_rvars(\E t \in tasks : TaskStep(t))

RSpec == RInit /\ [][RNext]_rvars /\ RFair

(****************************************************************************)
(* Properties.                                                              *)
(****************************************************************************)
\* "detect retransmissions": a transaction is not run twice, neither while it
\* is under way, however long that takes, nor within the retention after it.
RunOnce ==
    \A i, j \in DOMAIN ran :
        i < j /\ ran[i].conn = ran[j].conn /\ ran[i].xid = ran[j].xid => ran[j].from > ran[i].to + Retention

\* How often x occurs in s.
Times(s, x) == Cardinality({i \in DOMAIN s : s[i] = x})

\* A record is answered for the transaction it carries: nothing is answered
\* that was not sent, and nothing more often than it was sent.
AnswersWereAsked == \A c \in Conns, x \in Xids : Times(answers[c], x) <= Times(sent[c], x)

\* Every call a connection carries is answered, or the connection ends: a
\* retransmission that is dropped still has the first one's answer to come.
CallsAnswered ==
    \A c \in Conns, x \in Xids :
        x \in Range(sent[c]) ~> (x \in Range(answers[c]) \/ ~open[c])
=============================================================================
