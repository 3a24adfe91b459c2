------------------------------ MODULE Pipeline ------------------------------
(****************************************************************************)
(* One execution of a recipe whose ops are wasm guests: a literal feeds a   *)
(* chain of guest threads, each writing into a bounded pipe, and the top    *)
(* guest's outputs are consumed by one thread each (put_with_obao when the  *)
(* recipe is replayed, verify_stream when it is licensed).  The question is *)
(* what verdict the recipe gets when a guest misbehaves, when the           *)
(* environment fails under one of the threads, and in which order the       *)
(* threads learn of it.                                                     *)
(*                                                                          *)
(* A block is TRUE when its bytes are the ones the recipe's claims fix.     *)
(****************************************************************************)
EXTENDS Naturals, Sequences, SequencesExt, FiniteSets

CONSTANTS Stages,      \* guest threads, the last one is the top of the plan
          Outputs,     \* outputs the top recipe claims
          Blocks,      \* blocks of every input and every output
          Depth,       \* DEPTH: chunks a pipe buffers
          Habits,      \* the guest behaviours to consider
          Modes,       \* "store" (replay) and "verify" (license)
          MaxPipeFaults \* bound: environment failures of an execution

Top == Stages
Stage == 1 .. Stages
Consumer == Stages + 1 .. Stages + Outputs
\* Pipe p < Top runs from guest p to guest p + 1; the others are the outputs.
Pipe == 1 .. Stages - 1 + Outputs
SinksOf(s) == IF s = Top THEN Top .. Stages - 1 + Outputs ELSE {s}

VARIABLES
    habit, mode,      \* the guests, and what the execution is for
    literal,          \* blocks the literal still holds
    queue, tx, rx,    \* per pipe: the channel, and whether its ends are open
    error, finished,  \* per pipe: State of the verdict side channel
    gpc, result,      \* per guest: its step, and what run_fueled returned
    consumed, early,  \* per guest: SourceProgress
    hand, unsent,     \* per guest: the block it read, the sinks still to get it
    cpc, got, ended,  \* per consumer: its step, what it read, how it ended
    joined,           \* the thread that joins: its step
    verdict,          \* what becomes of the recipe
    pipeFaults

guest == <<gpc, result, consumed, early, hand, unsent>>
consumer == <<cpc, got, ended>>
plvars == <<habit, mode, literal, queue, tx, rx, error, finished, guest, consumer, joined, verdict, pipeFaults>>

PLTypeOK ==
    /\ habit \in [Stage -> Habits] /\ mode \in Modes
    /\ literal \in 0 .. Blocks
    /\ queue \in [Pipe -> UNION {[1 .. n -> BOOLEAN] : n \in 0 .. Depth}]
    /\ tx \in [Pipe -> BOOLEAN] /\ rx \in [Pipe -> BOOLEAN] /\ finished \in [Pipe -> BOOLEAN]
    /\ error \in [Pipe -> {"none", "transient", "deterministic"}]
    /\ gpc \in [Stage -> {"run", "verdict", "finish", "done"}]
    /\ result \in [Stage -> {"none", "ok", "trap", "fuel", "short_input"}]
    /\ consumed \in [Stage -> 0 .. Blocks] /\ early \in [Stage -> BOOLEAN]
    /\ hand \in [Stage -> BOOLEAN] /\ unsent \in [Stage -> SUBSET Pipe]
    /\ cpc \in [Consumer -> {"read", "done"}] /\ got \in [Consumer -> Seq(BOOLEAN)]
    /\ ended \in [Consumer -> {"none", "ok", "mismatch", "transient", "deterministic"}]
    /\ joined \in {"guest", "fail", "finish", "consumers", "done"}
    /\ verdict \in {"none", "licensed", "poisoned", "retry"}
    /\ pipeFaults \in 0 .. MaxPipeFaults

PLInit ==
    /\ habit \in [Stage -> Habits] /\ mode \in Modes
    /\ literal \in {Blocks - 1, Blocks}   \* a literal may be torn
    /\ queue = [p \in Pipe |-> <<>>] /\ tx = [p \in Pipe |-> TRUE] /\ rx = [p \in Pipe |-> TRUE]
    /\ error = [p \in Pipe |-> "none"] /\ finished = [p \in Pipe |-> FALSE]
    /\ gpc = [s \in Stage |-> "run"] /\ result = [s \in Stage |-> "none"]
    /\ consumed = [s \in Stage |-> 0] /\ early = [s \in Stage |-> FALSE]
    /\ hand = [s \in Stage |-> TRUE] /\ unsent = [s \in Stage |-> {}]
    /\ cpc = [c \in Consumer |-> "read"] /\ got = [c \in Consumer |-> <<>>]
    /\ ended = [c \in Consumer |-> "none"]
    /\ joined = "guest" /\ verdict = "none" /\ pipeFaults = 0

(****************************************************************************)
(* The pipe.                                                                *)
(****************************************************************************)
\* Mutant: the reader takes the disconnect itself for the end.
AtEndUnsettled(p) == queue[p] = <<>> /\ ~tx[p]

\* PipeReader::read has a chunk for its caller.
HasChunk(p) == queue[p] # <<>>

\* It answers at a disconnected channel only once the verdict is recorded.
AtEnd(p) == queue[p] = <<>> /\ ~tx[p] /\ finished[p]

\* PipeHandle::fail and fail_deterministic keep the first error and finish.
FailWith(p, kind) ==
    /\ error' = [error EXCEPT ![p] = IF @ = "none" THEN kind ELSE @]
    /\ finished' = [finished EXCEPT ![p] = TRUE]

(****************************************************************************)
(* A guest, inside run_fueled.                                              *)
(****************************************************************************)
Running(s) == gpc[s] = "run" /\ result[s] = "none"

\* How a guest that misbehaves does so: after its first block, or in every
\* block it writes.
Strays(s) == consumed[s] >= 1 /\ unsent[s] = {} /\ habit[s] \in {"trapper", "short", "hungry"}
Wanting(s) == Running(s) /\ unsent[s] = {} /\ consumed[s] < Blocks /\ ~Strays(s) /\ ~early[s]

Take(s, block) ==
    /\ consumed' = [consumed EXCEPT ![s] = @ + 1]
    /\ hand' = [hand EXCEPT ![s] = block /\ habit[s] # "liar"]
    /\ unsent' = [unsent EXCEPT ![s] = SinksOf(s)]
    /\ UNCHANGED <<gpc, result, early>>

\* A host call that fails traps the guest.
Trap(s) == result' = [result EXCEPT ![s] = "trap"] /\ UNCHANGED <<gpc, consumed, early, hand, unsent>>

ReadLiteral(s) ==
    /\ s = 1 /\ Wanting(s)
    /\ IF literal > 0 THEN Take(s, TRUE) /\ literal' = literal - 1
       ELSE early' = [early EXCEPT ![s] = TRUE] /\ UNCHANGED <<gpc, result, consumed, hand, unsent, literal>>
    /\ UNCHANGED <<habit, mode, queue, tx, rx, error, finished, consumer, joined, verdict, pipeFaults>>

ReadLiteralFails(s) ==
    /\ s = 1 /\ Wanting(s) /\ pipeFaults < MaxPipeFaults
    /\ pipeFaults' = pipeFaults + 1 /\ Trap(s)
    /\ UNCHANGED <<habit, mode, literal, queue, tx, rx, error, finished, consumer, joined, verdict>>

ReadPipe(s) ==
    LET p == s - 1 IN
    /\ s > 1 /\ Wanting(s)
    /\ \/ HasChunk(p) /\ Take(s, Head(queue[p])) /\ queue' = [queue EXCEPT ![p] = Tail(@)]
       \/ AtEnd(p) /\ error[p] # "none" /\ Trap(s) /\ UNCHANGED queue
       \/ AtEnd(p) /\ error[p] = "none" /\ early' = [early EXCEPT ![s] = TRUE]
          /\ UNCHANGED <<gpc, result, consumed, hand, unsent, queue>>
    /\ UNCHANGED <<habit, mode, literal, tx, rx, error, finished, consumer, joined, verdict, pipeFaults>>

\* PipeWriter::write blocks on a full channel and breaks on a closed one.
WritePipe(s) ==
    /\ Running(s)
    /\ \E p \in unsent[s] :
        /\ \A q \in unsent[s] : p <= q
        /\ \/ rx[p] /\ Len(queue[p]) < Depth
              /\ queue' = [queue EXCEPT ![p] = Append(@, hand[s])]
              /\ unsent' = [unsent EXCEPT ![s] = @ \ {p}]
              /\ UNCHANGED <<gpc, result, consumed, early, hand>>
           \/ ~rx[p] /\ Trap(s) /\ UNCHANGED queue
    /\ UNCHANGED <<habit, mode, literal, tx, rx, error, finished, consumer, joined, verdict, pipeFaults>>

\* The guest returns, or traps or exhausts its fuel by itself.
Return(s) ==
    /\ Running(s) /\ unsent[s] = {}
    /\ Strays(s) \/ early[s] \/ consumed[s] = Blocks
    /\ result' = [result EXCEPT ![s] =
            IF Strays(s) /\ habit[s] = "trapper" THEN "trap"
            ELSE IF Strays(s) /\ habit[s] = "hungry" THEN "fuel" ELSE "ok"]
    /\ UNCHANGED <<habit, mode, literal, queue, tx, rx, error, finished, gpc, consumed, early, hand, unsent,
                   consumer, joined, verdict, pipeFaults>>

\* run_fueled ends: a source that ended early outranks the guest's outcome,
\* and the store's table goes, with it both pipe ends the guest held.
Leave(s) ==
    /\ gpc[s] = "run" /\ result[s] # "none"
    /\ gpc' = [gpc EXCEPT ![s] = IF s = Top THEN "done" ELSE "verdict"]
    /\ result' = [result EXCEPT ![s] = IF early[s] THEN "short_input" ELSE @]
    /\ tx' = [p \in Pipe |-> tx[p] /\ p \notin SinksOf(s)]
    /\ rx' = [p \in Pipe |-> rx[p] /\ p # s - 1]
    /\ queue' = [p \in Pipe |-> IF p = s - 1 THEN <<>> ELSE queue[p]]
    /\ UNCHANGED <<habit, mode, literal, error, finished, consumed, early, hand, unsent, consumer, joined,
                   verdict, pipeFaults>>

\* is_claim_failure, of what run_fueled returned.
ClaimFailure(r) == r = "trap"

\* Mutant: the finish guard is dropped on the path of a guest that succeeds.
FinishForgotten(s) ==
    /\ s # Top /\ gpc[s] = "finish"
    /\ gpc' = [gpc EXCEPT ![s] = "done"]
    /\ UNCHANGED <<habit, mode, literal, queue, tx, rx, error, finished, result, consumed, early, hand, unsent,
                   consumer, joined, verdict, pipeFaults>>

\* A guest below the top hands its verdict to its own pipe, then finishes it.
Verdict(s) ==
    /\ s # Top /\ gpc[s] = "verdict"
    /\ gpc' = [gpc EXCEPT ![s] = "finish"]
    /\ IF result[s] = "ok" THEN UNCHANGED <<error, finished>>
       ELSE FailWith(s, IF ClaimFailure(result[s]) THEN "deterministic" ELSE "transient")
    /\ UNCHANGED <<habit, mode, literal, queue, tx, rx, result, consumed, early, hand, unsent, consumer, joined,
                   verdict, pipeFaults>>

Finish(s) ==
    /\ s # Top /\ gpc[s] = "finish"
    /\ gpc' = [gpc EXCEPT ![s] = "done"]
    /\ finished' = [finished EXCEPT ![s] = TRUE]
    /\ UNCHANGED <<habit, mode, literal, queue, tx, rx, error, result, consumed, early, hand, unsent, consumer,
                   joined, verdict, pipeFaults>>

(****************************************************************************)
(* The consumers and the thread that joins.                                 *)
(****************************************************************************)
\* Mutant: only the length of the stream is compared with the claim.
WholeByLength(blocks) == Len(blocks) = Blocks

Whole(blocks) == blocks = [i \in 1 .. Blocks |-> TRUE]

\* What the stream's clean end amounts to: put_with_obao takes a short stream
\* for an i/o error of the outboard, verify_stream for a broken claim.
EndOfStream(blocks) ==
    IF Whole(blocks) THEN "ok"
    ELSE IF mode = "store" /\ Len(blocks) < Blocks THEN "transient" ELSE "mismatch"

Stop(c, how) ==
    /\ cpc' = [cpc EXCEPT ![c] = "done"] /\ ended' = [ended EXCEPT ![c] = how]
    /\ rx' = [rx EXCEPT ![c - 1] = FALSE] /\ queue' = [queue EXCEPT ![c - 1] = <<>>]
    /\ UNCHANGED got

Consume(c) ==
    LET p == c - 1 IN
    /\ cpc[c] = "read"
    /\ \/ HasChunk(p) /\ got' = [got EXCEPT ![c] = Append(@, Head(queue[p]))]
          /\ queue' = [queue EXCEPT ![p] = Tail(@)] /\ UNCHANGED <<rx, cpc, ended>>
       \/ AtEnd(p) /\ error[p] = "none" /\ Stop(c, EndOfStream(got[c]))
       \/ AtEnd(p) /\ error[p] # "none" /\ Stop(c, error[p])
    /\ UNCHANGED <<habit, mode, literal, tx, error, finished, guest, joined, verdict, pipeFaults>>

\* Mutant: the outputs get their verdict as soon as the guest has what it needs.
JoinGuestEarly ==
    /\ joined = "guest" /\ consumed[Top] = Blocks
    /\ joined' = "fail"
    /\ UNCHANGED <<habit, mode, literal, queue, tx, rx, error, finished, guest, consumer, verdict, pipeFaults>>

\* The disk fills up under put_with_obao.
ConsumerFails(c) ==
    /\ cpc[c] = "read" /\ HasChunk(c - 1) /\ mode = "store" /\ pipeFaults < MaxPipeFaults
    /\ pipeFaults' = pipeFaults + 1
    /\ Stop(c, "transient")
    /\ UNCHANGED <<habit, mode, literal, tx, error, finished, guest, joined, verdict>>

\* execute_with joins the guest, records its verdict on every output's pipe
\* and finishes them, then joins the consumers.
JoinGuest ==
    /\ joined = "guest" /\ gpc[Top] = "done"
    /\ joined' = "fail"
    /\ UNCHANGED <<habit, mode, literal, queue, tx, rx, error, finished, guest, consumer, verdict, pipeFaults>>

RecordVerdict ==
    /\ joined = "fail"
    /\ joined' = "finish"
    /\ error' = [p \in Pipe |-> IF p >= Top /\ result[Top] # "ok" THEN "transient" ELSE error[p]]
    /\ finished' = [p \in Pipe |-> finished[p] \/ (p >= Top /\ result[Top] # "ok")]
    /\ UNCHANGED <<habit, mode, literal, queue, tx, rx, guest, consumer, verdict, pipeFaults>>

FinishOutputs ==
    /\ joined = "finish"
    /\ joined' = "consumers"
    /\ finished' = [p \in Pipe |-> finished[p] \/ p >= Top]
    /\ UNCHANGED <<habit, mode, literal, queue, tx, rx, error, guest, consumer, verdict, pipeFaults>>

\* The first consumer that failed, in output order.
FirstFailure == {c \in Consumer : ended[c] # "ok" /\ \A d \in Consumer : d < c => ended[d] = "ok"}

\* replay and license: the guest's own error explains better than a
\* consumer's; a claim failure poisons the recipe.
Indicted ==
    IF result[Top] # "ok" THEN ClaimFailure(result[Top])
    ELSE \E c \in FirstFailure : ended[c] \in {"mismatch", "deterministic"}

Succeeded == result[Top] = "ok" /\ FirstFailure = {}

Conclude ==
    /\ joined = "consumers" /\ \A c \in Consumer : cpc[c] = "done"
    /\ joined' = "done"
    /\ verdict' = IF Succeeded THEN "licensed" ELSE IF Indicted THEN "poisoned" ELSE "retry"
    /\ UNCHANGED <<habit, mode, literal, queue, tx, rx, error, finished, guest, consumer, pipeFaults>>

Guest(s) == ReadLiteral(s) \/ ReadPipe(s) \/ WritePipe(s) \/ Return(s) \/ Leave(s) \/ Verdict(s) \/ Finish(s)
Faulty == (\E s \in Stage : ReadLiteralFails(s)) \/ (\E c \in Consumer : ConsumerFails(c))
Joiner == JoinGuest \/ RecordVerdict \/ FinishOutputs \/ Conclude

PLNext == (\E s \in Stage : Guest(s)) \/ (\E c \in Consumer : Consume(c)) \/ Joiner \/ Faulty

\* Every thread of the execution is a thread of its own that the operating
\* system schedules; nothing makes the environment fail.
PLFair ==
    /\ \A s \in Stage : WF_plvars(Guest(s))
    /\ \A c \in Consumer : WF_plvars(Consume(c))
    /\ WF_plvars(Joiner)

PLSpec == PLInit /\ [][PLNext]_plvars /\ PLFair

(****************************************************************************)
(* Properties.                                                              *)
(****************************************************************************)
Dishonest == {"liar", "trapper", "short"}

\* A recipe is licensed only on bytes that met its claim: every output that
\* execute_with's consumers accepted is whole and right, whatever the guests
\* did and in whatever order the threads saw each other end.
LicensedOnlyIfTrue ==
    verdict = "licensed" => \A c \in Consumer : got[c] = [i \in 1 .. Blocks |-> TRUE]

\* A reader never mistakes a failed producer for a finished one (the race
\* PipeReader::read closes by waiting for the verdict): where a guest took a
\* clean end from the pipe below it, the guest below returned without error.
NoCleanEofAfterFailure ==
    /\ \A s \in Stage \ {1} : early[s] => result[s - 1] = "ok"
    /\ \A c \in Consumer : ended[c] \in {"ok", "mismatch"} => result[Top] = "ok"

\* Nobody is accused without a cause: honest guests over a whole literal, in an
\* environment that holds, are licensed, in whatever order the guests, the
\* consumers and the joining thread get to run and to see each other end.
HonestIsLicensed ==
    /\ verdict # "none" /\ pipeFaults = 0
    /\ literal + consumed[1] = Blocks /\ \A s \in Stage : habit[s] = "honest"
    => verdict = "licensed"

\* Every execution ends with a verdict: no thread waits for ever at a full
\* pipe, at an empty one or for a verdict, whichever thread died first.
ExecutionEnds == <>(verdict # "none")

\* The intent stated at is_claim_failure and in D126: a failure of the
\* environment, or a fuel budget that was too small, is retried and never
\* indicts the claim.
EnvironmentNeverPoisons ==
    verdict = "poisoned" => \E s \in Stage : habit[s] \in Dishonest
=============================================================================
