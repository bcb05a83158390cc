--------------------------- MODULE ShellPipeline ---------------------------
(***************************************************************************)
(* One pipeline of the runtime's shell (shell/new_executor.rs), from its   *)
(* parsed stages to its result.  When every stage is a plain command the   *)
(* stages run together, joined by bounded pipes; otherwise one after the   *)
(* other, each by execute_simple, which collects all of its output before  *)
(* the next one starts.  Both ways end in the same place: a window of      *)
(* stages with a pipe before, between and after them, a future per stage,  *)
(* and one per pipe that is drained, polled in turn by `join'.             *)
(*                                                                         *)
(* The unit of data is a line: the bytes within one never matter here,     *)
(* except that a line may not be UTF-8 (Raw).  A write puts one line into  *)
(* the pipe per step, so Capacity stands for PIPE_CAPACITY and Chunk for   *)
(* what a read takes at most.  Of the two hundred commands six are told    *)
(* apart, by what they do with their three pipes: cat passes on what it    *)
(* reads, head stops early, sort reads to the end before it writes, yes    *)
(* never stops by itself, seq does not read, fail only complains.          *)
(***************************************************************************)
EXTENDS Integers, SequencesExt

CONSTANTS Pipelines,  \* what was parsed: non-empty sequences of stages
          Inputs,     \* initial_stdin: sequences of lines
          MaxStages,  \* bound on their length
          Capacity,   \* PIPE_CAPACITY
          Chunk,      \* size of the buffer a command reads into
          MaxYes      \* bound on the lines of yes

Kinds    == {"plain", "redirected", "unknown", "bad"}
Commands == {"cat", "head", "sort", "yes", "seq", "fail"}

ASSUME ConstantsAssumption ==
  /\ MaxStages \in Nat /\ Capacity \in Nat \ {0} /\ Chunk \in Nat \ {0} /\ MaxYes \in Nat
  /\ \A p \in Pipelines : /\ p \in Seq([does: Commands, n: Nat, kind: Kinds])
                          /\ p # <<>> /\ Len(p) <= MaxStages
  /\ Inputs \subseteq Seq(Int)

VARIABLES
  pipeline, input,   \* chosen at the start
  phase,             \* prepare, next, feed, run, done
  streaming,         \* the stages run together
  at,                \* the stage being prepared, or run alone
  feed,              \* what has still to be written to the first stdin
  pipe,              \* pipe[i] is between stage i and stage i + 1
  err,               \* the stderr pipe of each stage
  stage,             \* the future of each stage
  said,              \* lines of stderr collected, per stage
  out,               \* what the drain of the last stdout has collected
  file,              \* what a redirected stage left in its file
  code,              \* exit code of each stage, of the result in the end
  subs               \* how often the substitutions of a stage were executed

data == <<feed, pipe, err, stage, said, out, file, code>>
vars == <<pipeline, input, phase, streaming, at, data, subs>>

Raw      == 0      \* a line that is not UTF-8
Replaced == 100    \* the same line after from_utf8_lossy
Yes      == 50

N      == Len(pipeline)
Stages == 1..N
FirstStage  == IF streaming THEN 1 ELSE at
LastStage   == IF streaming THEN N ELSE at
Window == FirstStage..LastStage

Does(i) == pipeline[i].does
Kind(i) == pipeline[i].kind

NewPipe == [lines |-> <<>>, reading |-> TRUE, writing |-> TRUE]
NoPipe  == [lines |-> <<>>, reading |-> FALSE, writing |-> FALSE]

\* seq is the one command whose lines are all known when it starts.
NewStage(c) == [pc |-> "created", made |-> 0,
                held |-> IF c.does = "seq" THEN [j \in 1..c.n |-> j] ELSE <<>>]

Lossy(s) == [j \in DOMAIN s |-> IF s[j] = Raw THEN Replaced ELSE s[j]]

-----------------------------------------------------------------------------
Line     == Int
PipeType == [lines: Seq(Line), reading: BOOLEAN, writing: BOOLEAN]

(***************************************************************************)
(* Type invariant: no pipe holds more than its capacity.                   *)
(***************************************************************************)
TypeOK ==
  /\ N \in 1..MaxStages
  /\ phase \in {"prepare", "next", "feed", "run", "done"}
  /\ streaming \in BOOLEAN
  /\ at \in Stages
  /\ feed \in Seq(Line) /\ out \in Seq(Line)
  /\ pipe \in [0..N -> PipeType] /\ err \in [Stages -> PipeType]
  /\ \A i \in 0..N : Len(pipe[i].lines) <= Capacity
  /\ stage \in [Stages -> [pc: {"created", "reading", "writing", "ended"},
                           made: Nat, held: Seq(Line)]]
  /\ said \in [Stages -> Nat] /\ subs \in [Stages -> Nat]
  /\ file \in [Stages -> Seq(Line)]
  /\ code \in [0..N -> Nat]

Init ==
  /\ pipeline \in Pipelines /\ input \in Inputs
  /\ phase = IF N = 1 THEN "next" ELSE "prepare"
  /\ streaming = FALSE
  /\ at = 1
  /\ feed = input
  /\ pipe = [i \in 0..N |-> NoPipe]
  /\ err = [i \in Stages |-> NoPipe]
  /\ stage = [i \in Stages |-> NewStage(pipeline[i])]
  /\ said = [i \in Stages |-> 0]
  /\ out = <<>>
  /\ file = [i \in Stages |-> <<>>]
  /\ code = [i \in 0..N |-> 0]
  /\ subs = [i \in Stages |-> 0]

-----------------------------------------------------------------------------
(***************************************************************************)
(* The pipes of a window of stages; the first stdin is written before any  *)
(* future is polled.                                                       *)
(***************************************************************************)
Open(first, last) ==
  /\ pipe' = [i \in 0..N |-> IF i \in (first - 1)..last THEN NewPipe ELSE pipe[i]]
  /\ err' = [i \in Stages |-> IF i \in first..last THEN NewPipe ELSE err[i]]
  /\ phase' = "feed"
  /\ UNCHANGED <<feed, stage, said, out, file, code>>

Expanded == subs' = [subs EXCEPT ![at] = @ + 1]

FallBack == phase' = "next" /\ at' = 1 /\ UNCHANGED <<streaming, data>>

\* Mutant: the redirections are looked at after the expansion.
Refused_Late == Kind(at) \in {"redirected", "unknown"} /\ Expanded /\ FallBack

\* A redirection sends the pipeline to the sequential way before the stage is
\* expanded, a name that is no shell command after it.
Refused ==
  /\ \/ Kind(at) = "redirected" /\ UNCHANGED subs
     \/ Kind(at) = "unknown" /\ Expanded
  /\ FallBack

\* The expansion of a stage fails, and with it the pipeline.
Aborted ==
  /\ Kind(at) = "bad"
  /\ phase' = "done"
  /\ code' = [code EXCEPT ![0] = 1]
  /\ said' = [said EXCEPT ![at] = 1]
  /\ UNCHANGED <<streaming, at, feed, pipe, err, stage, out, file, subs>>

Prepared ==
  /\ Kind(at) = "plain"
  /\ Expanded
  /\ IF at < N
     THEN at' = at + 1 /\ UNCHANGED <<phase, streaming, data>>
     ELSE streaming' = TRUE /\ Open(1, N) /\ UNCHANGED at

\* Prepare the stages one by one for running together.
try_prepare_streaming_pipeline ==
  /\ phase = "prepare"
  /\ UNCHANGED <<pipeline, input>>
  /\ Refused \/ Aborted \/ Prepared

(***************************************************************************)
(* The sequential way goes on with what a stage gave: `text', which is a   *)
(* string by now.                                                          *)
(***************************************************************************)
Gave(text, c) ==
  /\ code' = [code EXCEPT ![at] = c, ![0] = c]
  /\ IF at < N
     THEN phase' = "next" /\ at' = at + 1 /\ feed' = text /\ out' = <<>>
     ELSE phase' = "done" /\ at' = at /\ feed' = <<>> /\ out' = text
  /\ UNCHANGED <<pipeline, input, streaming, pipe, err, stage>>

\* A stage run alone: it fails before it has pipes, or gets three of them.
execute_simple ==
  /\ phase = "next"
  /\ \/ /\ Kind(at) = "bad"
        /\ said' = [said EXCEPT ![at] = 1]
        /\ Gave(<<>>, 1) /\ UNCHANGED <<file, subs>>
     \/ /\ Kind(at) = "unknown"
        /\ Expanded
        /\ said' = [said EXCEPT ![at] = 1]
        /\ Gave(<<>>, 127) /\ UNCHANGED file
     \/ /\ Kind(at) \in {"plain", "redirected"}
        /\ Expanded
        /\ Open(at, at)
        /\ UNCHANGED <<pipeline, input, streaming, at>>

\* stdin_writer.write_all(&data), then the writer is dropped.
write_stdin ==
  /\ phase = "feed"
  /\ LET in == pipe[FirstStage - 1] IN
     \/ /\ feed # <<>>
        /\ Len(in.lines) < Capacity
        /\ pipe' = [pipe EXCEPT ![FirstStage - 1].lines = Append(@, Head(feed))]
        /\ feed' = Tail(feed)
        /\ UNCHANGED phase
     \/ /\ feed = <<>>
        /\ pipe' = [pipe EXCEPT ![FirstStage - 1].writing = FALSE]
        /\ phase' = "run"
        /\ UNCHANGED feed
  /\ UNCHANGED <<pipeline, input, streaming, at, err, stage, said, out, file, code, subs>>

-----------------------------------------------------------------------------
(***************************************************************************)
(* The futures of the stages.  A stage that ends drops its three pipes; a  *)
(* write to a pipe that is not read any more fails.                        *)
(***************************************************************************)
Runs(i, pcs) == phase = "run" /\ i \in Window /\ stage[i].pc \in pcs

OnlyStages == UNCHANGED <<pipeline, input, phase, streaming, at, feed, said,
                          out, file, subs>>

\* Mutant: a write never waits.
Room_Unbounded(p) == p.reading

Room(p) == p.reading /\ Len(p.lines) < Capacity

Put(p, line) == [p EXCEPT !.lines = Append(@, line)]

\* Mutant: the reader of a stage that has ended is kept.
Ends_KeepsReader(i, c) ==
  /\ stage' = [stage EXCEPT ![i].pc = "ended", ![i].held = <<>>]
  /\ code' = [code EXCEPT ![i] = c]
  /\ pipe' = [pipe EXCEPT ![i].writing = FALSE]
  /\ err' = [err EXCEPT ![i].writing = FALSE]
  /\ OnlyStages

Ends(i, c) ==
  /\ stage' = [stage EXCEPT ![i].pc = "ended", ![i].held = <<>>]
  /\ code' = [code EXCEPT ![i] = c]
  /\ pipe' = [pipe EXCEPT ![i - 1].reading = FALSE, ![i].writing = FALSE]
  /\ err' = [err EXCEPT ![i].writing = FALSE]
  /\ OnlyStages

\* The call of cmd_fn: a command that takes no stdin drops it here.
starts(i) ==
  /\ Runs(i, {"created"})
  /\ LET reads == Does(i) \in {"cat", "head", "sort"} IN
     /\ stage' = [stage EXCEPT ![i].pc = IF reads THEN "reading" ELSE "writing"]
     /\ pipe' = IF Does(i) \in {"yes", "seq"}
                THEN [pipe EXCEPT ![i - 1].reading = FALSE]
                ELSE pipe
  /\ UNCHANGED <<err, code>> /\ OnlyStages

\* Take up to Chunk lines of what there is.
Takes(i) ==
  LET in == pipe[i - 1] IN
  \E k \in 1..Min({Chunk, Len(in.lines)}) :
    /\ pipe' = [pipe EXCEPT ![i - 1].lines = SubSeq(@, k + 1, Len(@))]
    /\ stage' = [stage EXCEPT ![i].held = @ \o SubSeq(in.lines, 1, k)]
    /\ UNCHANGED <<err, code>> /\ OnlyStages

AtEnd(i) == pipe[i - 1].lines = <<>> /\ ~pipe[i - 1].writing

\* Write the first of the lines held.
Passes(i) ==
  /\ Room(pipe[i])
  /\ pipe' = [pipe EXCEPT ![i] = Put(@, Head(stage[i].held))]
  /\ stage' = [stage EXCEPT ![i].held = Tail(@), ![i].made = @ + 1]
  /\ UNCHANGED <<err, code>> /\ OnlyStages

\* Write on, whether or not somebody reads: the result of write_all is dropped.
Insists(i) ==
  /\ stage[i].held # <<>>
  /\ IF pipe[i].reading
     THEN Passes(i)
     ELSE /\ stage' = [stage EXCEPT ![i].held = Tail(@)]
          /\ UNCHANGED <<pipe, err, code>> /\ OnlyStages

\* cat without files: bytes from stdin to stdout until either is closed.
cmd_cat(i) ==
  /\ Does(i) = "cat" /\ Runs(i, {"reading"})
  /\ \/ stage[i].held = <<>> /\ Takes(i)
     \/ stage[i].held = <<>> /\ AtEnd(i) /\ Ends(i, 0)
     \/ stage[i].held # <<>> /\ Passes(i)
     \/ stage[i].held # <<>> /\ ~pipe[i].reading /\ Ends(i, 0)

EnoughWritten(i) == stage[i].made = pipeline[i].n

\* head reads a buffer ahead, stops after n lines, at a line it cannot decode,
\* or when nobody reads what it writes.
cmd_head(i) ==
  /\ Does(i) = "head" /\ Runs(i, {"reading"})
  /\ \/ EnoughWritten(i) /\ Ends(i, 0)
     \/ /\ ~EnoughWritten(i)
        /\ \/ stage[i].held = <<>> /\ Takes(i)
           \/ stage[i].held = <<>> /\ AtEnd(i) /\ Ends(i, 0)
           \/ /\ stage[i].held # <<>>
              /\ \/ Head(stage[i].held) = Raw /\ Ends(i, 0)
                 \/ Head(stage[i].held) # Raw /\ Passes(i)
                 \/ ~pipe[i].reading /\ Ends(i, 0)

\* The lines before the first one that cannot be decoded.
Decoded(s) == LET k == SelectInSeq(s, LAMBDA l : l = Raw)
              IN  IF k = 0 THEN s ELSE SubSeq(s, 1, k - 1)

\* lines.sort_by: ascending, lines that are equal in the order they came in.
Sorted(s) ==
  LET rank(i) == Cardinality({j \in DOMAIN s : s[j] < s[i] \/ (s[j] = s[i] /\ j <= i)})
  IN  [r \in DOMAIN s |-> s[CHOOSE i \in DOMAIN s : rank(i) = r]]

\* sort reads until the end, or a line it cannot decode, drops its stdin, then
\* writes.
cmd_sort(i) ==
  /\ Does(i) = "sort"
  /\ \/ /\ Runs(i, {"reading"})
        /\ LET text == Decoded(stage[i].held) IN
           \/ text = stage[i].held /\ Takes(i)
           \/ /\ text # stage[i].held \/ AtEnd(i)
              /\ stage' = [stage EXCEPT ![i].pc = "writing",
                                        ![i].held = Sorted(text)]
              /\ pipe' = [pipe EXCEPT ![i - 1].reading = FALSE]
              /\ UNCHANGED <<err, code>> /\ OnlyStages
     \/ Runs(i, {"writing"}) /\ Insists(i)
     \/ Runs(i, {"writing"}) /\ stage[i].held = <<>> /\ Ends(i, 0)

\* yes writes until a write fails; with which of two errors is the pipe's affair.
cmd_yes(i) ==
  /\ Does(i) = "yes" /\ Runs(i, {"writing"})
  /\ \/ /\ stage[i].made < MaxYes
        /\ Room(pipe[i])
        /\ pipe' = [pipe EXCEPT ![i] = Put(@, Yes)]
        /\ stage' = [stage EXCEPT ![i].made = @ + 1]
        /\ UNCHANGED <<err, code>> /\ OnlyStages
     \/ ~pipe[i].reading /\ \E c \in {0, 1} : Ends(i, c)

cmd_seq(i) ==
  /\ Does(i) = "seq" /\ Runs(i, {"writing"})
  /\ \/ Insists(i)
     \/ stage[i].held = <<>> /\ Ends(i, 0)

\* A command that fails, like cat of a missing file: a message, and code 1.
cmd_fail(i) ==
  /\ Does(i) = "fail" /\ Runs(i, {"writing"})
  /\ \/ /\ stage[i].made = 0
        /\ err' = [err EXCEPT ![i] = Put(@, Yes)]
        /\ stage' = [stage EXCEPT ![i].made = 1]
        /\ UNCHANGED <<pipe, code>> /\ OnlyStages
     \/ stage[i].made = 1 /\ Ends(i, 1)

Stage(i) ==
  /\ i \in Stages
  /\ \/ starts(i) \/ cmd_cat(i) \/ cmd_head(i) \/ cmd_sort(i)
     \/ cmd_yes(i) \/ cmd_seq(i) \/ cmd_fail(i)

-----------------------------------------------------------------------------
(***************************************************************************)
(* The drains run beside the stages: the stderr of each stage, and the     *)
(* stdout of the last one.                                                 *)
(***************************************************************************)
drain_stdout ==
  /\ phase = "run"
  /\ pipe[LastStage].lines # <<>>
  /\ out' = Append(out, Head(pipe[LastStage].lines))
  /\ pipe' = [pipe EXCEPT ![LastStage].lines = Tail(@)]
  /\ UNCHANGED <<pipeline, input, phase, streaming, at, feed, err, stage, said,
                 file, code, subs>>

drain_stderr(i) ==
  /\ phase = "run" /\ i \in Window
  /\ err[i].lines # <<>>
  /\ said' = [said EXCEPT ![i] = @ + 1]
  /\ err' = [err EXCEPT ![i].lines = Tail(@)]
  /\ UNCHANGED <<pipeline, input, phase, streaming, at, feed, pipe, stage, out,
                 file, code, subs>>

Finished(p) == p.lines = <<>> /\ ~p.writing

\* Mutant: only the stages are waited for.
Joined_StagesOnly == \A i \in Window : stage[i].pc = "ended"

\* join: every stage has ended, every drain is at its end.
Joined ==
  /\ \A i \in Window : stage[i].pc = "ended" /\ Finished(err[i])
  /\ Finished(pipe[LastStage])

\* What the drain collected becomes a string, which a redirection takes away.
execute_pipeline ==
  /\ phase = "run" /\ Joined
  /\ UNCHANGED <<said, subs>>
  /\ \/ /\ streaming
        /\ phase' = "done"
        /\ out' = Lossy(out)
        /\ code' = [code EXCEPT ![0] = code[N]]
        /\ UNCHANGED <<pipeline, input, streaming, at, feed, pipe, err, stage, file>>
     \/ /\ ~streaming
        /\ IF Kind(at) = "redirected"
           THEN /\ file' = [file EXCEPT ![at] = Lossy(out)]
                /\ Gave(<<>>, code[at])
           ELSE Gave(Lossy(out), code[at]) /\ UNCHANGED file

Main == try_prepare_streaming_pipeline \/ execute_simple \/ write_stdin \/ execute_pipeline

Next ==
  \/ Main
  \/ \E i \in Stages : Stage(i) \/ drain_stderr(i)
  \/ drain_stdout

\* join polls each of its futures again when one was woken.
Fairness ==
  /\ WF_vars(Main) /\ WF_vars(drain_stdout)
  /\ \A i \in 1..MaxStages : WF_vars(Stage(i)) /\ WF_vars(drain_stderr(i))

Spec == Init /\ [][Next]_vars /\ Fairness

-----------------------------------------------------------------------------
(***************************************************************************)
(* What the stages mean, each as a function of the whole text it reads: a  *)
(* text, and whether it ends.                                              *)
(***************************************************************************)
Ended(text) == [text |-> text, ends |-> TRUE]
Forever     == [text |-> [j \in 1..(2 * MaxYes) |-> Yes], ends |-> FALSE]

Gives(c, in) ==
  LET good   == Decoded(in.text)
      upto   == Min({c.n, Len(good)})
      breaks == good # in.text
  IN IF c.kind \in {"unknown", "bad"} THEN Ended(<<>>)
     ELSE CASE c.does = "cat"  -> in
            [] c.does = "head" -> [text |-> SubSeq(good, 1, upto),
                                   ends |-> in.ends \/ breaks \/ upto = c.n]
            [] c.does = "sort" -> IF in.ends \/ breaks
                                  THEN Ended(Sorted(good))
                                  ELSE [text |-> <<>>, ends |-> FALSE]
            [] c.does = "yes"  -> Forever
            [] c.does = "seq"  -> Ended([j \in 1..c.n |-> j])
            [] OTHER           -> Ended(<<>>)

Together == N > 1 /\ \A i \in Stages : Kind(i) = "plain"

\* The first stage that is not plain is one whose expansion fails.
Fails == /\ N > 1
         /\ \E i \in Stages : /\ Kind(i) = "bad"
                              /\ \A j \in 1..(i - 1) : Kind(j) = "plain"

\* What stage k reads, when `given' is what the stage before it writes.
Arrives(k, given) ==
  IF Together \/ k = 1 THEN given
  ELSE IF Kind(k - 1) = "redirected" THEN Ended(<<>>)
  ELSE [given EXCEPT !.text = Lossy(@)]

Meaning[k \in 0..N] ==
  IF k = 0 THEN Ended(input) ELSE Gives(pipeline[k], Arrives(k, Meaning[k - 1]))

Complains(i) == Kind(i) \in {"unknown", "bad"} \/ Does(i) = "fail"

(***************************************************************************)
(* Through every interleaving of stages and drains, with every pipe full   *)
(* or dropped early, what comes out at the end is a beginning of the text  *)
(* the pipeline means: nothing is lost, doubled or out of order.           *)
(***************************************************************************)
OutputInOrder ==
  phase = "run" => IsPrefix(out \o pipe[LastStage].lines, Meaning[LastStage].text)

(***************************************************************************)
(* The result has all of the output, all that the stages complained of,    *)
(* and what a redirection took away is in its file.                        *)
(***************************************************************************)
ResultIsWhole ==
  /\ OutputInOrder
  /\ phase = "done" /\ ~Fails =>
    /\ out = IF Kind(N) = "redirected" THEN <<>> ELSE Lossy(Meaning[N].text)
    /\ Meaning[N].ends
    /\ \A i \in Stages :
         /\ said[i] = IF Complains(i) THEN 1 ELSE 0
         /\ Kind(i) = "redirected" => file[i] = Lossy(Meaning[i].text)

(***************************************************************************)
(* A substitution that is executed twice, and has its effects twice, is in *)
(* a stage that was prepared before one that cannot run with the others:   *)
(* nowhere else.                                                           *)
(***************************************************************************)
TwiceOnlyBeforeFallBack ==
  \A i \in Stages :
    /\ subs[i] <= 2
    /\ subs[i] = 2 =>
         \E j \in i..N : /\ Kind(j) \in {"redirected", "unknown"}
                         /\ \A k \in i..(j - 1) : Kind(k) = "plain"
                         /\ j = i => Kind(j) = "unknown"

\* No stage's stdin is written with more than its pipe holds.
Fits ==
  IF Together THEN Len(input) <= Capacity
  ELSE \A k \in Stages : \/ Kind(k) \in {"unknown", "bad"}
                         \/ Len(Arrives(k, Meaning[k - 1]).text) <= Capacity

\* Whatever writes for ever has a reader that stops, with only cat in between.
Stops ==
  \A k \in Stages : Does(k) = "yes" /\ Kind(k) \in {"plain", "redirected"} =>
    /\ Together
    /\ \E j \in (k + 1)..N : /\ Does(j) \in {"head", "seq", "fail"}
                             /\ \A m \in (k + 1)..(j - 1) : Does(m) = "cat"

(***************************************************************************)
(* Every pipeline comes to its result, with yes at its head or more output *)
(* than the pipes hold, except when a stdin is larger than its pipe: that  *)
(* is written before anybody reads it.                                     *)
(***************************************************************************)
Finishes == Fits /\ Stops ~> phase = "done"
=============================================================================
