-------------------------- MODULE FixturePipeline --------------------------
(***************************************************************************)
(* dev/scripts/regenerate_parity_fixtures.sh: three scripts, one after the  *)
(* other, each of which reads files the one before may have written and     *)
(* writes others.  A script may be started alone, as the manifest it writes *)
(* says, and any may be killed at any step: a file it was writing is then   *)
(* torn.                                                                    *)
(***************************************************************************)
EXTENDS SignalFixtures

CONSTANT MaxUpdates     \* bound: times another reference is checked out

VARIABLES
    file,           \* the content of each file
    script,         \* where it is, whether in a write, and whether all three are to run
    held,           \* what it has read and built
    protoLoads,     \* whether the reference's WAProto can be imported
    updates

pipelineVars == <<work, file, script, held, protoLoads, updates>>

Sources == {"signal", "media", "definitions"}
CopyOrder == <<"parity signal", "parity media", "parity syncd", "parity wam", "manifest">>

Copies == {CopyOrder[i] : i \in DOMAIN CopyOrder}

\* A content is whole or torn, or whole without its proto vectors; it is
\* "fresh" if it says what the reference says that is checked out.
Whole(fresh) == [state |-> "whole", fresh |-> fresh]
Torn         == [state |-> "torn", fresh |-> FALSE]

Idle == [at |-> "idle", writing |-> FALSE, whole |-> FALSE]

PipelineInit ==
    /\ work = NewWork
    /\ file = [f \in Sources \union Copies |-> Whole(f = "media")]
    /\ script = Idle
    /\ held = <<>>
    /\ protoLoads \in BOOLEAN
    /\ updates = 0

Stopped == script.at \in {"idle", "failed", "done"}

GoTo(step) == script' = [script EXCEPT !.at = step, !.writing = FALSE]

-----------------------------------------------------------------------------
(* The three scripts, in their order; set -e. *)

ScriptsVectorsFirst == <<"signal", "vectors", "definitions">>

Scripts == <<"signal", "definitions", "vectors">>

AfterScript(s) ==
    LET i == CHOOSE i \in DOMAIN Scripts : Scripts[i] = s
    IN  IF script.whole /\ i < Len(Scripts) THEN Scripts[i + 1] ELSE "done"

Start(whole, first) ==
    /\ Stopped
    /\ script' = [at |-> first, writing |-> FALSE, whole |-> whole]
    /\ UNCHANGED <<work, file, held, protoLoads, updates>>

Regenerate == Start(TRUE, Scripts[1])

StartAlone == \E i \in DOMAIN Scripts : Start(FALSE, Scripts[i])

Kill ==
    /\ ~Stopped
    /\ GoTo("failed")
    /\ work' = NewWork
    /\ held' = <<>>
    /\ UNCHANGED <<file, protoLoads, updates>>

\* Another commit of the reference: all but the media fixtures are old.
UpdateReference ==
    /\ Stopped
    /\ updates < MaxUpdates
    /\ updates' = updates + 1
    /\ file' = [f \in DOMAIN file |-> IF f \in {"media", "parity media"} THEN file[f]
                                      ELSE [file[f] EXCEPT !.fresh = FALSE]]
    /\ script' = Idle
    /\ UNCHANGED <<work, held, protoLoads>>

-----------------------------------------------------------------------------
(* What they read and build. *)

\* generate_signal_fixtures.mts, before it writes
BuildSignal ==
    /\ script.at = "signal"
    /\ BuildStep
    /\ UNCHANGED <<file, script, held, protoLoads, updates>>

\* JSON.parse throws.
Unparsable(f) == file[f].state = "torn"

\* generateSyncdVectors: an import that fails leaves the proto vectors out,
\* and only says so on stderr.
SyncdVectors == [state |-> IF protoLoads THEN "whole" ELSE "without proto", fresh |-> TRUE]

\* generate_parity_vectors.mts, before it writes
ReadSources ==
    /\ script.at = "vectors"
    /\ IF \E f \in Sources : Unparsable(f) THEN GoTo("failed") /\ UNCHANGED held
       ELSE /\ held' = [f \in Copies |->
                  CASE f = "parity signal" -> file["signal"]
                    [] f = "parity media"  -> file["media"]
                    [] f = "parity wam"    -> file["definitions"]
                    [] f = "parity syncd"  -> SyncdVectors
                    [] f = "manifest"      -> Whole(TRUE)]
            /\ GoTo(CopyOrder[1])
    /\ UNCHANGED <<work, file, protoLoads, updates>>

-----------------------------------------------------------------------------
(* What they write: a file is truncated and then written. *)

\* The file that is next, as a set of at most one.
ToWrite ==
    IF script.at = "signal" /\ ~Built THEN {} ELSE {script.at} \intersect DOMAIN file

Truncate ==
    \E f \in ToWrite :
        /\ ~script.writing
        /\ file' = [file EXCEPT ![f] = Torn]
        /\ script' = [script EXCEPT !.writing = TRUE]
        /\ UNCHANGED <<work, held, protoLoads, updates>>

AfterCopy(f) ==
    LET i == CHOOSE i \in DOMAIN CopyOrder : CopyOrder[i] = f
    IN  IF i < Len(CopyOrder) THEN CopyOrder[i + 1] ELSE AfterScript("vectors")

WriteOut ==
    \E f \in ToWrite :
        /\ script.writing
        /\ file' = [file EXCEPT ![f] = IF f \in Sources THEN Whole(TRUE) ELSE held[f]]
        /\ GoTo(IF f \in Sources THEN AfterScript(f) ELSE AfterCopy(f))
        /\ IF f \in Sources \union {"manifest"} THEN work' = NewWork /\ held' = <<>>
           ELSE UNCHANGED <<work, held>>
        /\ UNCHANGED <<protoLoads, updates>>

PipelineStep ==
    \/ Regenerate
    \/ StartAlone
    \/ Kill
    \/ UpdateReference
    \/ BuildSignal
    \/ ReadSources
    \/ Truncate
    \/ WriteOut

-----------------------------------------------------------------------------
(* No script ever takes a torn file for a source.  When the three have run,  *)
(* whatever was torn or old before, no file is                              *)
(* torn, none is older than the reference, and every copy says what its     *)
(* source says; only the proto vectors may be missing, and only where the   *)
(* reference's WAProto does not load.                                       *)
RegeneratedIsFresh ==
    /\ held # <<>> => \A f \in Copies : held[f] # Torn
    /\ script.at = "done" /\ script.whole =>
        /\ \A f \in DOMAIN file : file[f].fresh /\ file[f].state # "torn"
        /\ \A f \in DOMAIN file : file[f].state # "whole" => f = "parity syncd" /\ ~protoLoads

(* The signal fixtures, once built, are what the program makes of the same  *)
(* key pairs in the parts the fixtures give them, and every key pair queued *)
(* was used.                                                                *)
FixturesReplay == Built => Replays(work.fixture) /\ work.left = <<>>
=============================================================================
