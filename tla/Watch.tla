------------------------------- MODULE Watch -------------------------------
(***************************************************************************)
(* gotrpc generate, with --watch: the source of an application is edited   *)
(* while regenerations, each a goroutine of time.AfterFunc, read it and    *)
(* write the TypeScript file.  Generate says what that text is.            *)
(***************************************************************************)
EXTENDS Integers, Sequences

CONSTANTS
  Programs,   \* sources at the start
  Drafts,     \* sources that are edited, and what they are edited to
  Routed(_, _),   \* a source, and if it is typed: the loader, or else the
                  \* fallback, finds procedures in it
  MaxEdits,   \* bound: edits of the source
  None,
  Truncated, Torn   \* contents of a file that was truncated, and of one that
                    \* two writers left

ASSUME WatchAssumption == MaxEdits \in Nat /\ Drafts \subseteq Programs

VARIABLES
  source,     \* the source on disk
  edits,      \* edits so far: the version of the source
  flags,      \* of the command: "watch", "dry"
  at,         \* the command's main goroutine
  events,     \* events of the watcher not yet received
  debounce,   \* the timer runs
  gens,       \* calls of Generate: [at, version, read]; read is what it turns
              \* into text: [source, typed]
  output,     \* contents of the output file: what its text was made of
  noticed,    \* history: the last edit the watcher reported, or was not late for
  overlapped  \* history: the last regeneration began while another one ran

vars == <<source, edits, flags, at, events, debounce, gens, output, noticed, overlapped>>

Running(g) == gens[g].at \in {"parse", "write", "writing"}
NoneRunning == \A g \in DOMAIN gens : ~Running(g)

-----------------------------------------------------------------------------
(* Generate *)

Begun == [at |-> "parse", version |-> 0, read |-> None]

Init ==
  /\ source \in Programs
  /\ edits = 0
  /\ flags \in IF source \in Drafts THEN SUBSET {"watch", "dry"} ELSE {{}}
  /\ at = "generate"
  /\ events = 0 /\ debounce = FALSE
  /\ gens = <<Begun>>
  /\ output = None
  /\ noticed = 0 /\ overlapped = FALSE

Step(g, to) == gens' = [gens EXCEPT ![g].at = to]

\* The source is loaded: without the go command the fallback parses it.  A
\* source without procedures is an error.
Read(g) ==
  /\ gens[g].at = "parse"
  /\ \E typed \in BOOLEAN :
       gens' = [gens EXCEPT ![g] =
         [at |-> IF ~Routed(source, typed) THEN "failed"
                 ELSE IF "dry" \in flags THEN "done" ELSE "write",
          version |-> edits, read |-> [source |-> source, typed |-> typed]]]
  /\ UNCHANGED <<source, edits, flags, at, events, debounce, output, noticed, overlapped>>

\* Mutation: the file is opened without truncating it.
TruncateNot == output

Truncate == Truncated

\* os.WriteFile truncates the file, or cannot open it, ...
Open(g) ==
  /\ gens[g].at = "write"
  /\ \/ Step(g, "writing") /\ output' = Truncate
     \/ Step(g, "failed") /\ UNCHANGED output
  /\ UNCHANGED <<source, edits, flags, at, events, debounce, noticed, overlapped>>

\* ... and writes from its start: over another writer's text, whose end stays
\* if it is longer.
Write(g) ==
  /\ gens[g].at = "writing"
  /\ \/ Step(g, "done")
        /\ output' \in {gens[g].read} \cup
             (IF output \in {Truncated, gens[g].read} THEN {} ELSE {Torn})
     \/ Step(g, "failed") /\ UNCHANGED output
  /\ UNCHANGED <<source, edits, flags, at, events, debounce, noticed, overlapped>>

-----------------------------------------------------------------------------
(* The command *)

\* The first generation is over: the command returns, or sets the watcher up.
Generated ==
  /\ at = "generate" /\ ~Running(1)
  /\ at' = IF "watch" \in flags THEN "loop" ELSE "exit"
  /\ UNCHANGED <<source, edits, flags, events, debounce, gens, output, noticed, overlapped>>

\* Mutation: a timer that has fired once is not set again.
ResetOnce == debounce' = (Len(gens) = 1)

\* Stop and AfterFunc: the timer starts again, fired or not.
Reset == debounce' = TRUE

\* The loop receives an event of a .go file.
Event ==
  /\ at = "loop" /\ events > 0
  /\ events' = events - 1
  /\ Reset
  /\ UNCHANGED <<source, edits, flags, at, gens, output, noticed, overlapped>>

\* Mutation: a ticker instead of a timer.
FireTicks ==
  /\ at = "loop" /\ debounce
  /\ gens' = Append(gens, Begun)
  /\ overlapped' = ~NoneRunning
  /\ UNCHANGED <<source, edits, flags, at, events, debounce, output, noticed>>

\* The timer fires.  Stop does not wait for a function that has begun.
Fire ==
  /\ at = "loop" /\ debounce
  /\ debounce' = FALSE
  /\ gens' = Append(gens, Begun)
  /\ overlapped' = ~NoneRunning
  /\ UNCHANGED <<source, edits, flags, at, events, output, noticed>>

\* A signal ends the loop and the process, wherever its goroutines are.
Signal ==
  /\ at = "loop"
  /\ at' = "exit"
  /\ gens' = [g \in DOMAIN gens |-> IF Running(g) THEN [gens[g] EXCEPT !.at = "killed"] ELSE gens[g]]
  /\ debounce' = FALSE
  /\ UNCHANGED <<source, edits, flags, events, output, noticed, overlapped>>

-----------------------------------------------------------------------------
(* The developer *)

\* An edit before the watcher is set up is in time if it is not yet read.
InTime == at = "generate" /\ gens[1].at = "parse"

\* Directories are added once: files of one that was made later go unnoticed.
Edit(p) ==
  /\ edits < MaxEdits /\ at # "exit" /\ source \in Drafts
  /\ source' = p
  /\ edits' = edits + 1
  /\ \/ /\ at = "loop"
        /\ events' = events + 1 /\ noticed' = edits + 1
     \/ /\ UNCHANGED events
        /\ noticed' = IF InTime THEN edits + 1 ELSE noticed
  /\ UNCHANGED <<flags, at, debounce, gens, output, overlapped>>

Command == Generated \/ Event \/ Fire

Worker(g) == Read(g) \/ Open(g) \/ Write(g)

\* The command has returned; its goroutines, if any, with it.
Exited == at = "exit" /\ UNCHANGED vars

Next ==
  \/ Command \/ Signal \/ Exited
  \/ \E g \in DOMAIN gens : Worker(g)
  \/ \E p \in Drafts : Edit(p)

\* Timers fire, goroutines run, and the loop receives what it is sent.
Fairness ==
  /\ WF_vars(Command)
  /\ \A g \in 1..MaxEdits + 1 : WF_vars(g \in DOMAIN gens /\ Worker(g))

Spec == Init /\ [][Next]_vars
FairSpec == Spec /\ Fairness

-----------------------------------------------------------------------------
(* Properties *)

TypeOK ==
  /\ edits \in 0..MaxEdits /\ flags \subseteq {"watch", "dry"}
  /\ at \in {"generate", "loop", "exit"}
  /\ events \in 0..MaxEdits /\ debounce \in BOOLEAN
  /\ Len(gens) \in 1..MaxEdits + 1
  /\ \A g \in DOMAIN gens :
       /\ gens[g].at \in {"parse", "write", "writing", "done", "failed", "killed"}
       /\ gens[g].version \in 0..edits
  /\ noticed \in 0..edits

\* Nothing is left to be done.
AtRest == at = "loop" /\ events = 0 /\ ~debounce /\ NoneRunning

\* At rest the file is what the source, as it is now, generates, unless the
\* watcher missed the last edit, writing failed, or regenerations overlapped.
AtRestFresh ==
  LET last == gens[Len(gens)] IN
  AtRest /\ noticed = edits /\ ~overlapped /\ last.at = "done" /\ "dry" \notin flags =>
    output = [source |-> source, typed |-> last.read.typed]

\* An edit the watcher reports is read by a generation that comes to its end,
\* however many edits follow it and whatever generations still run.
EditsReachOutput ==
  \A e \in 1..MaxEdits :
    noticed = e ~>
      \/ at = "exit"
      \/ \E g \in DOMAIN gens : gens[g].version >= e /\ ~Running(g)
=============================================================================
