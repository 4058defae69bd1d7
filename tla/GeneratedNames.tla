--------------------------- MODULE GeneratedNames ---------------------------
(***************************************************************************)
(* Watch with the names it writes: of the procedures that Registration     *)
(* finds in the source a generation read.                                  *)
(***************************************************************************)
EXTENDS Registration, Watch

\* Programs as the language has them: statements of four kinds, and factories
\* of other packages.
WellFormed(p) ==
  /\ Len(p) \in Nat /\ DOMAIN p = 1..Len(p)
  /\ \A n \in DOMAIN p :
       /\ p[n].op \in {"use", "register", "merge", "assign"}
       /\ p[n].op = "use" => p[n].mw \in STRING
       /\ p[n].op = "register" =>
            p[n].name \in Seq(STRING) /\ p[n].type \in STRING /\ p[n].own \in Seq(STRING)
       /\ p[n].op = "merge" => p[n].prefix \in Seq(STRING)
       /\ p[n].op = "assign" \/ (p[n].op = "merge" /\ p[n].child = "") => p[n].of \in Packages(p)

ASSUME ProgramsAssumption == \A p \in Programs : WellFormed(p)

\* The loader, or the fallback, finds procedures in the source.
HasProcedures(p, typed) == DOMAIN Parse(p, typed).procedures # {}

-----------------------------------------------------------------------------
(* Properties *)

\* Generations that read the source as it is.
Fresh == {g \in DOMAIN gens : gens[g].version = edits /\ gens[g].read # None}

SameProcedures(procs, served) ==
  /\ {<<procs[i].name, procs[i].type>> : i \in Visible(procs)}
       = {<<n, served[n].type>> : n \in DOMAIN served}
  /\ Visible(procs) = DOMAIN procs

\* The router type has exactly the procedures the application serves, under
\* their names and with their types of call, if its routers are held in
\* variables, complete when they are merged, and merged once, and the parser
\* finds its factories by the paths of their packages.
NamesAgree ==
  \A g \in Fresh : Disciplined(source, gens[g].read.typed) /\ NamesDistinct(source) =>
    SameProcedures(Procedures(source, gens[g].read.typed), Served(source))

\* Requests pass the middlewares of the routers a procedure was merged
\* through, from the one that serves inwards, and its own at last.
ChainOrder ==
  Disciplined(source, TRUE) /\ NamesDistinct(source) /\ at = "generate" =>
    LET parsed == Parse(source, TRUE) IN
    \A i \in DOMAIN parsed.procedures :
      Chain(source, Resolved(parsed)[i].name)
        = Around(source, CallerVar(parsed, parsed.procedures[i]))[Len(source)].chain
            \o source[i].own
=============================================================================
