---------------------------- MODULE Registration ----------------------------
(***************************************************************************)
(* The names of an application's procedures, twice: as its routers come to *)
(* serve them when main runs, and as the code generator reads them off its *)
(* source, with and without type information.                              *)
(*                                                                         *)
(* A program is the statements of its packages, each with the package it   *)
(* is in: those of main, and of factories, functions that make a router    *)
(* "r" and return it.  Packages and dotted names are sequences of their    *)
(* segments.                                                               *)
(*   use      var.Use(mw)                                                  *)
(*   register Query(var, name, handler, WithMiddleware(own...)) and so on  *)
(*   merge    parent.Merge(prefix, child), or .Merge(prefix, of.New()) if  *)
(*            child is ""                                                  *)
(*   assign   var := of.F(...), which makes a router or something else;    *)
(*            aliased if the import gives the package a name             *)
(***************************************************************************)
EXTENDS Naturals, Sequences, FiniteSets, SequencesExt, TLC

CONSTANTS
  Main, AppRouter,   \* package and variable of the router that serves
  Declared,          \* the name a package declares
  LibrarySegments    \* the path segments that contain "go-trpc"

-----------------------------------------------------------------------------
(* main runs *)

\* A map with entries written over it, and with one.
Over(f, map) == [x \in DOMAIN f \cup DOMAIN map |-> IF x \in DOMAIN f THEN f[x] ELSE map[x]]
Put(map, key, value) == Over([x \in {key} |-> value], map)

NewRouter == [procedures |-> <<>>, middlewares |-> <<>>]

Router(env, var) == IF var \in DOMAIN env THEN env[var] ELSE NewRouter

Use(r, mw) == [r EXCEPT !.middlewares = Append(@, mw)]

\* registerProcedure and Subscription: a name that is taken is overwritten.
Register(r, s) ==
  [r EXCEPT !.procedures = Put(@, s.name, [type |-> s.type, middlewares |-> s.own])]

\* Mutation: the procedure's own middlewares run first.
MergedOwnFirst(other, proc) == proc.middlewares \o other.middlewares

\* The middlewares of a merged procedure: its router's, then its own.
Merged(other, proc) == other.middlewares \o proc.middlewares

Merge(r, prefix, other) ==
  LET names == DOMAIN other.procedures
      local(full) == SubSeq(full, Len(prefix) + 1, Len(full))
      merged == [full \in {prefix \o n : n \in names} |->
                   LET proc == other.procedures[local(full)] IN
                   [proc EXCEPT !.middlewares = Merged(other, proc)]]
  IN  [r EXCEPT !.procedures = Over(merged, @)]

\* One statement; make[pkg] is the router the package's factory returns.
Exec(env, make, s) ==
  CASE s.op = "use"      -> Put(env, s.var, Use(Router(env, s.var), s.mw))
    [] s.op = "register" -> Put(env, s.var, Register(Router(env, s.var), s))
    [] s.op = "merge"    -> Put(env, s.parent,
         Merge(Router(env, s.parent), s.prefix,
               IF s.child = "" THEN make[s.of] ELSE Router(env, s.child)))
    [] s.op = "assign"   -> IF s.router THEN Put(env, s.var, make[s.of]) ELSE env

\* The routers of a package's function once its first n statements ran.
After(p, pkg, make) ==
  LET env[n \in Nat] ==
        IF n = 0 THEN <<>>
        ELSE IF p[n].pkg = pkg THEN Exec(env[n - 1], make, p[n]) ELSE env[n - 1]
  IN env

Run(p, pkg, make) == After(p, pkg, make)[Len(p)]

Packages(p) == {p[n].pkg : n \in DOMAIN p} \ {Main}

Made(p) == [pkg \in Packages(p) |-> Router(Run(p, pkg, <<>>), "r")]

Serving(p) == Router(Run(p, Main, Made(p)), AppRouter)

Served(p) == Serving(p).procedures

\* What callProcedure composes around a handler.
Chain(p, name) == Serving(p).middlewares \o Served(p)[name].middlewares

-----------------------------------------------------------------------------
(* The source is parsed: what is found stands at its position *)

Positions(p, op) == {n \in DOMAIN p : p[n].op = op}

\* Names and prefixes are found only if they are literals.
Literal(p, op) == {n \in Positions(p, op) : p[n].literal}

\* ParsePackage knows the package of a procedure by its path, ParseDir by the
\* name it declares.
ProcedurePkg(pkg, typed) == IF typed THEN pkg ELSE <<Declared[pkg]>>

ProcedureInfos(p, typed) ==
  [n \in Literal(p, "register") |->
     [name |-> p[n].name, type |-> p[n].type, var |-> p[n].var,
      pkg |-> ProcedurePkg(p[n].pkg, typed), in |-> p[n].in, out |-> p[n].out]]

MergeInfos(p) == [n \in Literal(p, "merge") |-> p[n]]

\* The package of a factory call: its path, or the last segment of that.
FactoryPkg(pkg, typed) == IF typed THEN pkg ELSE <<Last(pkg)>>

\* A package is taken for the library if "go-trpc" is anywhere in its path.
InLibrary(pkg) == \E k \in DOMAIN pkg : pkg[k] \in LibrarySegments

\* Without types an import is looked up under its alias, or under the last
\* segment of its path, which may not be the name the package declares.
ImportFound(s, typed) == typed \/ s.aliased \/ Declared[s.of] = Last(s.of)

\* Without types every call of another package's function counts.
FactoryCalls(p, typed) ==
  [n \in {n \in Positions(p, "assign") :
            (p[n].router \/ ~typed) /\ ImportFound(p[n], typed) /\ ~InLibrary(p[n].of)} |->
     [var |-> p[n].var, pkg |-> FactoryPkg(p[n].of, typed)]]

Parse(p, typed) ==
  [procedures |-> ProcedureInfos(p, typed),
   merges     |-> MergeInfos(p),
   factories  |-> FactoryCalls(p, typed)]

\* Mutation: procedures of a package keep the variable of its factory.
CallerVarOwn(result, proc) == proc.var

\* The variable that holds the router of a procedure: of its package's
\* factory calls the last one decides.
CallerVar(result, proc) ==
  LET calls == {n \in DOMAIN result.factories : result.factories[n].pkg = proc.pkg}
  IN  IF calls = {} THEN proc.var ELSE result.factories[Max(calls)].var

\* One step of the walk from a variable to the router it is merged into.  Of
\* several merges of it the last one decides; a cycle ends the walk.
Up(merges, w) ==
  LET found == {n \in DOMAIN merges : merges[n].child = w.var} IN
  IF w.var \in w.seen \/ found = {} THEN w
  ELSE [var    |-> merges[Max(found)].parent,
        prefix |-> merges[Max(found)].prefix \o w.prefix,
        seen   |-> w.seen \cup {w.var}]

Walk(merges, var) ==
  LET walk[n \in Nat] ==
        IF n = 0 THEN [var |-> var, prefix |-> <<>>, seen |-> {}] ELSE Up(merges, walk[n - 1])
  IN walk

\* The prefixes from the root to a variable.  No walk has more steps than
\* there are merges.
PrefixOf(merges, var) == Walk(merges, var)[Cardinality(DOMAIN merges)].prefix

\* resolvePrefixes.
Resolved(result) ==
  [n \in DOMAIN result.procedures |->
     LET proc == result.procedures[n]
         var == CallerVar(result, proc) IN
     IF DOMAIN result.merges = {} \/ var = "" THEN proc
     ELSE [proc EXCEPT !.name = PrefixOf(result.merges, var) \o @]]

Procedures(p, typed) == Resolved(Parse(p, typed))

\* The router type: a path that ends in a procedure hides the ones below it,
\* and of two procedures of one name it has the last.
Visible(procs) ==
  {i \in DOMAIN procs :
     \A j \in DOMAIN procs :
       /\ ~IsStrictPrefix(procs[j].name, procs[i].name)
       /\ procs[j].name = procs[i].name => j <= i}

-----------------------------------------------------------------------------
(* Programs whose names the generator resolves *)

InMain(p) == {n \in DOMAIN p : p[n].pkg = Main}

Receiver(s) == IF s.op = "merge" THEN s.parent ELSE s.var

\* Names and prefixes are literals, and routers are held in variables.
Plain(p) ==
  \A n \in DOMAIN p :
    /\ p[n].op \in {"register", "merge"} => p[n].literal
    /\ Receiver(p[n]) # "" /\ (p[n].op = "merge" => p[n].child # "")

\* The calls of a package's factory are found and lead to its procedures: it
\* does not pass for the library and, without types, its path ends in the name
\* it declares.
Followed(pkg, typed) == ~InLibrary(pkg) /\ (typed \/ Declared[pkg] = Last(pkg))

\* A factory fills its one router, and main keeps it in one variable, which
\* stands for nothing before; the parser follows the packages and tells them
\* apart, and without types no other call into one of them is assigned.
FactoriesSimple(p, typed) ==
  /\ \A n \in DOMAIN p \ InMain(p) : p[n].op \in {"use", "register"} /\ p[n].var = "r"
  /\ \A pkg \in Packages(p) : Followed(pkg, typed)
  /\ \A pkg, other \in Packages(p) \cup {Main} :
       ProcedurePkg(pkg, typed) = ProcedurePkg(other, typed) => pkg = other
  /\ \A i, j \in DOMAIN FactoryCalls(p, typed) : p[i].of = p[j].of => i = j
  /\ \A i \in Positions(p, "assign"), j \in InMain(p) : j < i => p[i].var # Receiver(p[j])

\* Every router but the one that serves is merged once, when it is complete,
\* into one that is not a child of its own.
MergedOnce(p) ==
  LET merges == Positions(p, "merge")
      child(i) == p[i].child IN
  /\ \A i, j \in merges : child(i) = child(j) => i = j
  /\ \A i \in merges : child(i) # AppRouter
  /\ \A j \in InMain(p) :
       \/ Receiver(p[j]) = AppRouter \/ (p[j].op = "assign" /\ ~p[j].router)
       \/ \E i \in merges : child(i) = Receiver(p[j]) /\ j < i

Disciplined(p, typed) == Plain(p) /\ FactoriesSimple(p, typed) /\ MergedOnce(p)

\* No two procedures are served under one name, and none under a name that is
\* the beginning of another.
NamesDistinct(p) ==
  /\ Cardinality(DOMAIN Served(p)) = Cardinality(Positions(p, "register"))
  /\ \A m \in DOMAIN Served(p), n \in DOMAIN Served(p) : ~IsStrictPrefix(m, n)

\* What was used on a router of main: in its factory, and on its variable.
Uses(p, pkg, var) ==
  LET uses[n \in Nat] ==
        IF n = 0 THEN <<>>
        ELSE IF p[n].pkg = pkg /\ p[n].op = "use" /\ p[n].var = var
             THEN Append(uses[n - 1], p[n].mw) ELSE uses[n - 1]
  IN uses

UsedBy(p, var, n) ==
  LET from == {i \in Positions(p, "assign") : i <= n /\ p[i].router /\ p[i].var = var}
  IN  (IF from = {} THEN <<>> ELSE Uses(p, p[Max(from)].of, "r")[Len(p)]) \o Uses(p, Main, var)[n]

\* The same of the routers it is merged into, from the one that serves inwards.
Outwards(p, w) ==
  LET found == {n \in Positions(p, "merge") : p[n].child = w.var} IN
  IF found = {} THEN w
  ELSE [var   |-> p[Max(found)].parent,
        chain |-> UsedBy(p, p[Max(found)].parent, Len(p)) \o w.chain]

Around(p, var) ==
  LET walk[n \in Nat] ==
        IF n = 0 THEN [var |-> var, chain |-> UsedBy(p, var, Len(p))]
        ELSE Outwards(p, walk[n - 1])
  IN walk
=============================================================================
