------------------------------ MODULE Generate ------------------------------
(***************************************************************************)
(* gotrpc generate: the text that Watch's regenerations make of the source *)
(* they read, of the procedures that are found in it and of their types as *)
(* TypeMapper maps them.                                                   *)
(***************************************************************************)
EXTENDS GeneratedNames, TypeMapper

Types(procs) == FlattenSeq([i \in DOMAIN procs |-> <<procs[i].in, procs[i].out>>])

MapEach(types) == [i \in DOMAIN types |-> MapAST(types[i])]

\* The router type: an entry for each procedure, in order.
Entries(procs, ts) ==
  [i \in DOMAIN procs |->
     [name |-> procs[i].name, type |-> procs[i].type, in |-> ts[2 * i - 1], out |-> ts[2 * i]]]

\* generateDTS: the router type and the definitions of the types it refers
\* to, as TypeMapper maps them and as the fallback does.
TypedText(procs, mapped) ==
  [entries |-> Entries(procs, mapped.ts), defs |-> NamedTypes(mapped.m)]
FallbackText(procs) ==
  [entries |-> Entries(procs, MapEach(Types(procs))), defs |-> ASTNamedTypes]

TextOf(procs, typed) ==
  IF typed THEN TypedText(procs, MapAll(NewTypeMapper, Types(procs))) ELSE FallbackText(procs)

\* The procedures of a reading, in order.
Listed(r) ==
  LET procs == Procedures(r.source, r.typed)
      order == SetToSortSeq(DOMAIN procs, <)
  IN  [i \in DOMAIN order |-> procs[order[i]]]

Text(r) == TextOf(Listed(r), r.typed)

-----------------------------------------------------------------------------
(* Properties *)

SameShapes(text, procs) ==
  \A i \in DOMAIN procs :
    /\ Meaning(text.defs, text.entries[i].in, Depth) = Shape(procs[i].in, Depth)
    /\ Meaning(text.defs, text.entries[i].out, Depth) = Shape(procs[i].out, Depth)

\* By the types generated in a call of Generate, every input and output of a
\* procedure means what encoding/json writes for its Go type.
Faithful(g) ==
  SameShapes(Text(gens[g].read), Listed(gens[g].read))

TypesUsed(g) == ToSet(Types(Listed(gens[g].read)))

\* Clients are given the types of the JSON that is served, whatever types of
\* one name, generic instances, enums and embedded structs meet in one file.
TypesFaithful ==
  \A g \in Fresh : gens[g].read.typed /\ Mappable(TypesUsed(g)) => Faithful(g)

\* The same of the fallback, for the types it knows.
FallbackFaithful ==
  \A g \in Fresh : ~gens[g].read.typed /\ ASTMappable(TypesUsed(g)) => Faithful(g)

\* The same of all types, as mapper.go says of the names and keys it builds
\* for generic types: they are unique.
TypesExact == \A g \in Fresh : gens[g].read.typed => Faithful(g)
=============================================================================
