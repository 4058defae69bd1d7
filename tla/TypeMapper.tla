----------------------------- MODULE TypeMapper -----------------------------
(***************************************************************************)
(* How the code generator maps Go types to TypeScript: TypeMapper for      *)
(* types the type checker resolved, and the fallback that reads type       *)
(* expressions; and what encoding/json writes, to compare both with.       *)
(*                                                                         *)
(* Text is modelled by what a TypeScript compiler reads in it.  The name   *)
(* of a type is the sequence of its words, so that two names are equal if  *)
(* their text is.  A package is the sequence of its path's segments.       *)
(***************************************************************************)
EXTENDS Naturals, Sequences, FiniteSets, SequencesExt, TLC

CONSTANTS
  Decls,      \* <<pkg, name>> -> [under, consts], the declared Go types
  WellKnown,  \* wellKnownTypes: <<pkg, name>> -> TypeScript type
  Capital,    \* words that do not start with a capital -> ones that do
  Lower,      \* field names of Go -> the same with a small first letter
  Depth       \* bound: how many objects deep types are compared

-----------------------------------------------------------------------------
(* Go types *)

Basic(name) == [go |-> "basic", name |-> name]
Pointer(elem) == [go |-> "pointer", elem |-> elem]
Slice(elem) == [go |-> "slice", elem |-> elem]
Map(elem) == [go |-> "map", elem |-> elem]
Struct(fields) == [go |-> "struct", fields |-> fields]
Interface == [go |-> "interface"]
Param(i) == [go |-> "param", i |-> i]
Named(pkg, name, args) == [go |-> "named", pkg |-> pkg, name |-> name, args |-> args]

Key(t) == <<t.pkg, t.name>>

RECURSIVE Instance(_, _)

\* A type of a generic declaration with its parameters replaced.
Instance(t, args) ==
  CASE t.go = "param" -> args[t.i]
    [] t.go \in {"pointer", "slice", "map"} -> [t EXCEPT !.elem = Instance(@, args)]
    [] t.go = "struct" -> [t EXCEPT !.fields =
         [i \in DOMAIN @ |-> [@[i] EXCEPT !.type = Instance(@, args)]]]
    [] t.go = "named" -> [t EXCEPT !.args = [i \in DOMAIN @ |-> Instance(@[i], args)]]
    [] OTHER -> t

Underlying(t) ==
  IF t.go = "named" THEN Instance(Decls[Key(t)].under, t.args) ELSE t

IsStruct(t) == Underlying(t).go = "struct"

\* An embedded field's type, without its pointer.
Embedded(f) == IF f.type.go = "pointer" THEN f.type.elem ELSE f.type

\* extractEnums: a string or an integer type with constants in its package.
IsEnum(t) == Underlying(t).go = "basic" /\ Decls[Key(t)].consts # {}

-----------------------------------------------------------------------------
(* TypeScript types *)

Prim(name) == [ts |-> "prim", name |-> name]
OrNull(of) == [ts |-> "null", of |-> of]
Arr(of) == [ts |-> "array", of |-> of]
Rec(of) == [ts |-> "record", of |-> of]
Obj(fields) == [ts |-> "object", fields |-> fields]
And(parts) == [ts |-> "and", parts |-> parts]
Ref(name) == [ts |-> "ref", name |-> name]
OneOf(values) == [ts |-> "enum", values |-> values]

\* Record<string, never>, and void for an input that has no fields.
NoFields == Obj({})

RECURSIVE HasUnion(_)

\* The text of the type contains " | ".
HasUnion(t) ==
  CASE t.ts = "null" -> TRUE
    [] t.ts = "enum" -> Cardinality(t.values) > 1
    [] t.ts \in {"array", "record"} -> HasUnion(t.of)
    [] t.ts = "object" -> \E f \in t.fields : HasUnion(f.type)
    [] t.ts = "and" -> \E i \in DOMAIN t.parts : HasUnion(t.parts[i])
    [] OTHER -> FALSE

\* Brackets after an intersection bind to its last part.
WrapArray(elem) ==
  IF elem.ts = "and" /\ ~HasUnion(elem)
  THEN [elem EXCEPT !.parts[Len(elem.parts)] = Arr(@)]
  ELSE Arr(elem)

RECURSIVE Words(_)

\* sanitizeIdentifier: the letters and digits of a type's text.  The fields of
\* an object, which is a set here, come in an order of their own.
Words(t) ==
  CASE t.ts = "prim"   -> <<t.name>>
    [] t.ts = "ref"    -> t.name
    [] t.ts = "null"   -> Words(t.of) \o <<"null">>
    [] t.ts = "array"  -> Words(t.of)
    [] t.ts = "record" -> <<"Record", "string">> \o Words(t.of)
    [] t.ts = "and"    -> FlattenSeq([i \in DOMAIN t.parts |-> Words(t.parts[i])])
    [] t.ts = "enum"   -> SetToSeq(t.values)
    [] t.ts = "object" -> IF t = NoFields THEN <<"Record", "string", "never">>
         ELSE FlattenSeq([i \in 1..Cardinality(t.fields) |->
                LET f == SetToSeq(t.fields)[i] IN <<f.name>> \o Words(f.type)])

PascalCase(words) ==
  IF words # <<>> /\ Head(words) \in DOMAIN Capital
  THEN <<Capital[Head(words)]>> \o Tail(words) ELSE words

-----------------------------------------------------------------------------
(* TypeMapper.  A mapper m has defs (namedTypes), names (tsNames) and      *)
(* owners (shortNameOwners); to map a type gives [m, ts].                  *)

NewTypeMapper == [defs |-> <<>>, names |-> <<>>, owners |-> <<>>]

Qualified(t) == <<t.pkg, t.name, <<>>>>

Disambiguate(t) == PascalCase(<<Last(t.pkg)>>) \o t.name

\* Mutation: a type whose short name is taken gets it all the same.
FreshNameShort(m, t) == t.name

\* The first type of a short name keeps it.
FreshName(m, t) == IF t.name \in DOMAIN m.owners THEN Disambiguate(t) ELSE t.name

RegisterName(m, t) ==
  LET qual == Qualified(t) IN
  IF qual \in DOMAIN m.names THEN m
  ELSE [m EXCEPT !.names = (qual :> FreshName(m, t)) @@ @,
                 !.owners = @ @@ (t.name :> qual)]

\* The name of a generic type's instance, from its own and its arguments'.
InstanceName(m, t, qual) ==
  LET name == t.name \o FlattenSeq(qual[3]) IN
  IF name \in DOMAIN m.owners /\ m.owners[name] # qual
  THEN Disambiguate(t) \o FlattenSeq(qual[3]) ELSE name

Define(m, qual, ts) == [m EXCEPT !.defs = (qual :> ts) @@ @]

Placeholder == Prim("")

RECURSIVE MapType(_, _), MapAll(_, _)

\* A sequence of types, one after another: [m, ts], a sequence.
MapAll(m, types) ==
  LET first == MapType(m, Head(types))
      rest == MapAll(first.m, Tail(types)) IN
  IF types = <<>> THEN [m |-> m, ts |-> <<>>]
  ELSE [m |-> rest.m, ts |-> <<first.ts>> \o rest.ts]

\* mapInstantiatedGeneric.
MapInstance(m0, t) ==
  LET args == MapAll(m0, t.args)
      qual == <<t.pkg, t.name, [i \in DOMAIN args.ts |-> PascalCase(Words(args.ts[i]))]>>
      name == InstanceName(args.m, t, qual)
      m == [args.m EXCEPT !.names = (qual :> name) @@ @, !.owners = (name :> qual) @@ @]
      r == MapType(IF IsStruct(t) THEN Define(m, qual, Placeholder) ELSE m, Underlying(t))
  IN  IF qual \in DOMAIN args.m.defs
      THEN [m |-> args.m, ts |-> Ref(args.m.names[qual])]
      ELSE [m |-> Define(r.m, qual, r.ts), ts |-> Ref(name)]

\* A named type is defined once, and referred to by its name.  Only a struct
\* is defined before it is mapped.
MapNamed(m0, t) ==
  LET qual == Qualified(t)
      m == RegisterName(m0, t)
      r == MapType(IF IsStruct(t) THEN Define(m, qual, Placeholder) ELSE m, Underlying(t))
  IN  [m |-> IF qual \in DOMAIN m.defs THEN m
             ELSE IF IsEnum(t) THEN Define(m, qual, OneOf(Decls[Key(t)].consts))
             ELSE Define(r.m, qual, r.ts),
       ts |-> Ref(m.names[qual])]

MapBasic(name) ==
  Prim(CASE name = "string" -> "string"
         [] name = "bool" -> "boolean"
         [] name \in {"int", "byte", "float64"} -> "number"
         [] OTHER -> "unknown")

\* What a pointer, slice or map makes of its element's type.
OfElem(t, elem) ==
  CASE t.go = "pointer" -> OrNull(elem)
    [] t.go = "slice" -> WrapArray(elem)
    [] t.go = "map" -> Rec(elem)

MapElem(m, t) == LET r == MapType(m, t.elem) IN [r EXCEPT !.ts = OfElem(t, @)]

\* The field as the generated type has it: an untagged one in lower case.
FieldName(f) ==
  IF f.tag # "" THEN f.tag ELSE IF f.name \in DOMAIN Lower THEN Lower[f.name] ELSE f.name

TsField(f, ts) ==
  [name |-> FieldName(f), optional |-> "omitempty" \in f.opts,
   type |-> IF "string" \in f.opts THEN Prim("string") ELSE ts]

\* An embedded field that is no struct is left out.
Shown(f) ==
  f.exported /\ IF f.embedded THEN IsStruct(Embedded(f)) ELSE f.tag # "-"

\* mapStructType: an embedded struct becomes a part of an intersection.
MapStruct(m, t) ==
  LET shown == SelectSeq(t.fields, Shown)
      all == MapAll(m, [i \in DOMAIN shown |->
               IF shown[i].embedded THEN Embedded(shown[i]) ELSE shown[i].type])
      own == {TsField(shown[i], all.ts[i]) : i \in {i \in DOMAIN shown : ~shown[i].embedded}}
      parts == FlattenSeq([i \in DOMAIN shown |-> IF shown[i].embedded THEN <<all.ts[i]>> ELSE <<>>])
               \o (IF own = {} THEN <<>> ELSE <<Obj(own)>>)
  IN  [m |-> all.m,
       ts |-> CASE parts = <<>> -> NoFields
                [] Len(parts) = 1 -> parts[1]
                [] OTHER -> And(parts)]

MapType(m, t) ==
  CASE t.go = "named" /\ Key(t) \in DOMAIN WellKnown -> [m |-> m, ts |-> WellKnown[Key(t)]]
    [] t.go = "named" /\ Key(t) \notin DOMAIN WellKnown ->
         IF t.args # <<>> THEN MapInstance(m, t) ELSE MapNamed(m, t)
    [] t.go = "basic" -> [m |-> m, ts |-> MapBasic(t.name)]
    [] t.go \in {"pointer", "slice", "map"} ->
         IF t = Slice(Basic("byte")) THEN [m |-> m, ts |-> Prim("string")] ELSE MapElem(m, t)
    [] t.go = "struct" -> MapStruct(m, t)
    [] t.go \in {"interface", "param"} -> [m |-> m, ts |-> Prim("unknown")]

\* NamedTypes: what the output defines under each name.  Of several types of
\* one name the order of a map decides which is left: all are kept here.
NamedTypes(m) ==
  [name \in {m.names[q] : q \in DOMAIN m.defs} |->
     {m.defs[q] : q \in {q \in DOMAIN m.defs : m.names[q] = name}}]

-----------------------------------------------------------------------------
(* The fallback reads type expressions, and knows structs by short name.   *)

\* structDefsMap: of two structs of one name the last one parsed is left.
StructDefs(name) ==
  {k \in DOMAIN Decls : k[2] = name /\ Decls[k].under.go = "struct"}

\* What mapASTTypeInner names without looking a definition up.
ASTKnown == [time |-> "string", uuid |-> "string", json |-> "unknown"]

RECURSIVE MapAST(_)

\* Mutation: the field's Go name, whatever its tag says.
ASTNameUntagged(f) == f.name

\* The name of a declared struct's field; those of other structs are named
\* as TypeMapper names them.
ASTName(f) == IF f.tag = "" THEN f.name ELSE f.tag

\* A field of a struct that is declared, or not.
ASTField(f, declared) ==
  [name |-> IF declared THEN ASTName(f) ELSE FieldName(f), optional |-> "omitempty" \in f.opts, type |-> MapAST(f.type)]

\* mapStructDefToTS and mapInlineStructAST: embedded fields have no name.
ASTStruct(fields, declared) ==
  Obj({ASTField(fields[i], declared) : i \in {i \in DOMAIN fields : ~fields[i].embedded /\ fields[i].tag # "-"}})

\* A name is written down if a struct has it, or if it starts with a capital.
ASTRefers(name) == StructDefs(name) # {} \/ Head(name) \notin DOMAIN Capital

\* An instance of a generic type has no expression that is understood.
MapAST(t) ==
  CASE t.go = "named" ->
         IF t.args # <<>> THEN NoFields
         ELSE IF Key(t) \in DOMAIN WellKnown /\ Last(t.pkg) \in DOMAIN ASTKnown
              THEN Prim(ASTKnown[Last(t.pkg)])
         ELSE IF ASTRefers(t.name) THEN Ref(t.name) ELSE Prim("unknown")
    [] t.go = "basic" -> MapBasic(t.name)
    [] t.go = "pointer" -> OrNull(MapAST(t.elem))
    [] t.go = "slice" -> Arr(MapAST(t.elem))
    [] t.go = "map" -> Rec(MapAST(t.elem))
    [] t.go = "struct" -> ASTStruct(t.fields, FALSE)
    [] t.go \in {"interface", "param"} -> Prim("unknown")

\* The definitions of the structs, by their short names.
ASTNamedTypes ==
  LET names == {k[2] : k \in {k \in DOMAIN Decls : Decls[k].under.go = "struct"}} IN
  [name \in names |-> {ASTStruct(Decls[k].under.fields, TRUE) : k \in StructDefs(name)}]

-----------------------------------------------------------------------------
(* What a type means: the JSON written for it, down to Depth objects *)

\* Fields of an object and of the parts it embeds.
Joined(a, b) == Obj(a.fields \cup b.fields)

RECURSIVE Meaning(_, _, _)

\* What a TypeScript type stands for, given the definitions of its module.
Meaning(defs, t, n) ==
  CASE t.ts = "ref" ->
         IF t.name \notin DOMAIN defs THEN Prim("undefined")
         ELSE IF Cardinality(defs[t.name]) > 1 THEN Prim("ambiguous")
         ELSE Meaning(defs, CHOOSE d \in defs[t.name] : TRUE, n)
    [] t.ts \in {"null", "array", "record"} -> [t EXCEPT !.of = Meaning(defs, @, n)]
    [] t.ts \in {"object", "and"} /\ n = 0 -> Prim("...")
    [] t.ts = "object" -> Obj({[f EXCEPT !.type = Meaning(defs, @, n - 1)] : f \in t.fields})
    [] t.ts = "and" ->
         LET all == [i \in DOMAIN t.parts |-> Meaning(defs, t.parts[i], n)] IN
         IF \A i \in DOMAIN all : all[i].ts = "object" THEN FoldLeft(Joined, NoFields, all)
         ELSE And(all)
    [] OTHER -> t

RECURSIVE Shape(_, _)

\* encoding/json: the fields of an embedded struct without a tag are written
\* as if they were the outer struct's, exported or not; an embedded type of
\* another kind is a field like any other.
Promoted(f) == f.embedded /\ f.tag = "" /\ IsStruct(Embedded(f))
Written(f) == f.exported /\ f.tag # "-" /\ ~Promoted(f)

ShapeField(f, n) ==
  [name |-> IF f.tag # "" THEN f.tag ELSE f.name, optional |-> "omitempty" \in f.opts,
   type |-> IF "string" \in f.opts THEN Prim("string") ELSE Shape(f.type, n)]

\* What encoding/json writes for a Go type whose slices, maps and embedded
\* pointers are not nil.
Shape(t, n) ==
  CASE t.go = "named" ->
         IF Key(t) \in DOMAIN WellKnown THEN WellKnown[Key(t)]
         ELSE IF IsEnum(t) THEN OneOf(Decls[Key(t)].consts)
         ELSE Shape(Underlying(t), n)
    [] t.go = "basic" -> MapBasic(t.name)
    [] t.go = "pointer" -> OrNull(Shape(t.elem, n))
    [] t.go = "slice" -> IF t.elem = Basic("byte") THEN Prim("string") ELSE Arr(Shape(t.elem, n))
    [] t.go = "map" -> Rec(Shape(t.elem, n))
    [] t.go = "struct" /\ n = 0 -> Prim("...")
    [] t.go = "struct" ->
         LET fields == ToSet(t.fields) IN
         Obj({ShapeField(f, n - 1) : f \in {f \in fields : Written(f)}}
             \cup UNION {Shape(Embedded(f), n).fields : f \in {f \in fields : Promoted(f)}})
    [] t.go = "interface" -> Prim("unknown")

-----------------------------------------------------------------------------
(* Types the two mappings are right about *)

RECURSIVE Parts(_, _)

\* The types a type is made of, down to n structs.
Parts(t, n) ==
  {t} \cup
  CASE t.go \in {"pointer", "slice", "map"} -> Parts(t.elem, n)
    [] t.go = "struct" /\ n > 0 -> UNION {Parts(t.fields[i].type, n - 1) : i \in DOMAIN t.fields}
    [] t.go = "named" ->
         UNION {Parts(t.args[i], n) : i \in DOMAIN t.args}
         \cup (IF Key(t) \in DOMAIN WellKnown THEN {} ELSE Parts(Underlying(t), n))
    [] OTHER -> {}

AllParts(ts) == UNION {Parts(t, Depth) : t \in ts}

NamedParts(ts) == {t \in AllParts(ts) : t.go = "named" /\ Key(t) \notin DOMAIN WellKnown}

FieldsOf(ts) == UNION {ToSet(t.fields) : t \in {t \in AllParts(ts) : t.go = "struct"}}

\* Arguments of generic types have a name; no type is called like another
\* with its package in front; what is embedded is an exported struct without a
\* tag; other fields have tags; none hides another; and no brackets follow an
\* intersection.
Mappable(ts) ==
  LET named == NamedParts(ts) IN
  /\ \A t \in named : \A i \in DOMAIN t.args : t.args[i].go \in {"named", "basic", "pointer"}
  /\ \A t \in named, u \in named :
       /\ Disambiguate(t) # u.name
       /\ Disambiguate(t) = Disambiguate(u) => Key(t) = Key(u)
  /\ \A f \in FieldsOf(ts) :
       IF f.embedded THEN f.exported /\ Key(Embedded(f)) \notin DOMAIN WellKnown /\ Promoted(f)
       ELSE f.tag # "" \/ ~f.exported
  /\ \A t \in AllParts(ts) : t.go = "struct" =>
       LET fields == Shape(t, Depth).fields IN
       \A f \in fields, g \in fields : f.name = g.name => f = g
  /\ \A t \in AllParts(ts) : t.go = "slice" /\ t.elem.go = "struct" =>
       \A i \in DOMAIN t.elem.fields : ~t.elem.fields[i].embedded

\* Exported structs of one package without embedding, and no generic types,
\* aliases, enums or bytes.
ASTMappable(ts) ==
  /\ \A t \in NamedParts(ts) :
       /\ t.args = <<>> /\ Decls[Key(t)].under.go = "struct"
       /\ Cardinality(StructDefs(t.name)) = 1
  /\ \A f \in FieldsOf(ts) : ~f.embedded /\ f.exported /\ "string" \notin f.opts
  /\ \A t \in AllParts(ts) :
       /\ t # Slice(Basic("byte"))
       /\ t.go = "named" /\ Key(t) \in DOMAIN WellKnown => Last(t.pkg) \in DOMAIN ASTKnown
=============================================================================
