----------------------------- MODULE MCGenerate -----------------------------
(* A chat-like application: a root, two routers and a package "auth", with  *)
(* every order of the statements that build it; and pairs of types.         *)
EXTENDS Generate

MCMain == <<"main">>
Auth == <<"auth">>
Renamed == <<"auth", "v2">>
Beside == <<"go-trpc", "auth">>
Models == <<"app", "models">>
Store == <<"app", "store">>

Field(name, tag, type) ==
  [name |-> name, tag |-> tag, opts |-> {}, embedded |-> FALSE, exported |-> TRUE, type |-> type]
Omit(f) == [f EXCEPT !.opts = {"omitempty"}]
Embed(type) == [Field("", "", type) EXCEPT !.embedded = TRUE]
Type(under) == [under |-> under, consts |-> {}]

String == Basic("string")
Number == Basic("int")
User == Named(Models, <<"User">>, <<>>)
StoredUser == Named(Store, <<"User">>, <<>>)
Status == Named(Models, <<"Status">>, <<>>)
Admin == Named(Models, <<"Admin">>, <<>>)
Level == Named(Models, <<"level">>, <<>>)
Time == Named(<<"time">>, <<"Time">>, <<>>)
Response(t) == Named(Models, <<"Response">>, <<t>>)
ResponseUser == Named(Models, <<"Response", "User">>, <<>>)
Task == Named(Models, <<"Task">>, <<>>)
Page == Named(Models, <<"Page">>, <<>>)

MCDecls ==
  (<<Models, <<"User">>>> :> Type(Struct(<<Field("Name", "name", String),
       Field("Boss", "boss", Pointer(User)), Field("Secret", "-", String)>>))) @@
  (<<Store, <<"User">>>> :> Type(Struct(<<Field("ID", "id", Number), Omit(Field("At", "at", Time)),
       Field("Raw", "raw", Slice(Basic("byte")))>>))) @@
  (<<Models, <<"Status">>>> :> [under |-> String, consts |-> {"on", "off"}]) @@
  (<<Models, <<"Admin">>>> :> Type(Struct(<<Embed(Pointer(User)),
       Field("Status", "status", Status), [Field("level", "", Number) EXCEPT !.exported = FALSE]>>))) @@
  (<<Models, <<"Response">>>> :> Type(Struct(<<Field("Data", "data", Param(1)),
       Field("Users", "users", Slice(Pointer(StoredUser)))>>))) @@
  (<<Models, <<"Response", "User">>>> :> Type(Struct(<<Field("Only", "only", Number)>>))) @@
  (<<Models, <<"Task">>>> :> Type(Struct(<<Field("Title", "title", String),
       Field("Sub", "sub", Slice(Named(Models, <<"Task">>, <<>>))), Omit(Field("Due", "due", Time))>>))) @@
  (<<Models, <<"level">>>> :> Type(Number)) @@
  (<<Models, <<"Page">>>> :> Type(Struct(<<Field("Tasks", "tasks", Map(Slice(Task))),
       Field("More", "", Interface)>>)))

MCDeclared == (MCMain :> "main") @@ (Auth :> "auth") @@ (Renamed :> "auth") @@ (Beside :> "auth")
MCLibrarySegments == {"go-trpc"}

MCWellKnown == (<<<<"time">>, <<"Time">>>> :> Prim("string"))
MCCapital == [string |-> "String", number |-> "Number", models |-> "Models", store |-> "Store",
              unknown |-> "Unknown", level |-> "Level", boolean |-> "Boolean"]
MCLower == [More |-> "more", Name |-> "name"]

-----------------------------------------------------------------------------

Reg(var, name, own) ==
  [pkg |-> MCMain, op |-> "register", var |-> var, name |-> name, type |-> "query", literal |-> TRUE,
   own |-> own, in |-> Struct(<<>>), out |-> String]
Using(var, mw) == [pkg |-> MCMain, op |-> "use", var |-> var, mw |-> mw]
Mrg(parent, prefix, child) ==
  [pkg |-> MCMain, op |-> "merge", parent |-> parent, prefix |-> prefix, child |-> child, of |-> Auth, literal |-> TRUE]
Assign(var, router) ==
  [pkg |-> MCMain, op |-> "assign", var |-> var, of |-> Auth, router |-> router, aliased |-> FALSE]

\* The statements of an application in all the ways they may go wrong.
Pieces == {
  Reg("app", <<"get">>, <<>>), Reg("v", <<"get">>, <<"own">>), Reg("w", <<"get">>, <<>>),
  [Reg("app", <<"computed">>, <<>>) EXCEPT !.literal = FALSE],
  Reg("app", <<"p">>, <<>>), [Reg("v", <<"get">>, <<>>) EXCEPT !.type = "mutation"],
  Using("app", "a"), Using("v", "b"),
  Mrg("app", <<"p">>, "v"), Mrg("app", <<"q">>, "v"), Mrg("v", <<"q">>, "w"),
  Mrg("app", <<"p">>, ""), Assign("v", TRUE), Assign("x", FALSE)}

\* A program that nests routers, to be put in every order.
Nested == {Reg("w", <<"get">>, <<"own">>), Using("w", "c"), Mrg("v", <<"q">>, "w"),
           Using("v", "b"), Mrg("app", <<"p">>, "v"), Using("app", "a")}

\* One that keeps a factory's router, and assigns another call of its package.
Filled == {Assign("v", TRUE), Assign("x", FALSE), Using("v", "b"), Reg("v", <<"get">>, <<"own">>),
           Mrg("app", <<"p">>, "v")}

Sequences(S, n) == {f \in [1..n -> S] : IsInjective(f)}

Body == <<Reg("r", <<"login">>, <<"own">>), Using("r", "f")>>
Factories == {Body, <<Reg("s", <<"login">>, <<>>), Mrg("r", <<"t">>, "s")>>}

WithAuth(stmts) == \E s \in ToSet(stmts) : s.op = "assign" \/ (s.op = "merge" /\ s.child = "")

\* A statement of main whose calls go to the package, under an alias or not.
Calling(s, pkg, aliased) ==
  CASE s.op = "assign" -> [s EXCEPT !.of = pkg, !.aliased = aliased]
    [] s.op = "merge"  -> [s EXCEPT !.of = pkg]
    [] OTHER           -> s

ProgramWith(stmts, body, pkg, aliased) ==
  [i \in DOMAIN stmts |-> Calling(stmts[i], pkg, aliased)]
    \o [i \in DOMAIN body |-> [body[i] EXCEPT !.pkg = pkg]]

Program(stmts, body) == ProgramWith(stmts, body, Auth, FALSE)

Typed(t, u) ==
  <<[Reg("app", <<"one">>, <<>>) EXCEPT !.in = t, !.out = u],
    [Reg("app", <<"two">>, <<>>) EXCEPT !.in = u, !.out = Slice(t)]>>

GoTypes == {
  String, Slice(Basic("byte")), Pointer(Pointer(Number)), Map(Slice(Pointer(User))), Interface, User,
  StoredUser, Slice(Status), Admin, Struct(<<Embed(User), Field("X", "x", Number)>>), Time,
  Response(User), Response(Pointer(User)), Response(StoredUser), Response(Response(String)),
  Response(Level), Level, ResponseUser, Task, Page, Struct(<<Field("Tasks", "tasks", Slice(Task))>>)}

MCDrafts ==
  {Program(<<>>, <<>>),
   Program(<<Reg("app", <<"get">>, <<>>)>>, <<>>),
   Program(<<Reg("app", <<"get">>, <<>>), Reg("app", <<"set">>, <<>>)>>, <<>>)}

MCPrograms ==
  MCDrafts
  \cup {Program(s, b) : s \in {s \in UNION {Sequences(Pieces, n) : n \in 1..3} : WithAuth(s)}, b \in Factories}
  \cup ({s \in UNION {Sequences(Pieces, n) : n \in 1..3} : ~WithAuth(s)}
               \cup UNION {Sequences(Nested, n) : n \in 4..6})
  \cup {Program(s, Body) : s \in UNION {Sequences(Filled, n) : n \in 4..5}}
  \cup {ProgramWith(s, Body, pkg, a) :
           s \in Sequences(Filled, 4), pkg \in {Renamed, Beside}, a \in BOOLEAN}
  \cup {Typed(t, u) : t \in GoTypes, u \in GoTypes}

\* Two instances of one generic type.
GenericPrograms == {Typed(Response(User), Response(Slice(User)))}
=============================================================================
