--------------------------- MODULE MutationEngine ---------------------------
(***************************************************************************)
(* The mutation engine: the mutations of one request, without duplicates,  *)
(* each with a severity.  Pure operators; the engine keeps no state.       *)
(*                                                                         *)
(* A URL is the pieces of its authority and of its path, a suffix, and the *)
(* form in which it is spelled; an authority may be empty.  A piece is a   *)
(* word, a number or a version (a number after "v"), and a segment of a    *)
(* path is one piece.  Numbers are their digits, for the mutators replace  *)
(* them as text.  Abstracted: the characters between pieces; two words     *)
(* contain one another only if they are equal; numbers beyond the exact    *)
(* ones of JavaScript; how many suffixes and payloads each list has; the   *)
(* data that a strategy's name quotes and its reason.  Parameters are left *)
(* out: the only caller passes none.                                       *)
(***************************************************************************)
EXTENDS Integers, Lists

CONSTANTS
  Extensions, Junk, Traversals,   \* lists of suffixes that the path mutator appends
  Payloads, Blanks,               \* values for a field: injections; "", "null", ...
  Garbage, Privileges, Types,     \* values for headers: tokens, roles, content types
  Spoofed,                        \* headers that claim an address
  AuthHeader, RoleHeader, TenantHeader, TypeHeader, \* header names, by what they contain
  Dangerous,                      \* the fields of a mass assignment
  Number                          \* Number[v]: the number a value stands for, if any

ASSUME EngineAssumption ==
  {Extensions, Junk, Traversals, Payloads, Blanks, Garbage, Privileges, Types, Spoofed}
    \subseteq Seq(STRING)

Piece == [kind : {"word", "WORD", "number", "version"}, text : STRING, digits : Seq(Int)]

Word(w)    == [kind |-> "word", text |-> w, digits |-> <<>>]
Digits(ds) == [kind |-> "number", text |-> "", digits |-> ds]
Version(ds) == [kind |-> "version", text |-> "v", digits |-> ds]
Upper(p) ==
  CASE p.kind = "word"    -> [p EXCEPT !.kind = "WORD"]
    [] p.kind = "version" -> [p EXCEPT !.text = "V"]
    [] OTHER              -> p

\* A number and its digits, with -1 for a minus sign.
Value(digits) == FoldLeft(LAMBDA v, d : 10 * v + d, 0, digits)
Decimal[n \in Nat] == IF n < 10 THEN <<n>> ELSE Append(Decimal[n \div 10], n % 10)
Numeral(n) == IF n < 0 THEN <<-1>> \o Decimal[-n] ELSE Decimal[n]

UrlOf(authority, path) ==
  [authority |-> authority, path |-> path, suffix |-> "", form |-> "plain"]
NoUrl == UrlOf(<<>>, <<>>)

\* A method and how it is spelled: which letter is in the other case.
Spelled(name, form, i) == [name |-> name, form |-> form, letter |-> i]
Method(name) == Spelled(name, "upper", 0)
NoMethod     == Method("")

\* A mutation carries only the parts of the request that it sets.
Mutation(carries, strategy) ==
  [carries |-> carries, strategy |-> strategy,
   method |-> NoMethod, path |-> NoUrl, headers |-> <<>>, body |-> <<>>]
OfHeaders(headers, strategy) == [Mutation({"headers"}, strategy) EXCEPT !.headers = headers]
OfBody(body, strategy)       == [Mutation({"body"}, strategy) EXCEPT !.body = body]
OfMethod(method, strategy)   == [Mutation({"method"}, strategy) EXCEPT !.method = method]
OfPath(url, strategy)        == [Mutation({"path"}, strategy) EXCEPT !.path = url]

Only(key, value)   == [k \in {key} |-> value]
Put(f, key, value) == (key :> value) @@ f
Without(f, key)    == [k \in DOMAIN f \ {key} |-> f[k]]

\* One mutation for each value of a list that replaces f[key].
PutEach(f, key, values) == [i \in DOMAIN values |-> Put(f, key, values[i])]
HeadersEach(h, key, values, strategy) ==
  [i \in DOMAIN values |-> OfHeaders(PutEach(h, key, values)[i], strategy)]
BodiesEach(b, key, values, strategy) ==
  [i \in DOMAIN values |-> OfBody(PutEach(b, key, values)[i], strategy)]

-----------------------------------------------------------------------------
(* The mutators.                                                           *)

RemoveHeader(h, key) == <<OfHeaders(Without(h, key), "remove_header")>>
BlankValue(h, key)   == HeadersEach(h, key, <<"">>, "blanking_value")
GarbageToken(h, key) ==
  IF key \in AuthHeader THEN HeadersEach(h, key, Garbage, "garbage_token") ELSE <<>>
PrivilegeEsc(h, key) ==
  IF key \in RoleHeader THEN HeadersEach(h, key, Privileges, "privelege_esc") ELSE <<>>
TenantSwapping(h, key) ==
  IF key \in TenantHeader /\ h[key] \in DOMAIN Number
  THEN LET n == Number[h[key]] IN
       HeadersEach(h, key, <<ToString(n - 1), ToString(n + 1), "0", "1", "9999">>, "tenant_swap")
  ELSE <<>>
ContentTypeSwap(h, key) ==
  IF key \in TypeHeader THEN HeadersEach(h, key, Types, "type_swap") ELSE <<>>
IdSpoofing(h) ==
  [i \in DOMAIN Spoofed |-> OfHeaders(Put(h, Spoofed[i], "127.0.0.1"), "id_spoof")]

HeaderMutations(h) ==
  LET Of(key) == RemoveHeader(h, key) \o BlankValue(h, key) \o GarbageToken(h, key)
                 \o PrivilegeEsc(h, key) \o TenantSwapping(h, key) \o ContentTypeSwap(h, key)
      keys == SetToSeq(DOMAIN h)
  IN  FlattenSeq([i \in DOMAIN keys |-> Of(keys[i])]) \o IdSpoofing(h)

\* Fields of a body have a type; the injected values are strings.
Text(v)     == [type |-> "string", value |-> v]
Texts(list) == [i \in DOMAIN list |-> Text(list[i])]

IdEnumeration(b, key) ==
  IF b[key].value \in DOMAIN Number
  THEN LET n == Number[b[key].value] IN
       BodiesEach(b, key, Texts(<<ToString(n - 1), ToString(n + 1), "1", "0", "99999", "-1">>),
                  "id_enum")
  ELSE <<>>
RemoveField(b, key)        == <<OfBody(Without(b, key), "remove_field")>>
InjectSpecialChars(b, key) == BodiesEach(b, key, Texts(Payloads), "inject")
Nullify(b, key)            == BodiesEach(b, key, Texts(Blanks), "nullify")
Confused(type) ==
  CASE type = "string"  -> <<"number", "array", "object", "boolean">>
    [] type = "number"  -> <<"string", "array", "boolean", "null">>
    [] type = "boolean" -> <<"number", "array", "string">>
    [] OTHER            -> <<>>
TypeConfusion(b, key) ==
  LET types == Confused(b[key].type) IN
  BodiesEach(b, key, [i \in DOMAIN types |-> [b[key] EXCEPT !.type = types[i]]], "type_confusion")
MassAssignment(b) == <<OfBody(Dangerous @@ b, "mass_assignment")>>

BodyMutations(b) ==
  LET Of(key) == IdEnumeration(b, key) \o RemoveField(b, key) \o InjectSpecialChars(b, key)
                 \o Nullify(b, key) \o TypeConfusion(b, key)
      keys == SetToSeq(DOMAIN b)
  IN  FlattenSeq([i \in DOMAIN keys |-> Of(keys[i])]) \o MassAssignment(b)

Methods == <<"GET", "POST", "PUT", "DELETE", "PATCH", "OPTIONS", "HEAD">>
Length  == [GET |-> 3, POST |-> 4, PUT |-> 3, DELETE |-> 6, PATCH |-> 5, OPTIONS |-> 7,
            HEAD |-> 4, TRACE |-> 5]

MethodSwitching(name) ==
  LET others == Picked(Methods, {i \in DOMAIN Methods : Methods[i] # name}) IN
  [i \in DOMAIN others |-> OfMethod(Method(others[i]), "method_switch")]
CaseSwapping(name) ==
  <<OfMethod(Spelled(name, "lower", 0), "case_swap")>> \o
  FlattenSeq([i \in 1..Length[name] |->
    <<OfMethod(Spelled(name, "one lower", i), "case_swap"),
      OfMethod(Spelled(name, "one upper", i), "case_swap")>>])
GarbageMethod ==
  LET names == <<"HACK", "", "FAKEMETHOD", "NULL">> IN
  [i \in DOMAIN names |-> OfMethod(Method(names[i]), "garbage_method")]
MethodOverrideHeader(name) ==
  <<[Mutation({"method", "headers"}, "method_override") EXCEPT
       !.method = Method(name), !.headers = Only("X-HTTP-Method-Override", "DELETE")]>>

MethodMutations(name) ==
  MethodSwitching(name) \o CaseSwapping(name) \o GarbageMethod \o MethodOverrideHeader(name)

Pieces(url) == url.authority \o url.path
SetPiece(url, i, piece) ==
  IF i <= Len(url.authority) THEN [url EXCEPT !.authority[i] = piece]
  ELSE [url EXCEPT !.path[i - Len(url.authority)] = piece]

\* The number mutators take the digits of the last number, or of the last "v" and number.
Numbered(url, kinds) == {i \in DOMAIN Pieces(url) : Pieces(url)[i].kind \in kinds}
LastNumber(url, kinds) == Pieces(url)[Max(Numbered(url, kinds))].digits

\* How many digits of a piece stand before a copy of those: any, but none after a "v".
Offsets(piece, digits, kinds) ==
  {j \in 0..(Len(piece.digits) - Len(digits)) :
     /\ SubSeq(piece.digits, j + 1, j + Len(digits)) = digits
     /\ kinds = {"version"} => j = 0}

\* What they replace is the first copy in the whole URL, part of another number or not:
\* the piece and the offset in it.
Copied(url, kinds) ==
  {i \in Numbered(url, kinds) : Offsets(Pieces(url)[i], LastNumber(url, kinds), kinds) # {}}
\* Mutant of Place: the first number, whatever it is.
PlaceFirst(url, kinds) == <<Min(Numbered(url, kinds)), 0>>
Place(url, kinds) ==
  LET i == Min(Copied(url, kinds))
  IN  <<i, Min(Offsets(Pieces(url)[i], LastNumber(url, kinds), kinds))>>

Rewritten(piece, offset, digits, n) ==
  [piece EXCEPT !.digits = SubSeq(@, 1, offset) \o Numeral(n)
                           \o SubSeq(@, offset + Len(digits) + 1, Len(@))]
Renumbered(url, kinds, candidates, strategy) ==
  IF Numbered(url, kinds) = {} THEN <<>>
  ELSE LET place == Place(url, kinds)
           old   == Pieces(url)[place[1]]
           New(n) == Rewritten(old, place[2], LastNumber(url, kinds), n)
       IN  [k \in DOMAIN candidates |->
             OfPath(SetPiece(url, place[1], New(candidates[k])), strategy)]

PathIdEnumeration(url) ==
  LET kinds == {"number", "version"}
      n == Value(LastNumber(url, kinds))
  IN  Renumbered(url, kinds, <<n - 1, n + 1, 0, 1, 9999>>, "path_id_enumeration")
VersionSwitching(url) ==
  LET n == Value(LastNumber(url, {"version"})) IN
  Renumbered(url, {"version"}, <<n - 1, n + 1, n + 2, n + 5, 9999>>, "version_switching")

Appended(url, suffixes, strategy) ==
  [i \in DOMAIN suffixes |-> OfPath([url EXCEPT !.suffix = suffixes[i]], strategy)]
AddedExtension(url) == Appended(url, Extensions, "added_extension")
AddingJunk(url)     == Appended(url, Junk, "adding_junk")
PathTraversal(url)  == Appended(url, Traversals, "path_traversal")
\* Every slash, those before the authority too: what was the authority is then a part of
\* the path.
DoubleSlashing(url) ==
  <<OfPath([url EXCEPT !.authority = <<>>, !.path = Pieces(url), !.form = "doubled"],
           "double_slashing")>>

\* The segments between slashes that do not end with a version and are no number: scheme,
\* authority, words of the path.
CaseSwitching(url) ==
  LET words == Picked(url.path, {i \in DOMAIN url.path : url.path[i].kind = "word"})
      First(p) == Min({i \in DOMAIN Pieces(url) : Pieces(url)[i] = p})
      host == url.authority
  IN  <<OfPath([url EXCEPT !.form = "SCHEME"], "case_switching")>>
      \o (IF host # <<>> /\ host[Len(host)].kind = "version" THEN <<>>
          ELSE <<OfPath([url EXCEPT !.authority = [i \in DOMAIN @ |-> Upper(@[i])]],
                        "case_switching")>>)
      \o [i \in DOMAIN words |->
           OfPath(SetPiece(url, First(words[i]), Upper(words[i])), "case_switching")]

PathMutations(url) ==
  PathIdEnumeration(url) \o AddedExtension(url) \o AddingJunk(url) \o CaseSwitching(url)
  \o DoubleSlashing(url) \o PathTraversal(url) \o VersionSwitching(url)

-----------------------------------------------------------------------------
(* The engine.                                                             *)

\* All mutations of a request, in the order of the mutators.
AllMutations(request) ==
  (IF request.headers = <<>> THEN <<>> ELSE HeaderMutations(request.headers))
  \o (IF request.body = <<>> THEN <<>> ELSE BodyMutations(request.body))
  \o MethodMutations(request.method)
  \o PathMutations(request.path)

\* Mutant of Fingerprint: bodies do not count.
FingerprintBodiless(m) == <<m.method, m.path, m.headers>>
\* What a mutation does not carry counts as empty.
Fingerprint(m) == <<m.method, m.path, m.headers, m.body>>

Deduplicate(ms) == Picked(ms, Firsts([i \in DOMAIN ms |-> Fingerprint(ms[i])]))

\* The name of one strategy is spelled "privelege_esc", which no case expects.
Severity(strategy) ==
  CASE strategy = "tenant_swap" -> 5
    [] strategy \in {"garbage_token", "remove_header"} -> 4
    [] strategy \in {"method_switch", "path_traversal", "inject"} -> 3
    [] strategy \in {"id_enum", "path_id_enumeration", "nullify"} -> 2
    [] OTHER -> 1

Mutate(request) ==
  LET kept == Deduplicate(AllMutations(request)) IN
  [i \in DOMAIN kept |-> [mutation |-> kept[i], severity |-> Severity(kept[i].strategy)]]
=============================================================================
