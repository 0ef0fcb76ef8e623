------------------------------- MODULE Ignore -------------------------------
(***************************************************************************)
(* Which requests are listed to bypass the WAF: the lists of               *)
(* buildIgnoreMatcher() of packages/core/src/ignore.ts and the legacy      *)
(* translation of skip.ts.                                                 *)
(*                                                                         *)
(* A pathname is a sequence of the characters of RegexSemantics and of     *)
(* Slash and Dot; a glob may also hold Many and One.  The built-in         *)
(* lists are a sample of one extension and one route.  A spec is a record: *)
(*   defaults      ~skipDefaults                                           *)
(*   extensions    a set of tokens                                         *)
(*   routes        a sequence of globs, each a sequence                    *)
(*   regexp        a RegExp among the routes, after the globs, or NoRegExp *)
(*   global        ... with the flag g: it starts at its lastIndex         *)
(*   methods       a set of upper-case methods                             *)
(*   cutoff        bodyLargerThan, or NoNumber                             *)
(*   headerEquals  a set of <<name, the set of values allowed>>            *)
(*   match         what the function returns; "throws", or "absent"        *)
(* and a context is one of a method, a pathname, a function from header    *)
(* names to values and a contentLength.  A header name stands for every    *)
(* way to write it.                                                        *)
(***************************************************************************)
EXTENDS RegexSemantics, IgnoreVerdicts

Slash == 40
Dot   == 41
Many  == 42  \* the star of a glob
One   == 43  \* its question mark

NoRegExp == Lit(<<>>)
NoNumber == -1

ToLowerCase(s) == [k \in DOMAIN s |-> Folded(s[k], "v8")]

DefaultExtensions == {<<3>>}
DefaultRoutes     == << <<Slash, 3, Slash, Many>> >>

-----------------------------------------------------------------------------
(* A glob becomes an anchored expression, open at its end.                 *)
CompileRoute(glob) ==
  Concat(<<BeginText>> \o
         [k \in DOMAIN glob |-> CASE glob[k] = Many -> Star(AnyChar)
                                  [] glob[k] = One -> AnyChar
                                  [] OTHER -> Lit(<<glob[k]>>)])

(* The suffix after each dot of the basename, longest first.               *)
Basename(path) ==
  SubSeq(path, SelectLastInSeq(path, LAMBDA c : c = Slash) + 1, Len(path))
LastSuffixOf(name) ==
  {SubSeq(name, i + 1, Len(name)) :
     i \in {j \in 1 .. Len(name) - 1 :
              name[j] = Dot /\ \A k \in j + 1 .. Len(name) : name[k] # Dot}}
SuffixesOf(name) ==
  {SubSeq(name, i + 1, Len(name)) :
     i \in {j \in 1 .. Len(name) - 1 : name[j] = Dot}}

ExtensionMatches(path, extensions) ==
  SuffixesOf(ToLowerCase(Basename(path))) \cap extensions # {}

(* RegExp.prototype.test from lastIndex: where it ends, or 0 after a       *)
(* failure.  Every call at the same path need not give the same answer.    *)
Tested(re, path, from) ==
  LET starts == {i \in from .. Len(path) : Ends(re, path, i, "v8") # {}}
  IN IF starts = {} THEN 0 ELSE Max(Ends(re, path, Min(starts), "v8"))
Test(re, path, from) ==
  \E i \in from .. Len(path) : Ends(re, path, i, "v8") # {}

Extensions(spec) ==
  spec.extensions \cup (IF spec.defaults THEN DefaultExtensions ELSE {})
Routes(spec) == (IF spec.defaults THEN DefaultRoutes ELSE <<>>) \o spec.routes

HeadersEqual(spec, ctx) ==
  /\ spec.headerEquals # {}
  /\ \A e \in spec.headerEquals :
       e[1] \in DOMAIN ctx.headers /\ ctx.headers[e[1]] \in e[2]

(* The rules that are tried before the RegExp, and whether it is tried.    *)
BeforeRegExp(spec, ctx) ==
  \/ ctx.method \in spec.methods
  \/ ExtensionMatches(ctx.path, {ToLowerCase(e) : e \in Extensions(spec)})
  \/ \E k \in DOMAIN Routes(spec) :
       Matches(CompileRoute(Routes(spec)[k]), ctx.path, "v8")
TriesRegExp(spec, ctx) == spec.regexp # NoRegExp /\ ~BeforeRegExp(spec, ctx)

Declarative(spec, ctx, lastIndex) ==
  IF \/ BeforeRegExp(spec, ctx)
     \/ spec.regexp # NoRegExp /\ Test(spec.regexp, ctx.path, lastIndex)
     \/ HeadersEqual(spec, ctx)
  THEN SkipAll
  ELSE IF spec.cutoff # NoNumber /\ ctx.contentLength > spec.cutoff
  THEN SkipBody ELSE None

(* Where a RegExp is left by a request.                                    *)
Leaves(spec, ctx, lastIndex) ==
  IF TriesRegExp(spec, ctx)
  THEN Tested(spec.regexp, ctx.path, lastIndex) ELSE lastIndex

-----------------------------------------------------------------------------
(* skip.ts: the prefixes of the old options become globs.                  *)
StartsWith(prefix) == IF prefix # <<>> /\ Last(prefix) = Many
                      THEN prefix ELSE Append(prefix, Many)

SkipToIgnore(opts) ==
  [defaults |-> opts.defaults, extensions |-> opts.extensions,
   routes |-> [k \in DOMAIN opts.prefixes |-> StartsWith(opts.prefixes[k])],
   regexp |-> opts.pattern, global |-> FALSE,
   methods |-> {}, cutoff |-> NoNumber, headerEquals |-> {},
   match |-> opts.custom]
=============================================================================
