--------------------------- MODULE MCSyncAdapters ---------------------------
(***************************************************************************)
(* SyncAdapters with the nested calls of a block page, over the matcher of *)
(* Ignore, and with what the comments of ignore.ts list as text.           *)
(***************************************************************************)
EXTENDS NestedCalls, Ignore

(* Every way of listing a request, alone and together with a function.     *)
Plain == [defaults |-> FALSE, extensions |-> {}, routes |-> <<>>,
          regexp |-> NoRegExp, global |-> FALSE, methods |-> {},
          cutoff |-> NoNumber, headerEquals |-> {}, match |-> "absent"]

MCSpecs ==
  {Plain,
   [Plain EXCEPT !.defaults = TRUE, !.match = "throws"],
   [Plain EXCEPT !.extensions = {<<1, Dot, 12>>}, !.match = SkipAll],
   [Plain EXCEPT !.routes = << <<Slash, 1, One, Many, 3>> >>,
                 !.methods = {"OPTIONS"}],
   [Plain EXCEPT !.regexp = Class(<<1, 2>>), !.global = TRUE],
   [Plain EXCEPT !.cutoff = 1, !.headerEquals = {<<"via", {"a", "b"}>>}],
   [Plain EXCEPT !.defaults = TRUE, !.cutoff = 0, !.match = SkipBody],
   SkipToIgnore([defaults |-> TRUE, extensions |-> {<<2>>},
                 prefixes |-> << <<Slash, 1>>, <<Slash, 2, Many>> >>,
                 pattern |-> Lit(<<3, Slash>>), custom |-> Inspect])}

Paths ==
  {<<Slash>>, <<Slash, 1, 2>>, <<Slash, 2, Dot, 13>>, <<Slash, 1, Dot, 2>>,
   <<Slash, 3, Dot, 1, Dot, 2>>, <<Slash, 3, Slash, 1>>, <<Slash, 1, 2, 3>>,
   <<Slash, 3, Dot, 3, Slash, Dot>>}
MCContexts ==
  [method : {"GET", "OPTIONS"}, path : Paths, contentLength : {NoNumber},
   headers : {<<>>}]
    \cup
  [method : {"GET"}, path : {<<Slash>>, <<Slash, 1, Dot, 2>>},
   contentLength : {NoNumber, 1, 2},
   headers : {<<>>, [via |-> "a"], [via |-> "c"]}]

(* What fails in the request phase is the matter of Adapters: one case of  *)
(* each there, and every case of the response.                             *)
MCFindings ==
  {f \in AllFindings :
     f.req # "pass" => f.read /\ f.log /\ f.mime /\ f.hdr = "block" /\ f.body = "pass"}

MCIndexes == 0 .. 8

-----------------------------------------------------------------------------
(* What the comments of ignore.ts list, by definitions of their own: a     *)
(* glob is matched character by character against some prefix of the path, *)
(* an extension is what the path ends with after a dot, and an expression  *)
(* is tried at every position.  The comments differ on the star of a glob. *)
(* By that of compileRoute it stands for zero or more characters, by the   *)
(* documentation of IgnoreSpec.routes for one or more path segments.       *)
Segments(s) ==
  s # <<>> /\ \A k \in DOMAIN s : s[k] = Slash =>
                k > 1 /\ k < Len(s) /\ s[k - 1] # Slash
StandsFor(star, s) == star = "characters" \/ Segments(s)

RECURSIVE Globs(_, _, _)
Globs(star, glob, path) ==
  CASE glob = <<>> -> TRUE
    [] glob # <<>> /\ Head(glob) = Many ->
         \E n \in 0 .. Len(path) :
           /\ StandsFor(star, SubSeq(path, 1, n))
           /\ Globs(star, Tail(glob), SubSeq(path, n + 1, Len(path)))
    [] OTHER -> /\ path # <<>>
                /\ Head(glob) = One \/ Head(glob) = Head(path)
                /\ Globs(star, Tail(glob), Tail(path))

ListedByText(s, c) ==
  \/ c.method \in s.methods
  \/ \E e \in Extensions(s) :
       IsSuffix(<<Dot>> \o ToLowerCase(e), ToLowerCase(c.path))
  \/ \E k \in DOMAIN Routes(s) : Globs("characters", Routes(s)[k], c.path)
  \/ HeadersEqual(s, c)
ListedByRegExp(s, c) == s.regexp # NoRegExp /\ Matches(s.regexp, c.path, "v8")
LongerThanCutoff(s, c) == s.cutoff # NoNumber /\ c.contentLength > s.cutoff

(* The hypothesis of the theorem about VerdictIsAsDeclared, for the lists  *)
(* of ignore.ts and every setting, request and lastIndex of this instance; *)
(* with the star of a route as the comment of compileRoute has it.         *)
ASSUME ListsAreAsDeclared == DeclaredLists

(* The code does not follow the documentation of IgnoreSpec.routes: what   *)
(* that lists bypasses the WAF, and so do paths that it does not list.     *)
ASSUME RoutesAreWiderThanDocumented ==
  LET Lists(route, path) == Matches(CompileRoute(route), path, "v8")
      Documented(route, path) == Globs("segments", route, path)
      AllRoutes == UNION {{Routes(s)[k] : k \in DOMAIN Routes(s)} : s \in Specs}
  IN /\ \A g \in AllRoutes, p \in Paths : Documented(g, p) => Lists(g, p)
     /\ \E g \in AllRoutes, p \in Paths : Lists(g, p) /\ ~Documented(g, p)

=============================================================================
