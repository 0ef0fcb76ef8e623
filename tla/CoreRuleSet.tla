----------------------------- MODULE CoreRuleSet -----------------------------
(***************************************************************************)
(* The SecLang configuration of @coraza/coreruleset (index.ts): a profile  *)
(* and the caller's options become a sequence of directives, which the     *)
(* engine loads in order.                                                  *)
(*                                                                         *)
(* A file of the Core Rule Set is its number, which is also the first      *)
(* three digits of the ids of its rules, so that a range of ids is a range *)
(* of numbers.  The engine is external, and so is the rule set: an Include *)
(* adds the rules of a file, SecRuleRemoveById drops those loaded so far,  *)
(* and 901, the initialisation, gives its defaults to the tuning variables *)
(* that no SecAction before it has set.                                    *)
(***************************************************************************)
EXTENDS Naturals, Sequences, SequencesExt

CONSTANTS
  Undefined,   (* the value of an option that is passed as undefined       *)
  Overrides    (* the options a caller may pass: see OptionNames           *)

OptionNames == {"paranoia", "inboundAnomalyThreshold",
                "outboundAnomalyThreshold", "anomalyBlock",
                "exclude", "outboundExclude", "excludeCategories", "extra"}

CrsCategory ==
  {"scanner-detection", "method-enforcement", "dos-protection", "protocol-attacks",
   "protocol-enforcement", "lfi", "rfi", "rce", "php", "nodejs", "xss", "sqli",
   "session-fixation", "java", "blocking-eval", "outbound-data-leak",
   "outbound-sql-error-leak", "outbound-java-error-leak", "outbound-php-error-leak",
   "outbound-info-leak"}

ASSUME UndefinedAssumption == Undefined \notin Nat \cup BOOLEAN
ASSUME OverridesAssumption ==
  \A o \in Overrides :
    /\ DOMAIN o \subseteq OptionNames
    /\ "anomalyBlock" \in DOMAIN o => o.anomalyBlock \in BOOLEAN \cup {Undefined}
    /\ "excludeCategories" \in DOMAIN o =>
         o.excludeCategories = Undefined \/ o.excludeCategories \in Seq(CrsCategory)

CategoryRanges == [cat \in CrsCategory |->
  CASE cat = "scanner-detection"        -> <<910, 913>>
    [] cat = "method-enforcement"       -> <<911, 911>>
    [] cat = "dos-protection"           -> <<912, 912>>
    [] cat = "protocol-attacks"         -> <<920, 921>>
    [] cat = "protocol-enforcement"     -> <<920, 920>>
    [] cat = "lfi"                      -> <<930, 930>>
    [] cat = "rfi"                      -> <<931, 931>>
    [] cat = "rce"                      -> <<932, 932>>
    [] cat = "php"                      -> <<933, 933>>
    [] cat = "nodejs"                   -> <<934, 934>>
    [] cat = "xss"                      -> <<941, 941>>
    [] cat = "sqli"                     -> <<942, 942>>
    [] cat = "session-fixation"         -> <<943, 943>>
    [] cat = "java"                     -> <<944, 944>>
    [] cat = "blocking-eval"            -> <<949, 949>>
    [] cat = "outbound-data-leak"       -> <<950, 950>>
    [] cat = "outbound-sql-error-leak"  -> <<951, 951>>
    [] cat = "outbound-java-error-leak" -> <<952, 952>>
    [] cat = "outbound-php-error-leak"  -> <<953, 953>>
    [] cat = "outbound-info-leak"       -> <<954, 954>>]

Initialization == 901
CrsFiles ==
  <<Initialization, 905, 911, 913, 920, 921, 922, 930, 931, 932, 933, 934, 941, 942,
    943, 944, 949, 950, 951, 952, 953, 954, 955, 959, 980>>

RequestLangFiles  == [php |-> 933, java |-> 944]
ResponseLangFiles == [java |-> 952, php |-> 953, iis |-> 954]
DefaultExclude    == {"php", "java", "dotnet"}

(* Languages without a file of their own have no effect.                   *)
FilesOf(langs, files) == {files[l] : l \in langs \cap DOMAIN files}
OneAxis(exclude, outboundExclude) ==
  FilesOf(exclude \cup outboundExclude, RequestLangFiles)
    \cup FilesOf(exclude \cup outboundExclude, ResponseLangFiles)
FilesToSkip(exclude, outboundExclude) ==
  FilesOf(exclude, RequestLangFiles) \cup FilesOf(outboundExclude, ResponseLangFiles)

-----------------------------------------------------------------------------
(* options.name ?? default, and { ...profile, ...overrides }.              *)
Or(options, name, default) ==
  IF name \in DOMAIN options /\ options[name] # Undefined
  THEN options[name] ELSE default
Spread(profile, overrides) ==
  [name \in DOMAIN profile \cup DOMAIN overrides |->
     IF name \in DOMAIN overrides THEN overrides[name] ELSE profile[name]]

Setup(file)   == [op |-> "setup", file |-> file]
Set(var, val) == [op |-> "set", var |-> var, val |-> val]
Include(file) == [op |-> "include", file |-> file]
RemoveBy(cat) == [op |-> "remove", range |-> CategoryRanges[cat]]

Tuning(options) ==
  <<Set("paranoia", Or(options, "paranoia", 1)),
    Set("inbound", Or(options, "inboundAnomalyThreshold", 5)),
    Set("outbound", Or(options, "outboundAnomalyThreshold", 4))>> \o
  IF Or(options, "anomalyBlock", TRUE) THEN << >> ELSE <<Set("early_blocking", 0)>>

(* The files that are not skipped, pushed one after the other.             *)
Push(parts, file, skip) == IF file \in skip THEN parts ELSE Append(parts, Include(file))
Pushed(skip) ==
  LET parts[k \in 0..Len(CrsFiles)] ==
        IF k = 0 THEN << >> ELSE Push(parts[k - 1], CrsFiles[k], skip)
  IN parts

Includes(options) ==
  Pushed(FilesToSkip(Or(options, "exclude", DefaultExclude),
                     Or(options, "outboundExclude", {})))[Len(CrsFiles)]

Removals(options) ==
  LET cats == Or(options, "excludeCategories", << >>)
  IN [k \in DOMAIN cats |-> RemoveBy(cats[k])]

Extra(options) ==
  IF Or(options, "extra", "") = "" THEN << >> ELSE <<[op |-> "extra"]>>

Prologue == <<Setup("coraza.conf-recommended"), Setup("crs-setup.conf.example")>>
RemovedFirst(options) ==
  Prologue \o Tuning(options) \o Removals(options) \o Includes(options) \o Extra(options)
TunedLast(options) ==
  Prologue \o Includes(options) \o Tuning(options) \o Removals(options) \o Extra(options)
Recommended(options) ==
  Prologue \o Tuning(options) \o Includes(options) \o Removals(options) \o Extra(options)

Profiles ==
  [recommended |-> << >>,
   balanced    |-> [paranoia |-> 1],
   strict      |-> [paranoia |-> 2, inboundAnomalyThreshold |-> 3],
   permissive  |-> [paranoia |-> 1, inboundAnomalyThreshold |-> 10,
                    outboundAnomalyThreshold |-> 8, anomalyBlock |-> FALSE]]

-----------------------------------------------------------------------------
(* The engine: the files whose rules are active, the tuning variables, and *)
(* what the initialisation has found in them.  Undefined: not set.         *)
TuningVars == {"paranoia", "inbound", "outbound", "early_blocking"}
Unset == [var \in TuningVars |-> Undefined]
Nothing == [rules |-> {}, tx |-> Unset, tuned |-> Unset]

LoadAction(engine, d) == [engine EXCEPT !.tx[d.var] = d.val]
LoadFile(engine, d) ==
  [engine EXCEPT !.rules = @ \cup {d.file},
                 !.tuned = IF d.file = Initialization THEN engine.tx ELSE @]
RemoveById(engine, d) ==
  [engine EXCEPT !.rules = {f \in @ : f < d.range[1] \/ f > d.range[2]}]

Load(engine, d) ==
  CASE d.op = "set" -> LoadAction(engine, d)
    [] d.op = "include" -> LoadFile(engine, d)
    [] d.op = "remove" -> RemoveById(engine, d)
    [] d.op \in {"setup", "extra"} -> engine

Loading(directives) ==
  LET engine[k \in 0..Len(directives)] ==
        IF k = 0 THEN Nothing ELSE Load(engine[k - 1], directives[k])
  IN engine

Loaded(profile, overrides) ==
  LET directives == Recommended(Spread(Profiles[profile], overrides))
  IN Loading(directives)[Len(directives)]

-----------------------------------------------------------------------------
(* "Outbound ... rules are unaffected": a language is dropped from the     *)
(* requests or from the responses, as asked, and by itself an exclusion of *)
(* languages drops nothing else.                                           *)
LanguagesAreDropped ==
  \A p \in DOMAIN Profiles, o \in Overrides :
    LET exclude  == Or(o, "exclude", {"php", "java"})
        outbound == Or(o, "outboundExclude", {})
    IN Or(o, "excludeCategories", << >>) = << >> =>
         \A f \in ToSet(CrsFiles) :
           f \notin Loaded(p, o).rules <=>
             \/ f = 933 /\ "php" \in exclude
             \/ f = 944 /\ "java" \in exclude
             \/ f = 952 /\ "java" \in outbound
             \/ f = 953 /\ "php" \in outbound
             \/ f = 954 /\ "iis" \in outbound

(* The files that are named for a category.                                *)
Named(cat) ==
  CASE cat = "scanner-detection" -> {913}
    [] cat = "dos-protection" -> {912}
    [] cat = "protocol-attacks" -> {921}
    [] OTHER -> {CategoryRanges[cat][1]}

(* "Excluding a category drops the rule IDs in that range": once the       *)
(* configuration is loaded no rule of an excluded category is active, in   *)
(* whatever order categories and languages are excluded.                   *)
CategoriesAreDropped ==
  \A p \in DOMAIN Profiles, o \in Overrides :
    \A cat \in ToSet(Or(o, "excludeCategories", << >>)) :
      Loaded(p, o).rules \cap Named(cat) = {}

(* The initialisation of the rule set is active, and it finds the levels and the thresholds  *)
(* of the caller or of the profile, and early blocking off only when asked *)
(* or in the permissive profile.  An option that is passed as undefined    *)
(* counts as given, and then as left to the default of recommended().      *)
TuningReachesTheRules ==
  \A p \in DOMAIN Profiles, o \in Overrides :
    LET engine == Loaded(p, o)
        tuned  == engine.tuned
        Level(name, var, default) ==
          IF name \in DOMAIN o
          THEN tuned[var] = (IF o[name] = Undefined THEN default ELSE o[name])
          ELSE CASE p = "strict" /\ var = "paranoia" -> tuned[var] = 2
                 [] p = "strict" /\ var = "inbound" -> tuned[var] < 5
                 [] p = "permissive" /\ var # "paranoia" -> tuned[var] > default
                 [] OTHER -> tuned[var] = default
    IN /\ Initialization \in engine.rules
       /\ \A var \in TuningVars \ {"early_blocking"} : tuned[var] # Undefined
       /\ Level("paranoia", "paranoia", 1)
       /\ Level("inboundAnomalyThreshold", "inbound", 5)
       /\ Level("outboundAnomalyThreshold", "outbound", 4)
       /\ tuned["early_blocking"] # Undefined <=>
            IF "anomalyBlock" \in DOMAIN o
            THEN o.anomalyBlock = FALSE ELSE p = "permissive"

AllAsAsked == LanguagesAreDropped /\ CategoriesAreDropped /\ TuningReachesTheRules
=============================================================================
