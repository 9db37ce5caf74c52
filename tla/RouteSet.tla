----------------------------- MODULE RouteSet -----------------------------
(* The route set that an application fills and NewRouter compiles (route.go) *)
(* A configuration is what one Handle call appends:                          *)
(* [id, pattern, hasSource, source, handler, filter, priority, optionError]  *)
(* where pattern and source are raw (see Patterns), id is NoID unless the    *)
(* RouteID option gave one, handler.type is "none" when no handler was given *)
(* and optionError says that an option was of no supported type or returned  *)
(* an error. The set may be compiled at any time, extended, and compiled     *)
(* again: New takes a *RouteSet, not a copy of it.                           *)
EXTENDS Router

CONSTANTS
    Configs,      \* the configurations that Handle may append
    Policies,     \* the conflict policies that ConflictPolicy may set
    MaxRoutes     \* bound: no more Handle calls than this

ASSUME RouteSetAssumption ==
    /\ MaxRoutes \in Nat
    /\ Policies \subseteq {"error", "mostspecific", "first", "last"}
    /\ \A cfg \in Configs : /\ cfg.pattern \in Seq(Parts) /\ cfg.source \in Seq(Parts)
                             /\ cfg.priority \in Int

VARIABLES
    configs,      \* RouteSet.configs
    policy,       \* RouteSet.conflictPolicy
    optionErr,    \* RouteSet.err # nil: the first option error, kept for good
    built         \* what the last NewRouter returned

routeSetVars == <<configs, policy, optionErr, built>>

NoID == << >>
AutoID(i) == <<"route", i>>        \* fmt.Sprintf("route-%d", i)

NotBuilt == [status |-> "none", router |-> [routes |-> << >>, policy |-> "error"]]
Rejected == [NotBuilt EXCEPT !.status = "error"]

RouteSetInit ==
    /\ configs = << >>
    /\ policy = "error"
    /\ optionErr = FALSE
    /\ built = NotBuilt

\* Handle appends the configuration even when one of its options was an error.
Handle(cfg) ==
    /\ Len(configs) < MaxRoutes
    /\ configs' = Append(configs, cfg)
    /\ optionErr' = (optionErr \/ cfg.optionError)
    /\ UNCHANGED <<policy, built>>

ConflictPolicy(p) ==
    /\ policy' = p
    /\ UNCHANGED <<configs, optionErr, built>>

\* The routes that NewRouter uses for a nil or empty set: "/**" with Identity.
DefaultConfigs ==
    <<[id |-> NoID, pattern |-> <<[kind |-> "glob", text |-> "**"]>>,
       hasSource |-> FALSE, source |-> << >>,
       handler |-> [type |-> "identity", root |-> Root], filter |-> NoFilter,
       priority |-> 0, optionError |-> FALSE]>>

EffectiveID(cfgs, i) == IF cfgs[i].id = NoID THEN AutoID(i) ELSE cfgs[i].id

CompiledRoute(cfgs, i) ==
    LET cfg == cfgs[i]
        pattern == ParsePattern(cfg.pattern)
    IN  [id |-> EffectiveID(cfgs, i), pattern |-> pattern,
         source |-> IF cfg.hasSource THEN cfg.source ELSE DefaultTemplate(pattern),
         handler |-> cfg.handler, filter |-> cfg.filter, priority |-> cfg.priority]

Compiled(cfgs) == [i \in 1..Len(cfgs) |-> CompiledRoute(cfgs, i)]

\* Mutant of ConfigOK: ids are not compared.
ConfigOKAnyID(cfgs, i) ==
    /\ ParsePatternOK(cfgs[i].pattern)
    /\ cfgs[i].handler.type # "none"
    /\ cfgs[i].hasSource => ParseTemplateOK(cfgs[i].source)

ConfigOK(cfgs, i) ==
    /\ ParsePatternOK(cfgs[i].pattern)
    /\ cfgs[i].handler.type # "none"
    /\ cfgs[i].hasSource => ParseTemplateOK(cfgs[i].source)
    /\ \A j \in 1..(i - 1) : EffectiveID(cfgs, j) # EffectiveID(cfgs, i)

\* checkRouteAmbiguity finds no pair.
Unambiguous(routes) ==
    \A i, j \in 1..Len(routes) : i < j => ~AmbiguousPair(routes[i], routes[j])

Accepted(cfgs) ==
    /\ \A i \in 1..Len(cfgs) : ConfigOK(cfgs, i)
    /\ Unambiguous(Compiled(cfgs))

(* NewRouter: an empty set is replaced by the default one, whose conflict    *)
(* policy is the zero value. (err is only set by Handle, which also appends, *)
(* so an empty set never has one.)                                           *)
NewRouter ==
    LET cfgs   == IF configs = << >> THEN DefaultConfigs ELSE configs
        chosen == IF configs = << >> THEN "error" ELSE policy
    IN  /\ built' = IF ~optionErr /\ Accepted(cfgs)
                    THEN [status |-> "ready",
                          router |-> [routes |-> Compiled(cfgs), policy |-> chosen]]
                    ELSE Rejected
        /\ UNCHANGED <<configs, policy, optionErr>>

RouteSetNext ==
    \/ \E cfg \in Configs : Handle(cfg)
    \/ \E p \in Policies : ConflictPolicy(p)
    \/ NewRouter

RouteSetSpec == RouteSetInit /\ [][RouteSetNext]_routeSetVars

Ready == built.status = "ready"
=============================================================================
