------------------------------- MODULE Router --------------------------------
(***************************************************************************)
(* The event router (src/router.go): a tree of groups in which handlers    *)
(* and middleware are registered, compiled once into a table from event    *)
(* names to handlers wrapped in their middleware.                          *)
(*                                                                         *)
(* A name is the sequence of its dot-separated segments, none of them      *)
(* empty, so that trimming dots changes nothing; the wildcard is the       *)
(* segment "*".  A middleware is told apart by its number, in the order of *)
(* the calls.  Only the root's isCompiled is ever set, as in the code.     *)
(***************************************************************************)
EXTENDS Integers, Sequences, FiniteSets, TLC, SequencesExt

CONSTANTS
    GroupPrefixes,  \* group prefixes, <<>> for none
    Names,          \* what On is called with
    Patterns,       \* what Use is called with
    MaxGroups,
    MaxUses,
    MaxRoutes

Root == 0
NoParent == -1

VARIABLES
    parent,         \* of each router; the domain is the routers made so far
    prefix,
    middlewares,    \* of each router: patterns and functions, in order
    endpoints,      \* of each router: full names
    registered,     \* root.registered
    compiled,       \* root.compiled: name -> the functions around its handler
    isCompiled,     \* root.isCompiled
    uses            \* (auxiliary) the accepted calls of Use, in order, with the
                    \* ones a group still takes after Compile marked late

vars == <<parent, prefix, middlewares, endpoints, registered, compiled, isCompiled, uses>>

Routers == DOMAIN parent

Init ==
    /\ parent = (Root :> NoParent) /\ prefix = (Root :> <<>>)
    /\ middlewares = (Root :> <<>>) /\ endpoints = (Root :> <<>>)
    /\ registered = {} /\ compiled = <<>> /\ isCompiled = FALSE /\ uses = <<>>

fullPrefix(r) ==
    LET full[q \in Routers] ==
            IF q = Root THEN prefix[q] ELSE full[parent[q]] \o prefix[q]
    IN  full[r]

\* Faulty: the prefixes of the groups around r are left out
ownPrefixPattern(r, pattern) ==
    IF pattern \in {<<>>, <<"*">>} THEN prefix[r] \o <<"*">> ELSE prefix[r] \o pattern

scopedMiddlewarePattern(r, pattern) ==
    IF pattern \in {<<>>, <<"*">>} THEN fullPrefix(r) \o <<"*">>
    ELSE fullPrefix(r) \o pattern

matchPattern(pattern, event) ==
    IF pattern = <<"*">> THEN TRUE
    ELSE IF Last(pattern) = "*" THEN IsStrictPrefix(Front(pattern), event)
    ELSE pattern = event

Frozen(r) == r = Root /\ isCompiled

Use(r, pattern) ==
    LET route == [pattern |-> scopedMiddlewarePattern(r, pattern), fn |-> Len(uses) + 1]
    IN  /\ ~Frozen(r) /\ Len(uses) < MaxUses
        /\ middlewares' = [middlewares EXCEPT ![r] = Append(@, route)]
        /\ uses' = Append(uses, [at |-> r, pattern |-> pattern, late |-> isCompiled])
        /\ UNCHANGED <<parent, prefix, endpoints, registered, compiled, isCompiled>>

\* An empty or a registered name is refused
On(r, pattern) ==
    LET fullPattern == fullPrefix(r) \o pattern
    IN  /\ ~Frozen(r) /\ fullPattern # <<>> /\ fullPattern \notin registered
        /\ Cardinality(registered) < MaxRoutes
        /\ registered' = registered \cup {fullPattern}
        /\ endpoints' = [endpoints EXCEPT ![r] = Append(@, fullPattern)]
        /\ UNCHANGED <<parent, prefix, middlewares, compiled, isCompiled, uses>>

Group(r, groupPrefix) ==
    LET group == Cardinality(Routers)
    IN  /\ ~Frozen(r) /\ group <= MaxGroups
        /\ parent' = parent @@ (group :> r) /\ prefix' = prefix @@ (group :> groupPrefix)
        /\ middlewares' = middlewares @@ (group :> <<>>)
        /\ endpoints' = endpoints @@ (group :> <<>>)
        /\ UNCHANGED <<registered, compiled, isCompiled, uses>>

\* The middleware in force at r: what it inherits, then its own
Inherited(r) ==
    LET list[q \in Routers] ==
            IF q = Root THEN middlewares[q] ELSE list[parent[q]] \o middlewares[q]
    IN  list[r]

compileInto(r, event) ==
    LET matching == SelectSeq(Inherited(r), LAMBDA m : matchPattern(m.pattern, event))
    IN  [i \in DOMAIN matching |-> matching[i].fn]

Compile ==
    LET owner(event) == CHOOSE r \in Routers : event \in ToSet(endpoints[r])
    IN  /\ ~isCompiled /\ isCompiled' = TRUE
        /\ compiled' = [event \in registered |-> compileInto(owner(event), event)]
        /\ UNCHANGED <<parent, prefix, middlewares, endpoints, registered, uses>>

Next ==
    \/ \E r \in Routers :
        \/ \E pattern \in Patterns : Use(r, pattern)
        \/ \E name \in Names : On(r, name)
        \/ \E p \in GroupPrefixes : Group(r, p)
    \/ Compile

Spec == Init /\ [][Next]_vars

-----------------------------------------------------------------------------
\* What the tables of the router hold
TypeOK ==
    /\ \A r \in Routers : parent[r] \in Routers \cup {NoParent}
    /\ DOMAIN prefix = Routers /\ DOMAIN middlewares = Routers /\ DOMAIN endpoints = Routers
    /\ UNION {ToSet(endpoints[r]) : r \in Routers} = registered
    /\ isCompiled \in BOOLEAN /\ DOMAIN compiled \subseteq registered

\* r is the group or one of the groups around it
Within(q, r) ==
    LET ancestors[x \in Routers] ==
            IF x = Root THEN {Root} ELSE {x} \cup ancestors[parent[x]]
    IN  q \in ancestors[r]

\* How far from the root
Depth(r) == Cardinality({q \in Routers : Within(q, r)})

\* What is left of an event's name below the prefix of the group that Use was
\* called at
Below(use, event) == SubSeq(event, Len(fullPrefix(use.at)) + 1, Len(event))

\* What the comment on Router.Use says a call of Use covers: the routes of its
\* group that its pattern names, which for "*" is every one
Covers(use, event, r) ==
    LET rest == Below(use, event)
    IN  /\ Within(use.at, r)
        /\ \/ use.pattern = <<"*">>
           \/ use.pattern = rest
           \/ /\ Last(use.pattern) = "*" /\ Len(use.pattern) > 1
              /\ IsStrictPrefix(Front(use.pattern), rest)

\* Where the code falls short of that comment: a prefixed group's "*" is matched as
\* "prefix.*", so it misses the route that On("") gives the group's own name
MissedByWildcard(use, event) == use.pattern = <<"*">> /\ Below(use, event) = <<>>

(***************************************************************************)
(* ChainsComplete: in the compiled table the handler of every route is     *)
(* wrapped in exactly the middleware that was registered before Compile    *)
(* and covers it, outer groups first and within a group in the order of    *)
(* the calls, however the calls of On, Use and Group were mixed (Compile,  *)
(* compileInto, matchPattern).  Two things in it are not as the comments   *)
(* on Router say: the wildcard of a group misses the route that bears the  *)
(* group's own name, and a group's Use after Compile, instead of returning *)
(* ErrRouterCompiled, is accepted and without effect.                      *)
(***************************************************************************)
ChainsComplete ==
    \A r \in Routers : \A event \in ToSet(endpoints[r]) \cap DOMAIN compiled :
        LET chain == compiled[event]
            covering == {i \in DOMAIN uses : /\ ~uses[i].late
                                             /\ Covers(uses[i], event, r)
                                             /\ ~MissedByWildcard(uses[i], event)}
            before(i, j) == \/ Depth(uses[i].at) < Depth(uses[j].at)
                            \/ Depth(uses[i].at) = Depth(uses[j].at) /\ i < j
        IN  chain = SetToSortSeq(covering, before)

=============================================================================
