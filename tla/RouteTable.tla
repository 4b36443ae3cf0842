----------------------------- MODULE RouteTable -----------------------------
(***************************************************************************)
(* RouteTable::discover, validate_route_table and the discovery of         *)
(* generate_routes (src/handler/routes.rs): the listings of an application *)
(* become the entries of a route table, or the first error refuses it.     *)
(*                                                                         *)
(* A path is a sequence of segments.  An optional parameter stands for the *)
(* paths with and without it; a parameter's name does not tell two paths   *)
(* apart.  Which segments routefinder cannot parse is external: here it is *)
(* the segment "malformed".                                                *)
(***************************************************************************)
EXTENDS Naturals, Sequences, SequencesExt

CONSTANTS
    Segments,   \* segments of the paths an application declares
    MaxDepth,   \* bound: segments of a path
    MaxRoutes   \* bound: listings of an application

ASSUME MaxDepthAssumption == MaxDepth \in Nat
ASSUME MaxRoutesAssumption == MaxRoutes \in Nat

VARIABLES
    listings,  \* RouteList::generate: the application's routes
    excluded,  \* excluded_routes
    entries,   \* the paths that are still to be validated
    seen,      \* registered_paths: collision keys
    table,     \* the entries validated so far
    outcome    \* "none", Ok or the error

routeVars == <<listings, excluded, entries, seen, table, outcome>>

Outcomes == {"idle", "discovering", "validating", "Ok", "InvalidRoute",
             "DuplicateRoute", "UnsupportedStaticSsr"}

Static(s) == [segment |-> "static", name |-> s]
Param(x) == [segment |-> "param", name |-> x]
OptionalParam(x) == [segment |-> "optional", name |-> x]
Splat == [segment |-> "splat", name |-> "*"]
Malformed == [segment |-> "malformed", name |-> ""]

\* expand_optionals: with each optional parameter, then without it.
Expansions(path) ==
    LET from[i \in 1..Len(path) + 1] ==
            IF i > Len(path) THEN <<(<<>>)>>
            ELSE LET rest == from[i + 1]
                     with(segment) == [k \in DOMAIN rest |-> <<segment>> \o rest[k]]
                 IN IF path[i].segment = "optional"
                    THEN with(Param(path[i].name)) \o rest
                    ELSE with(path[i])
    IN from[1]

\* into_route_listing: the entries of a listing.
EntriesOf(listing) ==
    LET paths == Expansions(listing.path)
    IN [k \in DOMAIN paths |-> [path |-> paths[k], mode |-> listing.mode]]

\* Mutant: parameters with different names are different.
KeyWithNames(path) == path

\* route_collision_key: names of parameters do not count.
CollisionKey(path) ==
    [i \in DOMAIN path |->
        IF path[i].segment = "param" THEN Param("_") ELSE path[i]]

\* RouteSpec::try_from fails.
Unparseable(path) == Malformed \in ToSet(path)

-----------------------------------------------------------------------------
Paths == UNION {[1..n -> Segments] : n \in 0..MaxDepth}
Listings == [path : Paths, mode : {"OutOfOrder", "Static"}]

RouteInit ==
    /\ listings \in UNION {[1..n -> Listings] : n \in 0..MaxRoutes}
    /\ excluded \in SUBSET UNION {ToSet(Expansions(l.path)) : l \in ToSet(listings)}
    /\ entries = <<>>
    /\ seen = {}
    /\ table = <<>>
    /\ outcome = "discovering"

\* registered_routes: each pattern is parsed, the excluded ones included.
Discover ==
    /\ outcome = "discovering"
    /\ entries' = FlattenSeq([i \in DOMAIN listings |-> EntriesOf(listings[i])])
    /\ outcome' = IF \E e \in ToSet(entries') : Unparseable(e.path)
                  THEN "InvalidRoute" ELSE "validating"
    /\ UNCHANGED <<listings, excluded, seen, table>>

\* One turn of the loop of validated_route_table.
Turn == outcome = "validating" /\ entries # <<>>
Entry == Head(entries)

\* Mutant: an excluded path still takes its collision key.
ExcludeTakesKey ==
    /\ Turn
    /\ Entry.path \in excluded
    /\ entries' = Tail(entries)
    /\ seen' = seen \cup {CollisionKey(Entry.path)}
    /\ UNCHANGED <<listings, excluded, table, outcome>>

Exclude ==
    /\ Turn
    /\ Entry.path \in excluded
    /\ entries' = Tail(entries)
    /\ UNCHANGED <<listings, excluded, seen, table, outcome>>

RefuseDuplicate ==
    /\ Turn
    /\ Entry.path \notin excluded
    /\ CollisionKey(Entry.path) \in seen
    /\ outcome' = "DuplicateRoute"
    /\ UNCHANGED <<listings, excluded, entries, seen, table>>

RefuseStaticSsr ==
    /\ Turn
    /\ Entry.path \notin excluded
    /\ CollisionKey(Entry.path) \notin seen
    /\ Entry.mode = "Static"
    /\ seen' = seen \cup {CollisionKey(Entry.path)}
    /\ outcome' = "UnsupportedStaticSsr"
    /\ UNCHANGED <<listings, excluded, entries, table>>

Keep ==
    /\ Turn
    /\ Entry.path \notin excluded
    /\ CollisionKey(Entry.path) \notin seen
    /\ Entry.mode # "Static"
    /\ seen' = seen \cup {CollisionKey(Entry.path)}
    /\ table' = Append(table, Entry)
    /\ entries' = Tail(entries)
    /\ UNCHANGED <<listings, excluded, outcome>>

\* router_from_listings: adding a parsed entry cannot fail.
Finish ==
    /\ outcome = "validating"
    /\ entries = <<>>
    /\ outcome' = "Ok"
    /\ UNCHANGED <<listings, excluded, entries, seen, table>>

RouteNext ==
    Discover \/ Exclude \/ RefuseDuplicate \/ RefuseStaticSsr \/ Keep \/ Finish

RouteSpec == RouteInit /\ [][RouteNext]_routeVars

-----------------------------------------------------------------------------
(* Properties *)

\* The paths an application declares, by listing and by what was optional.
Declared ==
    {d \in UNION {{<<i, k>> : k \in DOMAIN Expansions(listings[i].path)} : i \in DOMAIN listings} :
        Expansions(listings[d[1]].path)[d[2]] \notin excluded}
PathOf(d) == Expansions(listings[d[1]].path)[d[2]]

\* Two paths that every URL matches or misses together.
SamePattern(p, q) ==
    Len(p) = Len(q) /\ \A i \in DOMAIN p :
        p[i] = q[i] \/ (p[i].segment = "param" /\ q[i].segment = "param")

Collide == \E d, e \in Declared : d # e /\ SamePattern(PathOf(d), PathOf(e))
SomeStatic == \E d \in Declared : listings[d[1]].mode = "Static"
SomeMalformed == \E l \in ToSet(listings) : Unparseable(l.path)

\* A table that is accepted has one entry for every declared path that is not
\* excluded, and no URL could match two of them alike; one that is refused has
\* the fault it is refused for, among the paths that are not excluded unless it
\* cannot be parsed (routes.rs:52-55, 170-184).
TableIsTheApplication ==
    /\ outcome = "Ok" =>
           /\ ~SomeMalformed /\ ~Collide /\ ~SomeStatic
           /\ {e.path : e \in ToSet(table)} = {PathOf(d) : d \in Declared}
           /\ Len(table) = Cardinality(Declared)
    /\ outcome = "InvalidRoute" => SomeMalformed
    /\ outcome = "DuplicateRoute" => Collide /\ ~SomeMalformed
    /\ outcome = "UnsupportedStaticSsr" => SomeStatic /\ ~SomeMalformed
=============================================================================
