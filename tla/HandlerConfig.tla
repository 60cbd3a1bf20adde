---------------------------- MODULE HandlerConfig ----------------------------
(***************************************************************************)
(* How a Handler is set up (handler.go): Use, Handle, HandleNotFound and    *)
(* Clone build the chain of callbacks that runs for each method.            *)
(*                                                                         *)
(* A callback is the number of the call that registered it; 0 is the       *)
(* default one that answers ErrMethodNotFound.  The maps that the routes    *)
(* fields of two Handlers refer to may be the same or not, so they have     *)
(* names: those of the Handlers they were made for.                         *)
(***************************************************************************)
EXTENDS Naturals, Sequences, SequencesExt

CONSTANTS
    Handlers,    \* the Handlers
    First,       \* the one NewHandler creates; the others are made by Clone
    Methods,     \* the methods handlers are registered for
    MaxSetup     \* bound on the calls that set Handlers up

ASSUME ConfigAssumption == First \in Handlers /\ MaxSetup \in Nat

NotFound == "not found"    \* the method "", reserved for HandleNotFound
Routes == Methods \cup {NotFound}
NoRoutes == [m \in {} |-> <<>>]

VARIABLES
    made,       \* the Handlers that exist
    routesOf,   \* routesOf[h]: the map h.routes refers to
    routes,     \* routes[r]: that map, from methods to their routerHandler
    middles,    \* middles[h]: h.middles
    reg,        \* reg[h]: the registrations h was given, itself or before Clone
    setups      \* how many calls there were

configVars == <<made, routesOf, routes, middles, reg, setups>>

ConfigInit ==
    /\ made = {First}
    /\ routesOf = [h \in Handlers |-> h]
    /\ routes = [h \in Handlers |-> NoRoutes]
    /\ middles = [h \in Handlers |-> <<>>]
    /\ reg = [h \in Handlers |-> <<>>]
    /\ setups = 0

RoutesOf(h) == routes[routesOf[h]]

\* One more call; registrations are numbered by it.
Setup == setups < MaxSetup /\ setups' = setups + 1
Record(h, m) == reg' = [reg EXCEPT ![h] = Append(@, [method |-> m, cb |-> setups'])]
MiddleOf == "use"    \* stands for the method in the record of a Use

-----------------------------------------------------------------------------
(* A definition whose name has an underscore is a mutation of the next one. *)

\* The chain of a method registered now: the middlewares so far, then cb
Chain(h, cb) == Append(middles[h], cb)

\* handle: the default route of unknown methods comes with the first
\* registration; a second handler for a method panics, except for "", whose
\* async flag OnMessage never reads.
Handle(h, m, async) ==
    /\ h \in made /\ Setup
    /\ m \in DOMAIN RoutesOf(h) => m = NotFound
    /\ async => m # NotFound
    /\ LET default == NotFound :> [async |-> FALSE, chain |-> Chain(h, 0)]
           route   == m :> [async |-> async, chain |-> Chain(h, setups')]
       IN  routes' = [routes EXCEPT ![routesOf[h]] = route @@ (@ @@ default)]
    /\ Record(h, m)
    /\ UNCHANGED <<made, routesOf, middles>>

\* Use: the middleware joins those of the methods registered later, and the end
\* of the chain of the methods registered already.
Use(h) ==
    /\ h \in made /\ Setup
    /\ middles' = [middles EXCEPT ![h] = Append(@, setups')]
    /\ routes' = [routes EXCEPT ![routesOf[h]] =
                     [m \in DOMAIN @ |-> [@[m] EXCEPT !.chain = Append(@, setups')]]]
    /\ Record(h, MiddleOf)
    /\ UNCHANGED <<made, routesOf>>

\* Clone copies middles and the routes map with its entries.
CopyRoutes_Shared(h, new) == routesOf' = [routesOf EXCEPT ![new] = routesOf[h]] /\ UNCHANGED routes
CopyRoutes(h, new) ==
    /\ routesOf' = [routesOf EXCEPT ![new] = new]
    /\ routes' = [routes EXCEPT ![new] = RoutesOf(h)]

Clone(h, new) ==
    /\ h \in made /\ new \notin made /\ Setup
    /\ made' = made \cup {new}
    /\ CopyRoutes(h, new)
    /\ middles' = [middles EXCEPT ![new] = middles[h]]
    /\ reg' = [reg EXCEPT ![new] = reg[h]]

Configure ==
    \E h \in Handlers :
        \/ Use(h)
        \/ \E m \in Routes, async \in BOOLEAN : Handle(h, m, async)
        \/ \E new \in Handlers : Clone(h, new)

-----------------------------------------------------------------------------
(* What the documentation of Handler says                                  *)

\* The registration that gives m its chain: its own, the last one for the
\* reserved method, which the first registration of all sets if there is none.
RegistrationOf(h, m) ==
    LET own == {i \in DOMAIN reg[h] : reg[h][i].method = m}
        any == {i \in DOMAIN reg[h] : reg[h][i].method # MiddleOf}
    IN  IF own # {} THEN CHOOSE i \in own : \A j \in own : j <= i
                    ELSE CHOOSE i \in any : \A j \in any : i <= j

Middlewares(calls) ==
    LET uses == SelectSeq(calls, LAMBDA r : r.method = MiddleOf)
    IN  [i \in DOMAIN uses |-> uses[i].cb]

\* "Handle registers the handler of a method, after the middlewares registered
\* so far", and Use appends one to "all methods, including those already
\* registered; for them it runs after their handler".
DocumentedChain(h, m) ==
    LET i  == RegistrationOf(h, m)
        cb == IF reg[h][i].method = m THEN reg[h][i].cb ELSE 0
    IN  Middlewares(SubSeq(reg[h], 1, i)) \o <<cb>>
            \o Middlewares(SubSeq(reg[h], i + 1, Len(reg[h])))

\* Every method that was registered has a route, with the one of unknown methods,
\* and its chain is the documented one, for each Handler by the calls it was given
\* itself or took over by Clone: registering on a Handler never changes another.
ChainsAsDocumented ==
    \A h \in made :
        LET registered == {reg[h][i].method : i \in DOMAIN reg[h]} \ {MiddleOf}
        IN  /\ DOMAIN RoutesOf(h) =
                   IF registered = {} THEN {} ELSE registered \cup {NotFound}
            /\ \A m \in DOMAIN RoutesOf(h) : RoutesOf(h)[m].chain = DocumentedChain(h, m)

=============================================================================
