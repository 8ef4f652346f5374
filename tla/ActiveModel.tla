----------------------------- MODULE ActiveModel -----------------------------
(***************************************************************************)
(* Which model a session talks to, and whom its receipts name.  The        *)
(* configuration has a backend and an override, the session a client and   *)
(* the name of a model; a dozen commands change the four, together or one  *)
(* after the other: /provider, /model, /fusion, /setup, /route apply and   *)
(* select, /doctor's apply, /login, /play and its end (commands/, setup.rs, *)
(* playground.rs).  A turn (session_turn.rs) sends its requests by the     *)
(* client and prices and records them by the configuration.                *)
(***************************************************************************)
EXTENDS Naturals, Sequences

CONSTANTS
    Backends,      \* providers; those not in OpenBackends need credentials
    OpenBackends,  \* local ones
    Router,        \* the backend of /fusion
    Names,         \* models a user may ask for by name
    FusionName,    \* the model of /fusion
    Default,       \* no override
    MaxRoutes      \* bound on route decisions that are applied

ASSUME ModelAssumption ==
    /\ OpenBackends \subseteq Backends /\ Router \in Backends /\ MaxRoutes \in Nat
    /\ Default \notin Backends \cup Names \cup {FusionName}

VARIABLES
    amConfig,   \* config.backend and config.model_override
    amClient,   \* state.backend
    amModel,    \* state.model
    amRoute,    \* active_route: the number of a decision; 0: none
    amRoutes,   \* the ledger: the coder of each decision that was applied
    amPlay,     \* the configuration a play session gives back; <<>>: none
    amKeys,     \* backends whose credentials are there
    amTurn,     \* after a turn: whom it asked and what it was put down as
    amTuned,    \* history: the model changed under the active route
    amLeft      \* history: a play session, or a failed /doctor, left them apart

amVars == <<amConfig, amClient, amModel, amRoute, amRoutes, amPlay, amKeys, amTurn, amTuned, amLeft>>

\* default_model.  (Codex and Grok also map an override to a name of theirs.)
NameOf(b, override) == IF override = Default THEN b ELSE override

Usable(b) == b \in OpenBackends \cup amKeys    \* backends.rs validate
Active(b, override) ==
    /\ amConfig' = [backend |-> b, override |-> override]
    /\ amClient' = b /\ amModel' = NameOf(b, override)
    /\ amTuned' = FALSE /\ amLeft' = FALSE

AmInit ==
    \E b \in OpenBackends :
        /\ amConfig = [backend |-> b, override |-> Default]
        /\ amClient = b /\ amModel = NameOf(b, Default)
        /\ amRoute = 0 /\ amRoutes = <<>> /\ amPlay = <<>> /\ amKeys = {}
        /\ amTurn = <<>> /\ amTuned = FALSE /\ amLeft = FALSE

-----------------------------------------------------------------------------
(* Commands. *)

\* cmd_provider, and the two ways to turn /fusion on: refused without credentials.
Provider(b, override) ==
    /\ Usable(b) /\ Active(b, override) /\ amRoute' = 0
    /\ override # Default => b = Router
    /\ UNCHANGED <<amRoutes, amPlay, amKeys>>

\* cmd_model: the client stays, and so does what it may be apart from.
Model(m) ==
    /\ amConfig' = [amConfig EXCEPT !.override = m]
    /\ amModel' = NameOf(amClient, m) /\ amRoute' = 0 /\ amTuned' = FALSE
    /\ UNCHANGED <<amClient, amRoutes, amPlay, amKeys, amLeft>>

\* /model --default without a name pins the model that is active.
PinModel ==
    /\ amConfig' = [amConfig EXCEPT !.override = amModel]
    /\ UNCHANGED <<amClient, amModel, amRoute, amRoutes, amPlay, amKeys, amTuned, amLeft>>

FusionOff ==
    LET override == IF amConfig = [backend |-> Router, override |-> FusionName]
                    THEN Default ELSE amConfig.override IN
    /\ amConfig' = [amConfig EXCEPT !.override = override]
    /\ amModel' = NameOf(amClient, override) /\ amRoute' = 0 /\ amTuned' = FALSE
    /\ UNCHANGED <<amClient, amRoutes, amPlay, amKeys, amLeft>>

\* cmd_setup adopts what it wrote only if it could be used.
Setup(b, override) ==
    /\ Usable(b) /\ Active(b, override) /\ amRoute' = 0
    /\ UNCHANGED <<amRoutes, amPlay, amKeys>>

\* Mutant: an active route outlives the model it chose.
ApplyUnder(b, override, route) ==
    /\ Usable(b) /\ Active(b, override)
    /\ amRoute' = IF route = 0 THEN amRoute ELSE route

\* apply_model_ref: everything is put back when the client cannot be built.
ApplyModelRef(b, override, route) ==
    IF Usable(b) THEN Active(b, override) /\ amRoute' = route
    ELSE UNCHANGED <<amConfig, amClient, amModel, amRoute, amTuned, amLeft>>

\* /route apply <role>
RouteApply(b, m) ==
    /\ ApplyModelRef(b, m, 0)
    /\ UNCHANGED <<amRoutes, amPlay, amKeys>>

\* /route select: its receipt is the ledger's, its coder the active one.
RouteSelect(b, m) ==
    LET route == Len(amRoutes) + 1 IN
    /\ route <= MaxRoutes
    /\ amRoutes' = Append(amRoutes, [backend |-> b, model |-> m])
    /\ ApplyModelRef(b, m, route)
    /\ UNCHANGED <<amPlay, amKeys>>

\* /doctor autotune apply and recommend apply change the configuration first,
\* and leave the route where it is.
Doctor(b, m) ==
    /\ amConfig' = [backend |-> b, override |-> m]
    /\ IF Usable(b)
       THEN amClient' = b /\ amModel' = NameOf(b, m) /\ amLeft' = FALSE
       ELSE amLeft' = TRUE /\ UNCHANGED <<amClient, amModel>>
    /\ amTuned' = TRUE
    /\ UNCHANGED <<amRoute, amRoutes, amPlay, amKeys>>

\* /login: after_login builds the client anew where it is for a login.
LoginTo(b) ==
    /\ b \notin OpenBackends /\ amKeys' = amKeys \cup {b}
    /\ IF amConfig.backend \notin OpenBackends /\ amConfig.backend \in amKeys'
       THEN /\ amClient' = amConfig.backend
            /\ amModel' = NameOf(amConfig.backend, amConfig.override) /\ amLeft' = FALSE
       ELSE UNCHANGED <<amClient, amModel, amLeft>>
    /\ UNCHANGED <<amConfig, amRoute, amRoutes, amPlay, amTuned>>

\* /auth clear
Logout(b) ==
    /\ amKeys' = amKeys \ {b}
    /\ UNCHANGED <<amConfig, amClient, amModel, amRoute, amRoutes, amPlay, amTuned, amLeft>>

\* start_play_session
PlayBegins ==
    /\ amPlay = <<>> /\ amPlay' = <<amConfig>>
    /\ UNCHANGED <<amConfig, amClient, amModel, amRoute, amRoutes, amKeys, amTuned, amLeft>>

\* restore_play_session gives the configuration back; the client and the model
\* stay what they became meanwhile.
PlayEnds ==
    /\ amPlay # <<>> /\ amPlay' = <<>>
    /\ amConfig' = amPlay[1]
    /\ amLeft' = (amLeft \/ amPlay[1] # amConfig)
    /\ amTuned' = (amTuned \/ amPlay[1] # amConfig)
    /\ UNCHANGED <<amClient, amModel, amRoutes, amKeys>>

PlayExits == PlayEnds /\ UNCHANGED amRoute

\* /new: the play session is over, and so is the route.
New ==
    /\ amRoute' = 0
    /\ IF amPlay # <<>> THEN PlayEnds
       ELSE UNCHANGED <<amConfig, amClient, amModel, amRoutes, amPlay, amKeys, amTuned, amLeft>>

-----------------------------------------------------------------------------

\* run_user_turn: the route a call is put down to, if its model is the route's.
RouteOfCall ==
    IF amRoute # 0 /\ amRoutes[amRoute] = [backend |-> amConfig.backend, model |-> amModel]
    THEN amRoute ELSE 0

\* The answer comes by the client; price, receipt and the outcome of the tests
\* go by the configuration and the active route.
UserTurn(tested) ==
    /\ amTurn' = [client |-> amClient, model |-> amModel, priced |-> amConfig.backend,
                  call |-> RouteOfCall, outcome |-> IF tested THEN amRoute ELSE 0]
    /\ UNCHANGED <<amConfig, amClient, amModel, amRoute, amRoutes, amPlay, amKeys, amTuned, amLeft>>

Command ==
    \/ \E b \in Backends :
        \/ LoginTo(b) \/ Logout(b)
        \/ \E o \in {Default, FusionName} \cup (IF b = Router THEN Names ELSE {}) : Provider(b, o)
        \/ \E o \in Names \cup {Default} : Setup(b, o)
        \/ \E m \in Names : RouteApply(b, m) \/ RouteSelect(b, m) \/ Doctor(b, m)
    \/ \E m \in Names : Model(m)
    \/ PinModel \/ FusionOff \/ PlayBegins \/ PlayExits \/ New

AmNext == \/ Command /\ amTurn' = <<>>
          \/ \E tested \in BOOLEAN : UserTurn(tested)

AmSpec == AmInit /\ [][AmNext]_amVars

-----------------------------------------------------------------------------
(* Properties. *)

\* app_state.rs: a turn is priced "from its own model + rate": the backend that
\* is asked is the one that is priced and written down, whatever commands came
\* before, but for the two that leave them apart.
PricedAsAsked ==
    [][amTurn' # <<>> /\ ~amLeft => amTurn'.priced = amTurn'.client]_amVars

\* A call, and the outcome of a test run, is put down to a routing decision only
\* if the coder of that decision answered; a route no /doctor changed under.
RouteAnswered ==
    [][amTurn' # <<>> /\ ~amLeft /\ ~amTuned =>
        \A r \in {amTurn'.call, amTurn'.outcome} \ {0} :
            amRoutes[r] = [backend |-> amTurn'.client, model |-> amTurn'.model]]_amVars

\* A turn is answered by the model that is asked, and priced as it.
ModelSound == PricedAsAsked /\ RouteAnswered

\* app_state.rs:63: "Each turn computes its cost from *its own* model + rate (not
\* the current model x total tokens), so switching models mid-session reports
\* correctly."
OwnRate == [][amTurn' # <<>> => amTurn'.priced = amTurn'.client]_amVars

=============================================================================
