----------------------------- MODULE Credentials -----------------------------
(***************************************************************************)
(* Stored credentials: AuthStore (src/src/auth.rs), one file shared by all *)
(* processes of the user, and those who write it: the logins of grok       *)
(* (xai_oauth.rs) and openai-codex (codex_oauth.rs), the refresh of their  *)
(* tokens before a request, and /auth set and clear (config_cmds.rs).      *)
(*                                                                         *)
(* A credential is the number the provider gave it.  A refresh token works *)
(* once: the provider then knows its successor only.  A save loads the     *)
(* file, changes one entry, truncates the file and writes it.              *)
(***************************************************************************)
EXTENDS Naturals

CONSTANTS
    Users,      \* processes, and tasks of one, that use the file
    Torn,       \* a file that does not parse
    MaxIssued   \* bound on the credentials of a provider

OAuth     == {"grok", "codex"}
Providers == OAuth \cup {"openai"}    \* the last one takes API keys

ASSUME CredentialsAssumption ==
    /\ MaxIssued \in Nat \ {0}
    /\ Torn \notin [Providers -> 0..MaxIssued]

VARIABLES
    auFile,      \* auth.json; 0: no entry
    auIssued,    \* credentials each provider gave out
    auLive,      \* whose refresh tokens it still accepts
    auExpired,   \* tokens that are over, or will be within a minute
    auStep,      \* where each process is
    auFor,       \* the provider it is about
    auNew,       \* the credential it got; 0 after /auth clear
    auHeld,      \* the store it loaded to change
    auVia,       \* history: how it came to the code, or whatever else, it holds
    auMeant,     \* history: what the user and the providers would have it hold
    auDisturbed  \* history: two saves at once, a crash, a lost answer, rivals

auVars == <<auFile, auIssued, auLive, auExpired, auStep, auFor, auNew, auHeld, auVia,
            auMeant, auDisturbed>>
auWorld == <<auIssued, auLive, auExpired>>
auPast  == <<auMeant, auDisturbed>>
auOwn   == <<auStep, auFor, auNew, auHeld, auVia>>

NoEntries == [pr \in Providers |-> 0]

AuthInit ==
    /\ auFile = NoEntries /\ auMeant = NoEntries
    /\ auIssued = NoEntries /\ auLive = [pr \in Providers |-> {}]
    /\ auExpired = [pr \in Providers |-> {}]
    /\ auStep = [p \in Users |-> "idle"] /\ auFor = [p \in Users |-> "grok"]
    /\ auNew = [p \in Users |-> 0] /\ auHeld = [p \in Users |-> NoEntries]
    /\ auVia = [p \in Users |-> "none"] /\ auDisturbed = FALSE

\* load: a missing, an empty and an unreadable file are an empty store.
Store == IF auFile = Torn THEN NoEntries ELSE auFile

At(p, step)   == auStep[p] = step
Goto(p, step) == auStep' = [auStep EXCEPT ![p] = step]
Step(p, from, to) == At(p, from) /\ Goto(p, to)

\* Somebody starts on a provider.  Any number may refresh its token at once;
\* two who change the entry otherwise are rivals.
BeginFor(p, pr, to, new, via) ==
    /\ Step(p, "idle", to) /\ auFor' = [auFor EXCEPT ![p] = pr]
    /\ auNew' = [auNew EXCEPT ![p] = new] /\ auVia' = [auVia EXCEPT ![p] = via]
    /\ auDisturbed' = (auDisturbed \/ \E q \in Users \ {p} :
          ~At(q, "idle") /\ auFor[q] = pr /\ {via, auVia[q]} # {"refresh"})
    /\ UNCHANGED auHeld

\* What a call held is gone when it ends.
CallOver(p) ==
    /\ Goto(p, "idle") /\ auFor' = [auFor EXCEPT ![p] = "grok"]
    /\ auNew' = [auNew EXCEPT ![p] = 0] /\ auHeld' = [auHeld EXCEPT ![p] = NoEntries]
    /\ auVia' = [auVia EXCEPT ![p] = "none"]

\* The provider gives p a credential; the one it replaces is no longer known.
Issue(p, replaced) ==
    LET pr == auFor[p]  new == auIssued[pr] + 1 IN
    /\ new <= MaxIssued
    /\ auIssued' = [auIssued EXCEPT ![pr] = new]
    /\ auLive' = [auLive EXCEPT ![pr] = (@ \ replaced) \cup {new}]
    /\ auNew' = [auNew EXCEPT ![p] = new]
    /\ auMeant' = [auMeant EXCEPT ![pr] = new]
    /\ UNCHANGED auExpired

-----------------------------------------------------------------------------
(* access_token, before each request of a backend that has logins. *)

\* A token that is not over is used as it is.
Access(p, pr) ==
    /\ Store[pr] \in auExpired[pr]
    /\ BeginFor(p, pr, "refresh", Store[pr], "refresh")
    /\ UNCHANGED <<auFile, auWorld, auMeant>>

Refresh(p) ==
    /\ auNew[p] \in auLive[auFor[p]]
    /\ Step(p, "refresh", "load") /\ Issue(p, {auNew[p]})
    /\ UNCHANGED <<auFile, auFor, auHeld, auVia, auDisturbed>>

\* Refused, or the answer with the new token is lost.
RefreshFails(p) ==
    /\ At(p, "refresh") /\ CallOver(p)
    /\ \/ auNew[p] \notin auLive[auFor[p]] /\ UNCHANGED <<auLive, auDisturbed>>
       \/ auDisturbed' = TRUE /\ auLive' = [auLive EXCEPT ![auFor[p]] = @ \ {auNew[p]}]
    /\ UNCHANGED <<auFile, auIssued, auExpired, auMeant>>

TokenExpires(pr, n) ==
    /\ n \in 1..auIssued[pr] \ auExpired[pr]
    /\ auExpired' = [auExpired EXCEPT ![pr] = @ \cup {n}]
    /\ UNCHANGED <<auFile, auIssued, auLive, auOwn, auPast>>

-----------------------------------------------------------------------------
(* /login *)

StartLogin(p, pr) ==
    /\ \E to \in {"callback", "poll"} : BeginFor(p, pr, to, 0, "none")
    /\ UNCHANGED <<auFile, auWorld, auMeant>>

\* maybe_import_grok_cli.  The CLI goes on using the token, so it may be spent.
Import(p) ==
    /\ BeginFor(p, "grok", "import", 0, "cli")
    /\ UNCHANGED <<auFile, auWorld, auMeant>>

\* What a browser, or anyone on this machine, may send to the port.
Callbacks == {"ours", "foreign", "astray", "denied", "codeless"}

\* grok listens on after what is not its callback, codex takes one connection.
Callback(p, what) ==
    /\ At(p, "callback")
    /\ Goto(p, IF what = "ours" THEN "exchange"
               ELSE IF what # "denied" /\ auFor[p] = "grok" THEN "callback" ELSE "paste")
    /\ auVia' = [auVia EXCEPT ![p] = IF what = "ours" THEN "ours" ELSE @]
    /\ UNCHANGED <<auFile, auWorld, auFor, auNew, auHeld, auPast>>

\* grok's sixty seconds; codex has no deadline.
CallbackTimesOut(p) ==
    /\ auFor[p] = "grok" /\ Step(p, "callback", "paste")
    /\ UNCHANGED <<auFile, auWorld, auFor, auNew, auHeld, auVia, auPast>>

\* parse_authorization_input: a code alone, or with the state of this login.
Paste(p, what) ==
    /\ Step(p, "paste", "exchange")
    /\ auVia' = [auVia EXCEPT ![p] = what]
    /\ UNCHANGED <<auFile, auWorld, auFor, auNew, auHeld, auPast>>

\* A code is exchanged, a device code approved, the CLI's credential taken.
Granted(p) ==
    /\ \E from \in {"exchange", "poll", "import"} : Step(p, from, "load")
    /\ Issue(p, {})
    /\ UNCHANGED <<auFile, auFor, auHeld, auVia, auDisturbed>>

\* Refused; a device code that is over; a paste without a code or with another
\* state; a CLI whose token cannot be refreshed.
LoginFails(p) ==
    /\ auStep[p] \in {"exchange", "poll", "paste", "import"} /\ CallOver(p)
    /\ UNCHANGED <<auFile, auWorld, auPast>>

\* The Grok CLI refreshes a credential that was imported from it.
CliRefreshes(p) ==
    /\ auVia[p] = "cli" /\ auNew[p] # 0
    /\ auLive' = [auLive EXCEPT !["grok"] = @ \ {auNew[p]}] /\ auDisturbed' = TRUE
    /\ UNCHANGED <<auFile, auIssued, auExpired, auOwn, auMeant>>

-----------------------------------------------------------------------------
(* /auth set and /auth clear.  The key a user sets is always the same. *)

SetKey(p) ==
    /\ BeginFor(p, "openai", "load", 1, "set")
    /\ auMeant' = [auMeant EXCEPT !["openai"] = 1]
    /\ UNCHANGED <<auFile, auWorld>>

Clear(p, pr) ==
    /\ Store[pr] # 0 /\ BeginFor(p, pr, "load", 0, "clear")
    /\ auMeant' = [auMeant EXCEPT ![pr] = 0]
    /\ UNCHANGED <<auFile, auWorld>>

-----------------------------------------------------------------------------
(* The save they share. *)

\* Mutant: the change is made to a store that does not have the others' entries.
LoadNothing(p) ==
    /\ Step(p, "load", "truncate")
    /\ auHeld' = [auHeld EXCEPT ![p] = [NoEntries EXCEPT ![auFor[p]] = auNew[p]]]
    /\ auDisturbed' = (auDisturbed \/ \E q \in Users \ {p} : auStep[q] \in {"truncate", "write"})
    /\ UNCHANGED <<auFile, auWorld, auFor, auNew, auVia, auMeant>>

\* The file is loaded again: it may have changed since the call began.
LoadStore(p) ==
    /\ Step(p, "load", "truncate")
    /\ auHeld' = [auHeld EXCEPT ![p] = [Store EXCEPT ![auFor[p]] = auNew[p]]]
    /\ auDisturbed' = (auDisturbed \/ \E q \in Users \ {p} : auStep[q] \in {"truncate", "write"})
    /\ UNCHANGED <<auFile, auWorld, auFor, auNew, auVia, auMeant>>

Truncate(p) ==
    /\ Step(p, "truncate", "write") /\ auFile' = Torn
    /\ UNCHANGED <<auWorld, auFor, auNew, auHeld, auVia, auPast>>

WriteStore(p) ==
    /\ At(p, "write") /\ CallOver(p) /\ auFile' = auHeld[p]
    /\ UNCHANGED <<auWorld, auPast>>

\* The process is gone, wherever it was.
Crash(p) ==
    /\ ~At(p, "idle") /\ CallOver(p) /\ auDisturbed' = TRUE
    /\ UNCHANGED <<auFile, auWorld, auMeant>>

AuthNext ==
    \/ \E p \in Users :
        \/ Refresh(p) \/ RefreshFails(p) \/ Import(p) \/ CallbackTimesOut(p) \/ Granted(p)
        \/ LoginFails(p) \/ CliRefreshes(p) \/ SetKey(p) \/ Crash(p)
        \/ LoadStore(p) \/ Truncate(p) \/ WriteStore(p)
        \/ \E pr \in OAuth : Access(p, pr) \/ StartLogin(p, pr)
        \/ \E pr \in Providers : Clear(p, pr)
        \/ \E what \in Callbacks : Callback(p, what)
        \/ \E what \in {"ours", "typed"} : Paste(p, what)
    \/ \E pr \in OAuth : \E n \in 1..MaxIssued : TokenExpires(pr, n)

AuthSpec == AuthInit /\ [][AuthNext]_auVars

-----------------------------------------------------------------------------
(* Properties. *)

\* Every variable has its type.
AuthTypeOK ==
    /\ auFile \in [Providers -> 0..MaxIssued] \cup {Torn}
    /\ auIssued \in [Providers -> 0..MaxIssued]
    /\ auLive \in [Providers -> SUBSET (1..MaxIssued)]
    /\ auExpired \in [Providers -> SUBSET (1..MaxIssued)]
    /\ \A pr \in Providers : auLive[pr] \cup auExpired[pr] \subseteq 1..auIssued[pr]
    /\ auStep \in [Users -> {"idle", "refresh", "load", "truncate", "write", "callback",
                             "paste", "exchange", "poll", "import"}]
    /\ auFor \in [Users -> Providers] /\ auNew \in [Users -> 0..MaxIssued]
    /\ auHeld \in [Users -> [Providers -> 0..MaxIssued]]
    /\ auVia \in [Users -> {"none", "refresh", "cli", "ours", "typed", "set", "clear"}]
    /\ auMeant \in [Providers -> 0..MaxIssued] /\ auDisturbed \in BOOLEAN

\* Whatever overlaps, one refreshing while another waits in a browser or several
\* refreshing the same token, the file comes to hold what it was meant to: the
\* newest credential of every provider, which the provider still takes, and none
\* that was cleared.  Two saves at the same moment, rivals for an entry, a crash
\* and a lost answer are what may lose one.
NothingLost ==
    ~auDisturbed =>
        /\ (\A p \in Users : At(p, "idle")) => auFile = auMeant
        /\ \A pr \in OAuth : Store[pr] # 0 /\ (\A p \in Users : auFor[p] = pr => At(p, "idle"))
                => Store[pr] \in auLive[pr]

\* A code is exchanged only if it came with the state of this login, or the user
\* typed it without one.
CodeIsOurs ==
    \A p \in Users : At(p, "exchange") => auVia[p] \in {"ours", "typed"}

\* The store of the credentials keeps what it was given.
AuthSound == AuthTypeOK /\ NothingLost /\ CodeIsOurs

=============================================================================
