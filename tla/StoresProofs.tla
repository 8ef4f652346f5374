---------------------------- MODULE StoresProofs ----------------------------
(***************************************************************************)
(* Proofs about the files that processes of the user share and about what  *)
(* decides by them: the trust files (TrustStore), the credentials          *)
(* (Credentials), the package manager (Packages), the policy of the routes *)
(* (RoutePolicy), /ship (Ship) and the scorecard's ledger (Scorecard); and *)
(* about the files the tools change (FileTools).                           *)
(***************************************************************************)
EXTENDS TrustStore, Credentials, Packages, RoutePolicy, Ship, FileTools, Scorecard, FiniteSetTheorems,
        WellFoundedInduction, TLAPS

-----------------------------------------------------------------------------
(* TrustStore *)

\* TrustSound is inductive as it stands.
LEMMA TrustSoundInitially == TrustInit => TrustSound
<1> SUFFICES ASSUME TrustInit PROVE TrustSound OBVIOUS
<1>1. TrustTypeOK BY DEF TrustInit, TrustTypeOK, NoTrust, Blank, Entry
<1>2. RunsAsApproved BY DEF TrustInit, RunsAsApproved
<1>3. TrustNeverInvented BY DEF TrustInit, TrustNeverInvented, Backed, NoTrust, Blank
<1> QED BY <1>1, <1>2, <1>3 DEF TrustSound

\* What is loaded is a file, and backed by approvals if the file on disk is.
LEMMA LoadedIsBacked ==
    ASSUME TrustTypeOK, TrustNeverInvented
    PROVE  Loaded \in [Items -> Entry] /\ Backed(Loaded)
<1>1. CASE trFile = TornFile BY <1>1 DEF Loaded, Backed, NoTrust, Blank, Entry
<1>2. CASE trFile # TornFile BY <1>2 DEF Loaded, TrustTypeOK, TrustNeverInvented
<1> QED BY <1>1, <1>2

\* The types are kept.
LEMMA TrustTypeStep == TrustSound /\ [TrustNext]_trVars => TrustTypeOK'
<1> SUFFICES ASSUME TrustSound, [TrustNext]_trVars PROVE TrustTypeOK' OBVIOUS
<1> USE DEF TrustSound
<1>1. ASSUME NEW i \in Items, NEW v \in Versions, Edit(i, v) PROVE TrustTypeOK'
  BY <1>1 DEF Edit, TrustTypeOK
<1>2. ASSUME NEW p \in Procs, ProcessStarts(p) PROVE TrustTypeOK'
  BY <1>2 DEF ProcessStarts, TrustTypeOK
<1>3. ASSUME NEW p \in Procs, LoadToChange(p) PROVE TrustTypeOK'
  BY <1>3, LoadedIsBacked DEF LoadToChange, TrustTypeOK
<1>4. ASSUME NEW p \in Procs, Exit(p) PROVE TrustTypeOK'
  BY <1>4 DEF Exit, TrustTypeOK
<1>5. ASSUME NEW p \in Procs, NEW i \in Items, Trust(p, i) PROVE TrustTypeOK'
  <2>1. trHeld[p] \in [Items -> Entry] /\ trSeen[p] \in [Items -> Versions]
    BY <1>5 DEF Trust, Save, TrustTypeOK
  <2>2. [hash |-> trSeen[p][i], enabled |-> TRUE] \in Entry BY <2>1 DEF Entry
  <2>3. trFile' \in [Items -> Entry] BY <1>5, <2>1, <2>2 DEF Trust, Save, Reviewed
  <2>4. trHeld' \in [Procs -> [Items -> Entry] \cup {None}] BY <1>5 DEF Trust, Save, TrustTypeOK
  <2>5. trOn' \in [Procs -> SUBSET Items] /\ trApproved' \in SUBSET (Items \X Versions)
    BY <1>5, <2>1 DEF Trust, TrustTypeOK
  <2> QED BY <1>5, <2>3, <2>4, <2>5 DEF Trust, TrustTypeOK
<1>6. ASSUME NEW p \in Procs, NEW i \in Items, NEW on \in BOOLEAN, SetEnabled(p, i, on) PROVE TrustTypeOK'
  <2> DEFINE entry == [trHeld[p][i] EXCEPT !.enabled = on]
  <2>1. trHeld[p] \in [Items -> Entry] BY <1>6 DEF SetEnabled, TrustTypeOK
  <2>2. entry \in Entry BY <2>1 DEF Entry
  <2>3. /\ trFile' = [trHeld[p] EXCEPT ![i] = entry] /\ trHeld' = [trHeld EXCEPT ![p] = None]
        /\ \E on1 \in {trOn[p] \cup {i}, trOn[p] \ {i}} : trOn' = [trOn EXCEPT ![p] = on1]
        /\ UNCHANGED <<trKind, trConfig, trSeen, trApproved>>
    BY <1>6 DEF SetEnabled, Save, TrustTypeOK
  <2> HIDE DEF entry
  <2>4. trFile' \in [Items -> Entry] BY <2>1, <2>2, <2>3
  <2> QED BY <2>3, <2>4 DEF TrustTypeOK
<1>7. CASE UNCHANGED trVars BY <1>7 DEF trVars, TrustTypeOK
<1> QED BY <1>1, <1>2, <1>3, <1>4, <1>5, <1>6, <1>7 DEF TrustNext

\* No step invents an approval: what is written is what was loaded, and one entry that was
\* just approved or has the hash it had.
LEMMA BackedStep == TrustSound /\ [TrustNext]_trVars => TrustNeverInvented'
<1> SUFFICES ASSUME TrustSound, [TrustNext]_trVars PROVE TrustNeverInvented' OBVIOUS
<1> USE DEF TrustSound
<1>1. ASSUME UNCHANGED <<trFile, trHeld, trApproved>> PROVE TrustNeverInvented'
  BY <1>1 DEF TrustNeverInvented, Backed
<1>2. ASSUME NEW p \in Procs, LoadToChange(p) PROVE TrustNeverInvented'
  <2>1. trFile' = trFile /\ trApproved' = trApproved /\ trHeld' = [trHeld EXCEPT ![p] = Loaded]
    BY <1>2 DEF LoadToChange
  <2>2. ASSUME NEW q \in Procs, trHeld'[q] # None PROVE Backed(trHeld'[q])
    BY <2>1, <2>2, LoadedIsBacked DEF TrustNeverInvented, TrustTypeOK
  <2> QED BY <2>1, <2>2 DEF TrustNeverInvented, Backed
<1>3. ASSUME NEW p \in Procs, Exit(p) PROVE TrustNeverInvented'
  <2>1. trFile' \in {trFile, TornFile} /\ trApproved' = trApproved /\ trHeld' = [trHeld EXCEPT ![p] = None]
    BY <1>3 DEF Exit
  <2>2. ASSUME NEW q \in Procs, trHeld'[q] # None PROVE trHeld'[q] = trHeld[q]
    BY <2>1, <2>2 DEF TrustTypeOK
  <2> QED BY <2>1, <2>2 DEF TrustNeverInvented, Backed
<1>4. ASSUME NEW p \in Procs, NEW i \in Items, NEW entry \in Entry, Save(p, i, entry),
             trApproved \subseteq trApproved', entry.hash # None => <<i, entry.hash>> \in trApproved'
      PROVE  TrustNeverInvented'
  <2>1. trHeld[p] \in [Items -> Entry] /\ Backed(trHeld[p])
    BY <1>4 DEF Save, TrustTypeOK, TrustNeverInvented
  <2>2. trFile' = [trHeld[p] EXCEPT ![i] = entry] BY <1>4 DEF Save
  <2>3. ASSUME NEW j \in Items, trFile'[j].hash # None PROVE <<j, trFile'[j].hash>> \in trApproved'
    <3>1. CASE j = i BY <1>4, <2>1, <2>2, <2>3, <3>1
    <3>2. CASE j # i BY <1>4, <2>1, <2>2, <2>3, <3>2 DEF Backed
    <3> QED BY <3>1, <3>2
  <2>4. ASSUME NEW q \in Procs, trHeld'[q] # None PROVE trHeld'[q] = trHeld[q] /\ trHeld[q] # None
    BY <1>4, <2>4 DEF Save, TrustTypeOK
  <2>5. ASSUME NEW q \in Procs, trHeld'[q] # None, NEW j \in Items, trHeld'[q][j].hash # None
        PROVE  <<j, trHeld'[q][j].hash>> \in trApproved'
    BY <1>4, <2>4, <2>5 DEF TrustNeverInvented, Backed
  <2> QED BY <2>3, <2>5 DEF TrustNeverInvented, Backed
<1>5. ASSUME NEW p \in Procs, NEW i \in Items, Trust(p, i) PROVE TrustNeverInvented'
  <2> DEFINE entry == [hash |-> trSeen[p][i], enabled |-> TRUE]
  <2>1. trSeen[p] \in [Items -> Versions] BY <1>5 DEF Trust, TrustTypeOK
  <2>2. entry \in Entry BY <2>1 DEF Entry
  <2>3. Save(p, i, entry) BY <1>5 DEF Trust, Reviewed
  <2>4. trApproved' = trApproved \cup {<<i, entry.hash>>} BY <1>5 DEF Trust
  <2> HIDE DEF entry
  <2> QED BY <1>4, <2>2, <2>3, <2>4
<1>6. ASSUME NEW p \in Procs, NEW i \in Items, NEW on \in BOOLEAN, SetEnabled(p, i, on)
      PROVE  TrustNeverInvented'
  <2> DEFINE entry == [trHeld[p][i] EXCEPT !.enabled = on]
  <2>1. trHeld[p] \in [Items -> Entry] /\ Backed(trHeld[p])
    BY <1>6 DEF SetEnabled, TrustTypeOK, TrustNeverInvented
  <2>2. entry \in Entry /\ entry.hash = trHeld[p][i].hash BY <2>1 DEF Entry
  <2>3. Save(p, i, entry) /\ trApproved' = trApproved BY <1>6 DEF SetEnabled
  <2>4. entry.hash # None => <<i, entry.hash>> \in trApproved' BY <2>1, <2>2, <2>3 DEF Backed
  <2> HIDE DEF entry
  <2> QED BY <1>4, <2>2, <2>3, <2>4
<1> QED BY <1>1, <1>2, <1>3, <1>5, <1>6 DEF TrustNext, Edit, ProcessStarts, trVars

\* What begins to run is trusted by a file that holds approvals only, or approved just now.
LEMMA RunsStep == TrustSound /\ [TrustNext]_trVars => RunsAsApproved'
<1> SUFFICES ASSUME TrustSound, [TrustNext]_trVars PROVE RunsAsApproved' OBVIOUS
<1> USE DEF TrustSound
<1>1. ASSUME UNCHANGED <<trSeen, trOn, trApproved>> PROVE RunsAsApproved'
  BY <1>1 DEF RunsAsApproved
<1>2. ASSUME NEW file \in [Items -> Entry], Backed(file), NEW config \in [Items -> Versions],
             NEW i \in Items, Trusted(file, config, i)
      PROVE  <<i, config[i]>> \in trApproved
  BY <1>2, TrustAssumption DEF Trusted, Backed
<1>3. ASSUME NEW p \in Procs, ProcessStarts(p) PROVE RunsAsApproved'
  <2>1. /\ trSeen' = [trSeen EXCEPT ![p] = trConfig] /\ trApproved' = trApproved
        /\ trOn' = [trOn EXCEPT ![p] = {i \in Items : Trusted(Loaded, trConfig, i)}]
    BY <1>3 DEF ProcessStarts
  <2>2. ASSUME NEW q \in Procs, NEW i \in trOn'[q]
        PROVE  trSeen'[q] # None /\ <<i, trSeen'[q][i]>> \in trApproved'
    <3>1. CASE q = p
      <4>1. i \in Items /\ Trusted(Loaded, trConfig, i) /\ trSeen'[q] = trConfig
        BY <2>1, <3>1 DEF TrustTypeOK
      <4>2. trConfig \in [Items -> Versions] BY DEF TrustTypeOK
      <4>3. <<i, trConfig[i]>> \in trApproved BY <1>2, <4>1, <4>2, LoadedIsBacked
      <4> QED BY <2>1, <4>1, <4>2, <4>3, TrustAssumption
    <3>2. CASE q # p BY <2>1, <3>2 DEF TrustTypeOK, RunsAsApproved
    <3> QED BY <3>1, <3>2
  <2> QED BY <2>2 DEF RunsAsApproved
<1>4. ASSUME NEW p \in Procs, Exit(p) PROVE RunsAsApproved'
  BY <1>4 DEF Exit, RunsAsApproved, TrustTypeOK
<1>5. ASSUME NEW p \in Procs, NEW i \in Items, Trust(p, i) PROVE RunsAsApproved'
  BY <1>5 DEF Trust, RunsAsApproved, TrustTypeOK
<1>6. ASSUME NEW p \in Procs, NEW i \in Items, NEW on \in BOOLEAN, SetEnabled(p, i, on)
      PROVE  RunsAsApproved'
  <2> DEFINE entry == [trHeld[p][i] EXCEPT !.enabled = on]
             file == [trHeld[p] EXCEPT ![i] = entry]
  <2>1. /\ trHeld[p] \in [Items -> Entry] /\ Backed(trHeld[p])
        /\ trSeen[p] \in [Items -> Versions] /\ trSeen[p] # None
    BY <1>6 DEF SetEnabled, TrustTypeOK, TrustNeverInvented
  <2>2. entry \in Entry /\ entry.hash = trHeld[p][i].hash BY <2>1 DEF Entry
  <2>3. file[i] = entry BY <2>1
  <2>4. trOn' = [trOn EXCEPT ![p] = IF Trusted(file, trSeen[p], i) THEN @ \cup {i} ELSE @ \ {i}]
    BY <1>6 DEF SetEnabled
  <2>5. UNCHANGED <<trSeen, trApproved>> BY <1>6 DEF SetEnabled
  <2> HIDE DEF entry, file
  <2>6. Trusted(file, trSeen[p], i) => <<i, trSeen[p][i]>> \in trApproved
    BY <2>1, <2>2, <2>3, TrustAssumption DEF Trusted, Backed
  <2>7. ASSUME NEW q \in Procs, NEW j \in trOn'[q]
        PROVE  trSeen[q] # None /\ <<j, trSeen[q][j]>> \in trApproved
    <3>1. CASE j \in trOn[q] BY <3>1 DEF RunsAsApproved
    <3>2. CASE j \notin trOn[q]
      <4>1. q = p /\ j = i /\ Trusted(file, trSeen[p], i) BY <2>4, <2>7, <3>2 DEF TrustTypeOK
      <4> QED BY <2>1, <2>6, <4>1
    <3> QED BY <3>1, <3>2
  <2> QED BY <2>5, <2>7 DEF RunsAsApproved
<1> QED BY <1>1, <1>3, <1>4, <1>5, <1>6 DEF TrustNext, Edit, LoadToChange, trVars

\* For any configuration, any number of processes and commands, and however saves race, tear
\* the file or are lost: what may run was approved in the version that runs (mcp.rs, hooks/).
THEOREM TrustAlwaysSound == TrustSpec => []TrustSound
<1>1. TrustSound /\ [TrustNext]_trVars => TrustSound'
  BY TrustTypeStep, BackedStep, RunsStep DEF TrustSound
<1> QED BY <1>1, TrustSoundInitially, PTL DEF TrustSpec

-----------------------------------------------------------------------------
(* Credentials *)

\* Whose change of the file is under way, and whose changes an entry of it.
Saving(p)      == auStep[p] \in {"truncate", "write"}
Pending(p, pr) == auStep[p] \in {"load", "truncate", "write"} /\ auFor[p] = pr

\* How a process came to the step it is at.
OwnWay ==
    \A p \in Users :
        /\ At(p, "refresh") => /\ auVia[p] = "refresh"
                              /\ auNew[p] \in 0..auIssued[auFor[p]]
        /\ auStep[p] \in {"callback", "paste", "exchange", "poll", "import"} => auVia[p] # "refresh"

\* Rivals, and those who save at once, are what disturbs.
NoRivals ==
    \A p, q \in Users : p # q =>
        /\ ~At(p, "idle") /\ ~At(q, "idle") /\ auFor[p] = auFor[q] =>
              auVia[p] = "refresh" /\ auVia[q] = "refresh"
        /\ ~(Saving(p) /\ Saving(q))
        /\ auStep[p] \in {"load", "truncate", "write"} => ~Pending(q, auFor[p])

\* Who waits to refresh holds a token that is spent, or the newest of all.
SpentOrNewest ==
    \A p \in Users : At(p, "refresh") =>
        \/ auNew[p] \notin auLive[auFor[p]]
        \/ auNew[p] = auMeant[auFor[p]] /\ \A q \in Users : ~Pending(q, auFor[p])

\* An entry of a store is what it was meant to be, or a refresh is replacing it,
\* and then the provider does not take it any more.
Stands(entry, pr) ==
    /\ (\A q \in Users : ~Pending(q, pr)) => entry = auMeant[pr]
    /\ \A q \in Users : Pending(q, pr) /\ auVia[q] = "refresh" => entry \notin auLive[pr]

\* The file is torn only while it is written; it, and what is about to be written, stand.
FileStands ==
    IF auFile = Torn THEN \E p \in Users : At(p, "write")
    ELSE \A pr \in Providers : Stands(auFile[pr], pr)
HeldStands ==
    \A p \in Users : Saving(p) =>
        /\ auHeld[p][auFor[p]] = auNew[p]
        /\ \A pr \in Providers \ {auFor[p]} : Stands(auHeld[p][pr], pr)

\* What is under way is what is meant, and what is meant works.
MeantWorks ==
    /\ \A p \in Users : auStep[p] \in {"load", "truncate", "write"} => auNew[p] = auMeant[auFor[p]]
    /\ \A pr \in OAuth : auMeant[pr] = 0 \/ auMeant[pr] \in auLive[pr]

\* The inductive invariant: the types and the ways always, the rest while nothing disturbs.
AuthKept == NoRivals /\ SpentOrNewest /\ FileStands /\ HeldStands /\ MeantWorks
AuthInv == AuthTypeOK /\ CodeIsOurs /\ OwnWay /\ (~auDisturbed => AuthKept)

LEMMA AuthInitially == AuthInit => AuthInv
<1> SUFFICES ASSUME AuthInit PROVE AuthInv OBVIOUS
<1> USE CredentialsAssumption
<1>1. AuthTypeOK
  <2>1. "grok" \in Providers BY DEF Providers, OAuth
  <2>2. NoEntries \in [Providers -> 0..MaxIssued] BY DEF NoEntries
  <2>3. \A pr \in Providers : auLive[pr] \cup auExpired[pr] \subseteq 1..auIssued[pr] BY DEF AuthInit
  <2>4. auLive \in [Providers -> SUBSET (1..MaxIssued)] /\ auExpired \in [Providers -> SUBSET (1..MaxIssued)]
    BY DEF AuthInit
  <2>5. auStep \in [Users -> {"idle"}] /\ auVia \in [Users -> {"none"}] BY DEF AuthInit
  <2>6. auFor \in [Users -> Providers] /\ auNew \in [Users -> 0..MaxIssued] BY <2>1 DEF AuthInit
  <2>7. auHeld \in [Users -> [Providers -> 0..MaxIssued]] BY <2>2 DEF AuthInit
  <2>8. /\ auFile \in [Providers -> 0..MaxIssued] /\ auIssued \in [Providers -> 0..MaxIssued]
        /\ auMeant \in [Providers -> 0..MaxIssued] /\ auDisturbed \in BOOLEAN
    BY <2>2 DEF AuthInit
  <2> QED BY <2>3, <2>4, <2>5, <2>6, <2>7, <2>8 DEF AuthTypeOK
<1>2. CodeIsOurs /\ OwnWay BY DEF AuthInit, CodeIsOurs, OwnWay, At
<1>3. NoRivals /\ SpentOrNewest /\ HeldStands
  BY DEF AuthInit, NoRivals, SpentOrNewest, HeldStands, At, Saving, Pending
<1>4. MeantWorks BY DEF AuthInit, MeantWorks, NoEntries, Providers
<1>5. FileStands
  <2>1. auFile # Torn BY <1>1 DEF AuthInit, AuthTypeOK
  <2> QED BY <2>1 DEF AuthInit, FileStands, Stands, Pending
<1> QED BY <1>1, <1>2, <1>3, <1>4, <1>5 DEF AuthInv, AuthKept

\* What is in the store.
LEMMA StoreIsTyped == AuthTypeOK => Store \in [Providers -> 0..MaxIssued]
BY CredentialsAssumption DEF AuthTypeOK, Store, NoEntries

\* The types are kept.
LEMMA AuthTypeStep == AuthTypeOK /\ [AuthNext]_auVars => AuthTypeOK'
<1> SUFFICES ASSUME AuthTypeOK, [AuthNext]_auVars PROVE AuthTypeOK' OBVIOUS
<1> USE CredentialsAssumption
<1>1. ASSUME NEW p \in Users, NEW pr \in Providers, NEW to \in {"refresh", "load", "callback", "poll", "import"},
             NEW new \in 0..MaxIssued, NEW via \in {"none", "refresh", "cli", "set", "clear"},
             BeginFor(p, pr, to, new, via), UNCHANGED <<auFile, auWorld>>, auMeant' \in [Providers -> 0..MaxIssued]
      PROVE  AuthTypeOK'
  <2>1. auStep' = [auStep EXCEPT ![p] = to] BY <1>1 DEF BeginFor, Step, Goto
  <2>2. auDisturbed' \in BOOLEAN BY <1>1 DEF BeginFor
  <2> QED BY <1>1, <2>1, <2>2 DEF BeginFor, auWorld, AuthTypeOK
<1>2. ASSUME NEW p \in Users, CallOver(p),
             auFile' = auFile \/ auFile' = auHeld[p], UNCHANGED auMeant, auDisturbed' \in BOOLEAN,
             auIssued' = auIssued, auExpired' = auExpired,
             auLive' = auLive \/ auLive' = [auLive EXCEPT ![auFor[p]] = @ \ {auNew[p]}]
      PROVE  AuthTypeOK'
  <2>1. \A pr \in Providers : auLive'[pr] \subseteq auLive[pr]
    BY <1>2 DEF AuthTypeOK
  <2>2. auLive' \in [Providers -> SUBSET (1..MaxIssued)]
    BY <1>2 DEF AuthTypeOK
  <2>3. "grok" \in Providers BY DEF Providers, OAuth
  <2>4. auHeld' \in [Users -> [Providers -> 0..MaxIssued]]
    BY <1>2 DEF CallOver, AuthTypeOK, NoEntries
  <2>5. auFile' \in [Providers -> 0..MaxIssued] \cup {Torn}
    BY <1>2 DEF AuthTypeOK
  <2> QED BY <1>2, <2>1, <2>2, <2>3, <2>4, <2>5 DEF CallOver, Goto, AuthTypeOK
<1>3. ASSUME NEW p \in Users, NEW gone, Issue(p, gone), UNCHANGED <<auFile, auFor, auHeld, auVia, auDisturbed>>,
             Goto(p, "load")
      PROVE  AuthTypeOK'
  <2> DEFINE pr == auFor[p]  n == auIssued[pr] + 1
  <2>1. pr \in Providers /\ n \in 1..MaxIssued BY <1>3 DEF Issue, AuthTypeOK
  <2>2. /\ auIssued' = [auIssued EXCEPT ![pr] = n] /\ auLive' = [auLive EXCEPT ![pr] = (@ \ gone) \cup {n}]
        /\ auNew' = [auNew EXCEPT ![p] = n] /\ auMeant' = [auMeant EXCEPT ![pr] = n]
        /\ auExpired' = auExpired
    BY <1>3 DEF Issue
  <2> HIDE DEF n
  <2>3. auLive' \in [Providers -> SUBSET (1..MaxIssued)] BY <2>1, <2>2 DEF AuthTypeOK
  <2>4. \A x \in Providers : auLive'[x] \cup auExpired'[x] \subseteq 1..auIssued'[x]
    <3> SUFFICES ASSUME NEW x \in Providers PROVE auLive'[x] \cup auExpired'[x] \subseteq 1..auIssued'[x] OBVIOUS
    <3>1. CASE x = pr
      <4>1. auLive'[x] \subseteq auLive[x] \cup {n} /\ auIssued'[x] = auIssued[x] + 1
        BY <2>1, <2>2, <3>1 DEF AuthTypeOK, n
      <4> QED BY <4>1, <2>1, <2>2, <3>1 DEF AuthTypeOK, n
    <3>2. CASE x # pr BY <2>1, <2>2, <3>2 DEF AuthTypeOK
    <3> QED BY <3>1, <3>2
  <2> QED BY <1>3, <2>1, <2>2, <2>3, <2>4 DEF Goto, AuthTypeOK
<1>4. ASSUME NEW p \in Users, Refresh(p) PROVE AuthTypeOK'
  BY <1>3, <1>4 DEF Refresh, Step
<1>5. ASSUME NEW p \in Users, RefreshFails(p) PROVE AuthTypeOK'
  <2>1. auDisturbed' \in BOOLEAN BY <1>5 DEF RefreshFails, AuthTypeOK
  <2> QED BY <1>2, <1>5, <2>1 DEF RefreshFails
<1>6. ASSUME NEW p \in Users, Import(p) PROVE AuthTypeOK'
  <2>1. "grok" \in Providers /\ 0 \in 0..MaxIssued BY DEF Providers, OAuth
  <2>2. auMeant' \in [Providers -> 0..MaxIssued] BY <1>6 DEF Import, AuthTypeOK
  <2> QED BY <1>1, <1>6, <2>1, <2>2 DEF Import
<1>7. ASSUME NEW p \in Users, CallbackTimesOut(p) PROVE AuthTypeOK'
  BY <1>7 DEF CallbackTimesOut, Step, Goto, auWorld, auPast, AuthTypeOK
<1>8. ASSUME NEW p \in Users, Granted(p) PROVE AuthTypeOK'
  BY <1>3, <1>8 DEF Granted, Step
<1>9. ASSUME NEW p \in Users, LoginFails(p) PROVE AuthTypeOK'
  <2>1. auDisturbed' \in BOOLEAN BY <1>9 DEF LoginFails, auPast, AuthTypeOK
  <2> QED BY <1>2, <1>9, <2>1 DEF LoginFails, auPast, auWorld
<1>10. ASSUME NEW p \in Users, CliRefreshes(p) PROVE AuthTypeOK'
  <2>1. "grok" \in Providers BY DEF Providers, OAuth
  <2>2. \A x \in Providers : auLive'[x] \subseteq auLive[x] BY <1>10 DEF CliRefreshes, AuthTypeOK
  <2>3. auLive' \in [Providers -> SUBSET (1..MaxIssued)] BY <1>10, <2>1 DEF CliRefreshes, AuthTypeOK
  <2> QED BY <1>10, <2>2, <2>3 DEF CliRefreshes, auOwn, AuthTypeOK
<1>11. ASSUME NEW p \in Users, SetKey(p) PROVE AuthTypeOK'
  <2>1. "openai" \in Providers /\ 1 \in 0..MaxIssued BY DEF Providers, OAuth
  <2>2. auMeant' \in [Providers -> 0..MaxIssued] BY <1>11, <2>1 DEF SetKey, AuthTypeOK
  <2> QED BY <1>1, <1>11, <2>1, <2>2 DEF SetKey
<1>12. ASSUME NEW p \in Users, Crash(p) PROVE AuthTypeOK'
  BY <1>2, <1>12 DEF Crash, auWorld
<1>13. ASSUME NEW p \in Users, LoadStore(p) PROVE AuthTypeOK'
  <2>1. [Store EXCEPT ![auFor[p]] = auNew[p]] \in [Providers -> 0..MaxIssued]
    BY StoreIsTyped DEF AuthTypeOK
  <2>2. auDisturbed' \in BOOLEAN BY <1>13 DEF LoadStore
  <2> QED BY <1>13, <2>1, <2>2 DEF LoadStore, Step, Goto, auWorld, AuthTypeOK
<1>14. ASSUME NEW p \in Users, Truncate(p) PROVE AuthTypeOK'
  BY <1>14 DEF Truncate, Step, Goto, auWorld, auPast, AuthTypeOK
<1>15. ASSUME NEW p \in Users, WriteStore(p) PROVE AuthTypeOK'
  <2>1. auDisturbed' \in BOOLEAN BY <1>15 DEF WriteStore, auPast, AuthTypeOK
  <2> QED BY <1>2, <1>15, <2>1 DEF WriteStore, auWorld, auPast
<1>16. ASSUME NEW p \in Users, NEW pr \in OAuth, Access(p, pr) PROVE AuthTypeOK'
  <2>1. pr \in Providers /\ Store[pr] \in 0..MaxIssued BY StoreIsTyped DEF Providers
  <2>2. auMeant' \in [Providers -> 0..MaxIssued] BY <1>16 DEF Access, AuthTypeOK
  <2> QED BY <1>1, <1>16, <2>1, <2>2 DEF Access
<1>17. ASSUME NEW p \in Users, NEW pr \in OAuth, StartLogin(p, pr) PROVE AuthTypeOK'
  <2>1. pr \in Providers /\ 0 \in 0..MaxIssued BY DEF Providers
  <2>2. auMeant' \in [Providers -> 0..MaxIssued] BY <1>17 DEF StartLogin, AuthTypeOK
  <2> QED BY <1>1, <1>17, <2>1, <2>2 DEF StartLogin
<1>18. ASSUME NEW p \in Users, NEW pr \in Providers, Clear(p, pr) PROVE AuthTypeOK'
  <2>1. 0 \in 0..MaxIssued OBVIOUS
  <2>2. auMeant' \in [Providers -> 0..MaxIssued] BY <1>18, <2>1 DEF Clear, AuthTypeOK
  <2> QED BY <1>1, <1>18, <2>1, <2>2 DEF Clear
<1>19. ASSUME NEW p \in Users, NEW what \in Callbacks, Callback(p, what) PROVE AuthTypeOK'
  BY <1>19 DEF Callback, Goto, auWorld, auPast, AuthTypeOK
<1>20. ASSUME NEW p \in Users, NEW what \in {"ours", "typed"}, Paste(p, what) PROVE AuthTypeOK'
  BY <1>20 DEF Paste, Step, Goto, auWorld, auPast, AuthTypeOK
<1>21. ASSUME NEW pr \in OAuth, NEW n \in 1..MaxIssued, TokenExpires(pr, n) PROVE AuthTypeOK'
  BY <1>21 DEF TokenExpires, auOwn, auPast, AuthTypeOK, Providers
<1>22. CASE UNCHANGED auVars BY <1>22 DEF auVars, AuthTypeOK
<1> QED BY <1>4, <1>5, <1>6, <1>7, <1>8, <1>9, <1>10, <1>11, <1>12, <1>13, <1>14, <1>15, <1>16,
           <1>17, <1>18, <1>19, <1>20, <1>21, <1>22 DEF AuthNext

\* What a code came with, and how a process came to its step, is kept.
LEMMA AuthWaysStep ==
    AuthTypeOK /\ CodeIsOurs /\ OwnWay /\ [AuthNext]_auVars => CodeIsOurs' /\ OwnWay'
<1> SUFFICES ASSUME AuthTypeOK, CodeIsOurs, OwnWay, [AuthNext]_auVars PROVE CodeIsOurs' /\ OwnWay'
  OBVIOUS
<1> USE CredentialsAssumption
<1> DEFINE Way(p) == /\ At(p, "exchange") => auVia[p] \in {"ours", "typed"}
                     /\ At(p, "refresh") => auVia[p] = "refresh" /\ auNew[p] \in 0..auIssued[auFor[p]]
                     /\ auStep[p] \in {"callback", "paste", "exchange", "poll", "import"} => auVia[p] # "refresh"
<1>ways. (CodeIsOurs' /\ OwnWay' <=> \A p \in Users : Way(p)') /\ \A p \in Users : Way(p)
  BY DEF CodeIsOurs, OwnWay
\* A step of p that leaves the others where they are.
<1>own. ASSUME NEW p \in Users, Way(p)',
               \A q \in Users \ {p} : /\ auStep'[q] = auStep[q] /\ auVia'[q] = auVia[q]
                                      /\ auNew'[q] = auNew[q] /\ auFor'[q] = auFor[q],
               \A pr \in Providers : auIssued'[pr] >= auIssued[pr], auIssued' \in [Providers -> 0..MaxIssued]
        PROVE  CodeIsOurs' /\ OwnWay'
  <2> SUFFICES ASSUME NEW q \in Users \ {p} PROVE Way(q)' BY <1>own, <1>ways
  <2>1. auIssued'[auFor[q]] >= auIssued[auFor[q]] /\ auIssued'[auFor[q]] \in Nat /\ auIssued[auFor[q]] \in Nat
    BY <1>own DEF AuthTypeOK
  <2>2. Way(q) BY <1>ways
  <2> HIDE DEF Way
  <2>3. /\ auStep'[q] = auStep[q] /\ auVia'[q] = auVia[q]
        /\ auNew'[q] = auNew[q] /\ auFor'[q] = auFor[q]
    BY <1>own
  <2>4. auNew[q] \in 0..auIssued[auFor[q]] => auNew[q] \in 0..auIssued'[auFor[q]] BY <2>1
  <2> QED BY <2>2, <2>3, <2>4 DEF Way, At
<1>begin. ASSUME NEW p \in Users, NEW pr \in Providers, NEW to, NEW new, NEW via,
                 BeginFor(p, pr, to, new, via), UNCHANGED auWorld,
                 \/ to = "refresh" /\ via = "refresh" /\ new \in 0..auIssued[pr]
                 \/ to \in {"callback", "poll", "import"} /\ via # "refresh"
                 \/ to = "load"
          PROVE  CodeIsOurs' /\ OwnWay'
  <2>1. /\ auStep' = [auStep EXCEPT ![p] = to] /\ auVia' = [auVia EXCEPT ![p] = via]
        /\ auFor' = [auFor EXCEPT ![p] = pr] /\ auNew' = [auNew EXCEPT ![p] = new] /\ auIssued' = auIssued
    BY <1>begin DEF BeginFor, Step, Goto, auWorld
  <2>2. \A q \in Users \ {p} : /\ auStep'[q] = auStep[q] /\ auVia'[q] = auVia[q]
                               /\ auNew'[q] = auNew[q] /\ auFor'[q] = auFor[q]
    BY <2>1 DEF AuthTypeOK
  <2>3. Way(p)' BY <1>begin, <2>1 DEF At, AuthTypeOK
  <2>4. (\A x \in Providers : auIssued'[x] >= auIssued[x]) /\ auIssued' \in [Providers -> 0..MaxIssued]
    BY <2>1 DEF AuthTypeOK
  <2> QED BY <1>own, <2>2, <2>3, <2>4
\* To the save, or over.
<1>on. ASSUME NEW p \in Users, NEW to \in {"idle", "load", "truncate", "write"}, auStep' = [auStep EXCEPT ![p] = to],
              \A q \in Users \ {p} : /\ auVia'[q] = auVia[q] /\ auNew'[q] = auNew[q] /\ auFor'[q] = auFor[q],
              \A pr \in Providers : auIssued'[pr] >= auIssued[pr], auIssued' \in [Providers -> 0..MaxIssued]
       PROVE  CodeIsOurs' /\ OwnWay'
  <2>1. Way(p)' BY <1>on DEF At, AuthTypeOK
  <2>2. \A q \in Users \ {p} : auStep'[q] = auStep[q] BY <1>on DEF AuthTypeOK
  <2> QED BY <1>own, <1>on, <2>1, <2>2
<1>same. auIssued' = auIssued =>
           /\ \A pr \in Providers : auIssued'[pr] >= auIssued[pr]
           /\ auIssued' \in [Providers -> 0..MaxIssued]
  BY DEF AuthTypeOK
<1>over. ASSUME NEW p \in Users, CallOver(p), auIssued' = auIssued PROVE CodeIsOurs' /\ OwnWay'
  <2>1. \A q \in Users \ {p} : /\ auVia'[q] = auVia[q] /\ auNew'[q] = auNew[q] /\ auFor'[q] = auFor[q]
    BY <1>over DEF CallOver, AuthTypeOK
  <2>2. auStep' = [auStep EXCEPT ![p] = "idle"] BY <1>over DEF CallOver, Goto
  <2> QED BY <1>on, <1>over, <1>same, <2>1, <2>2
<1>save. ASSUME NEW p \in Users, NEW to \in {"truncate", "write"}, Goto(p, to), auIssued' = auIssued,
                UNCHANGED <<auVia, auNew, auFor>>
         PROVE  CodeIsOurs' /\ OwnWay'
  BY <1>on, <1>save, <1>same DEF Goto
<1>issue. ASSUME NEW p \in Users, NEW gone, Goto(p, "load"), Issue(p, gone), UNCHANGED <<auVia, auFor>>
          PROVE  CodeIsOurs' /\ OwnWay'
  <2>1. auFor[p] \in Providers BY DEF AuthTypeOK
  <2>2. \A q \in Users \ {p} : /\ auVia'[q] = auVia[q] /\ auNew'[q] = auNew[q] /\ auFor'[q] = auFor[q]
    BY <1>issue DEF Issue, AuthTypeOK
  <2>3. auIssued' = [auIssued EXCEPT ![auFor[p]] = auIssued[auFor[p]] + 1] /\ auIssued[auFor[p]] + 1 <= MaxIssued
    BY <1>issue DEF Issue
  <2>4. (\A x \in Providers : auIssued'[x] >= auIssued[x]) /\ auIssued' \in [Providers -> 0..MaxIssued]
    BY <2>1, <2>3 DEF AuthTypeOK
  <2> QED BY <1>on, <1>issue, <2>2, <2>4 DEF Goto
\* Within a login.
<1>login. ASSUME NEW p \in Users, NEW to \in {"callback", "paste", "exchange"}, Goto(p, to), auIssued' = auIssued,
                 UNCHANGED <<auNew, auFor>>, NEW via, auVia' = [auVia EXCEPT ![p] = via],
                 via # "refresh", to = "exchange" => via \in {"ours", "typed"}
          PROVE  CodeIsOurs' /\ OwnWay'
  <2>1. Way(p)' BY <1>login DEF Goto, At, AuthTypeOK
  <2>2. \A q \in Users \ {p} : /\ auStep'[q] = auStep[q] /\ auVia'[q] = auVia[q]
                               /\ auNew'[q] = auNew[q] /\ auFor'[q] = auFor[q]
    BY <1>login DEF Goto, AuthTypeOK
  <2> QED BY <1>own, <1>login, <1>same, <2>1, <2>2
<1> HIDE DEF Way
<1>4. ASSUME NEW p \in Users, Refresh(p) PROVE CodeIsOurs' /\ OwnWay'
  BY <1>issue, <1>4 DEF Refresh, Step
<1>5. ASSUME NEW p \in Users, RefreshFails(p) PROVE CodeIsOurs' /\ OwnWay'
  BY <1>over, <1>5 DEF RefreshFails
<1>6. ASSUME NEW p \in Users, Import(p) PROVE CodeIsOurs' /\ OwnWay'
  BY <1>begin, <1>6 DEF Import, Providers, OAuth
<1>7. ASSUME NEW p \in Users, CallbackTimesOut(p) PROVE CodeIsOurs' /\ OwnWay'
  <2>1. At(p, "callback") /\ Goto(p, "paste") BY <1>7 DEF CallbackTimesOut, Step
  <2>2. auVia[p] # "refresh" BY <2>1 DEF OwnWay, At
  <2>3. auVia' = [auVia EXCEPT ![p] = auVia[p]] BY <1>7 DEF CallbackTimesOut, AuthTypeOK
  <2> QED BY <1>login, <1>7, <2>1, <2>2, <2>3 DEF CallbackTimesOut, auWorld
<1>8. ASSUME NEW p \in Users, Granted(p) PROVE CodeIsOurs' /\ OwnWay'
  BY <1>issue, <1>8 DEF Granted, Step
<1>9. ASSUME NEW p \in Users, LoginFails(p) PROVE CodeIsOurs' /\ OwnWay'
  BY <1>over, <1>9 DEF LoginFails, auWorld
<1>10. ASSUME NEW p \in Users, CliRefreshes(p) PROVE CodeIsOurs' /\ OwnWay'
  BY <1>10 DEF CliRefreshes, auOwn, CodeIsOurs, OwnWay, At
<1>11. ASSUME NEW p \in Users, SetKey(p) PROVE CodeIsOurs' /\ OwnWay'
  BY <1>begin, <1>11 DEF SetKey, Providers, OAuth
<1>12. ASSUME NEW p \in Users, Crash(p) PROVE CodeIsOurs' /\ OwnWay'
  BY <1>over, <1>12 DEF Crash, auWorld
<1>13. ASSUME NEW p \in Users, LoadStore(p) PROVE CodeIsOurs' /\ OwnWay'
  BY <1>save, <1>13 DEF LoadStore, Step, auWorld
<1>14. ASSUME NEW p \in Users, Truncate(p) PROVE CodeIsOurs' /\ OwnWay'
  BY <1>save, <1>14 DEF Truncate, Step, auWorld
<1>15. ASSUME NEW p \in Users, WriteStore(p) PROVE CodeIsOurs' /\ OwnWay'
  BY <1>over, <1>15 DEF WriteStore, auWorld
<1>16. ASSUME NEW p \in Users, NEW pr \in OAuth, Access(p, pr) PROVE CodeIsOurs' /\ OwnWay'
  <2>1. pr \in Providers BY DEF Providers
  <2>2. Store[pr] \in 1..auIssued[pr] BY <1>16, <2>1 DEF Access, AuthTypeOK
  <2>3. Store[pr] \in 0..auIssued[pr] BY <2>1, <2>2 DEF AuthTypeOK
  <2> QED BY <1>begin, <1>16, <2>1, <2>3 DEF Access
<1>17. ASSUME NEW p \in Users, NEW pr \in OAuth, StartLogin(p, pr) PROVE CodeIsOurs' /\ OwnWay'
  BY <1>begin, <1>17 DEF StartLogin, Providers
<1>18. ASSUME NEW p \in Users, NEW pr \in Providers, Clear(p, pr) PROVE CodeIsOurs' /\ OwnWay'
  BY <1>begin, <1>18 DEF Clear
<1>19. ASSUME NEW p \in Users, NEW what \in Callbacks, Callback(p, what) PROVE CodeIsOurs' /\ OwnWay'
  <2> DEFINE to == IF what = "ours" THEN "exchange"
                   ELSE IF what # "denied" /\ auFor[p] = "grok" THEN "callback" ELSE "paste"
             via == IF what = "ours" THEN "ours" ELSE auVia[p]
  <2>1. Goto(p, to) /\ auVia' = [auVia EXCEPT ![p] = via] BY <1>19 DEF Callback
  <2>2. auVia[p] # "refresh" BY <1>19 DEF Callback, OwnWay, At
  <2>3. /\ to \in {"callback", "paste", "exchange"} /\ via # "refresh"
        /\ to = "exchange" => via \in {"ours", "typed"}
    BY <2>2
  <2> HIDE DEF to, via
  <2> QED BY <1>login, <1>19, <2>1, <2>3 DEF Callback, auWorld
<1>20. ASSUME NEW p \in Users, NEW what \in {"ours", "typed"}, Paste(p, what) PROVE CodeIsOurs' /\ OwnWay'
  BY <1>login, <1>20 DEF Paste, Step, auWorld
<1>21. ASSUME NEW pr \in OAuth, NEW n \in 1..MaxIssued, TokenExpires(pr, n) PROVE CodeIsOurs' /\ OwnWay'
  BY <1>21 DEF TokenExpires, auOwn, CodeIsOurs, OwnWay, At
<1>22. CASE UNCHANGED auVars BY <1>22 DEF auVars, CodeIsOurs, OwnWay, At
<1> QED BY <1>4, <1>5, <1>6, <1>7, <1>8, <1>9, <1>10, <1>11, <1>12, <1>13, <1>14, <1>15, <1>16,
           <1>17, <1>18, <1>19, <1>20, <1>21, <1>22 DEF AuthNext

\* An entry stands after a step.
StandsThen(entry, pr) ==
    /\ (\A q \in Users : ~Pending(q, pr)') => entry = auMeant'[pr]
    /\ \A q \in Users : Pending(q, pr)' /\ auVia'[q] = "refresh" => entry \notin auLive'[pr]

\* The others, and the stores they hold, are where they were.
OthersWait(p) ==
    \A q \in Users \ {p} : /\ auStep'[q] = auStep[q] /\ auFor'[q] = auFor[q] /\ auNew'[q] = auNew[q]
                           /\ auVia'[q] = auVia[q] /\ auHeld'[q] = auHeld[q]

\* Somebody starts, undisturbed.
LEMMA BeginKeeps ==
    ASSUME AuthTypeOK, OwnWay, AuthKept, NEW p \in Users, NEW pr \in Providers, NEW to, NEW new, NEW via,
           BeginFor(p, pr, to, new, via), ~auDisturbed', UNCHANGED <<auFile, auWorld>>,
           \A x \in Providers \ {pr} : auMeant'[x] = auMeant[x],
           \/ to = "load" /\ via # "refresh" /\ new = auMeant'[pr] /\ (pr \in OAuth => new = 0)
           \/ /\ to = "refresh" /\ via = "refresh" /\ new = Store[pr] /\ new # 0
              /\ auMeant'[pr] = auMeant[pr]
           \/ to \in {"callback", "poll", "import"} /\ via # "refresh" /\ auMeant'[pr] = auMeant[pr]
    PROVE  AuthKept'
<1>1. /\ auStep[p] = "idle" /\ auStep' = [auStep EXCEPT ![p] = to] /\ auFor' = [auFor EXCEPT ![p] = pr]
      /\ auNew' = [auNew EXCEPT ![p] = new] /\ auVia' = [auVia EXCEPT ![p] = via] /\ auHeld' = auHeld
      /\ auFile' = auFile /\ auLive' = auLive
  BY DEF BeginFor, Step, At, Goto, auWorld
<1>2. OthersWait(p) BY <1>1 DEF OthersWait, AuthTypeOK
<1>3. auStep'[p] = to /\ auFor'[p] = pr /\ auNew'[p] = new /\ auVia'[p] = via
  BY <1>1 DEF AuthTypeOK
<1>4. /\ \A x \in Providers \ {pr} : auMeant'[x] = auMeant[x]
      /\ to # "load" => auMeant'[pr] = auMeant[pr]
  OBVIOUS
<1>5. \A q \in Users \ {p} : auStep[q] # "idle" /\ auFor[q] = pr => via = "refresh" /\ auVia[q] = "refresh"
  BY DEF BeginFor, At
<1>6. \A q \in Users, x \in Providers : Pending(q, x)' <=> Pending(q, x) \/ (q = p /\ x = pr /\ to = "load")
  <2> SUFFICES ASSUME NEW q \in Users, NEW x \in Providers
               PROVE Pending(q, x)' <=> Pending(q, x) \/ (q = p /\ x = pr /\ to = "load")
    OBVIOUS
  <2>1. CASE q = p BY <1>1, <1>3, <2>1 DEF Pending
  <2>2. CASE q # p BY <1>2, <2>2 DEF Pending, OthersWait
  <2> QED BY <2>1, <2>2
<1>7. \A q \in Users : Saving(q)' <=> Saving(q)
  BY <1>1, <1>2, <1>3 DEF Saving, OthersWait
<1>8. \A q \in Users : Saving(q) => q # p BY <1>1 DEF Saving
<1>9. \A q \in Users : auFor[q] \in Providers BY DEF AuthTypeOK
<1>a. \A q \in Users : At(q, "write") <=> At(q, "write")' BY <1>1, <1>2, <1>3 DEF At, OthersWait
<1>b. ASSUME NEW e, NEW x \in Providers, Stands(e, x) PROVE StandsThen(e, x)
  <2>1. CASE x = pr /\ to = "load"
    <3>1. Pending(p, pr)' BY <1>6, <2>1
    <3>2. \A q \in Users : Pending(q, pr)' => q = p
      BY <1>5, <1>6, <2>1 DEF Pending
    <3>3. auVia'[p] # "refresh" BY <1>3, <2>1
    <3> QED BY <2>1, <3>1, <3>2, <3>3 DEF StandsThen
  <2>2. CASE ~(x = pr /\ to = "load")
    <3>1. \A q \in Users : Pending(q, x)' <=> Pending(q, x) BY <1>6, <2>2
    <3>2. auMeant'[x] = auMeant[x] BY <1>4, <2>2
    <3>3. \A q \in Users : Pending(q, x) => auVia'[q] = auVia[q]
      BY <1>1, <1>2 DEF Pending, OthersWait
    <3> QED BY <1>1, <1>b, <3>1, <3>2, <3>3 DEF Stands, StandsThen
  <2> QED BY <2>1, <2>2
<1>c. NoRivals'
  <2> SUFFICES ASSUME NEW q \in Users, NEW r \in Users, q # r
               PROVE /\ auStep'[q] # "idle" /\ auStep'[r] # "idle" /\ auFor'[q] = auFor'[r] =>
                           auVia'[q] = "refresh" /\ auVia'[r] = "refresh"
                     /\ ~(Saving(q)' /\ Saving(r)')
                     /\ auStep'[q] \in {"load", "truncate", "write"} => ~Pending(r, auFor[q])'
    BY DEF NoRivals, At
  <2>1. auStep'[q] # "idle" /\ auStep'[r] # "idle" /\ auFor'[q] = auFor'[r] =>
            auVia'[q] = "refresh" /\ auVia'[r] = "refresh"
    <3>1. CASE q # p /\ r # p BY <1>2, <3>1 DEF OthersWait, AuthKept, NoRivals, At
    <3>2. CASE q = p BY <1>2, <1>3, <1>5, <3>2 DEF OthersWait
    <3>3. CASE r = p BY <1>2, <1>3, <1>5, <3>3 DEF OthersWait
    <3> QED BY <3>1, <3>2, <3>3
  <2>2. ~(Saving(q)' /\ Saving(r)') BY <1>7 DEF AuthKept, NoRivals
  <2>3. ASSUME auStep'[q] \in {"load", "truncate", "write"}, Pending(r, auFor[q])' PROVE FALSE
    <3>1. /\ auStep'[r] \in {"load", "truncate", "write"} /\ auFor'[r] = auFor'[q]
      BY <2>3 DEF Pending
    <3>2. auVia'[q] = "refresh" /\ auVia'[r] = "refresh" BY <2>1, <2>3, <3>1
    <3>3. q # p /\ r # p BY <1>3, <2>3, <3>1, <3>2
    <3>4. auStep[q] \in {"load", "truncate", "write"} /\ Pending(r, auFor[q])
      BY <1>2, <2>3, <3>1, <3>3 DEF OthersWait, Pending
    <3> QED BY <3>4 DEF AuthKept, NoRivals
  <2> QED BY <2>1, <2>2, <2>3
<1>d. SpentOrNewest'
  <2> SUFFICES ASSUME NEW q \in Users, auStep'[q] = "refresh"
               PROVE \/ auNew'[q] \notin auLive'[auFor'[q]]
                     \/ auNew'[q] = auMeant'[auFor'[q]] /\ \A r \in Users : ~Pending(r, auFor[q])'
    BY DEF SpentOrNewest, At
  <2>1. CASE q = p
    <3>1. new = Store[pr] /\ new # 0 /\ auMeant'[pr] = auMeant[pr] BY <1>3, <2>1
    <3>2. auFile # Torn /\ new = auFile[pr] BY <3>1 DEF Store, NoEntries
    <3>3. Stands(new, pr) BY <3>2 DEF AuthKept, FileStands
    <3>4. CASE \A r \in Users : ~Pending(r, pr)
      BY <1>3, <1>4, <1>6, <2>1, <3>1, <3>3, <3>4 DEF Stands
    <3>5. ASSUME NEW r \in Users, Pending(r, pr) PROVE auNew'[q] \notin auLive'[auFor'[q]]
      <4>1. r # p /\ auStep[r] # "idle" /\ auFor[r] = pr BY <1>1, <3>5 DEF Pending
      <4>2. auVia[r] = "refresh" BY <1>5, <4>1
      <4> QED BY <1>1, <1>3, <2>1, <3>3, <3>5, <4>2 DEF Stands
    <3> QED BY <3>4, <3>5
  <2>2. CASE q # p
    <3>1. /\ auStep[q] = "refresh" /\ auFor'[q] = auFor[q] /\ auNew'[q] = auNew[q]
      BY <1>2, <2>2 DEF OthersWait
    <3>2. ~(auFor[q] = pr /\ to = "load") BY <1>5, <2>2, <3>1
    <3>3. auMeant'[auFor[q]] = auMeant[auFor[q]] BY <1>4, <1>9, <3>2
    <3>4. \A r \in Users : Pending(r, auFor[q])' <=> Pending(r, auFor[q])
      <4> SUFFICES ASSUME NEW r \in Users PROVE Pending(r, auFor[q])' <=> Pending(r, auFor[q]) OBVIOUS
      <4>1. CASE r = p BY <1>1, <1>3, <3>1, <3>2, <4>1 DEF Pending
      <4>2. CASE r # p BY <1>2, <3>1, <4>2 DEF Pending, OthersWait
      <4> QED BY <4>1, <4>2
    <3> QED BY <1>1, <3>1, <3>3, <3>4 DEF AuthKept, SpentOrNewest, At
  <2> QED BY <2>1, <2>2
<1>e. FileStands'
  <2>1. CASE auFile = Torn BY <1>1, <1>a, <2>1 DEF AuthKept, FileStands
  <2>2. CASE auFile # Torn
    <3>1. \A x \in Providers : StandsThen(auFile[x], x) BY <1>b, <2>2 DEF AuthKept, FileStands
    <3> QED BY <1>1, <2>2, <3>1 DEF FileStands, StandsThen, Stands
  <2> QED BY <2>1, <2>2
<1>f. HeldStands'
  <2> SUFFICES ASSUME NEW q \in Users, Saving(q)'
               PROVE /\ auHeld'[q][auFor'[q]] = auNew'[q]
                     /\ \A x \in Providers \ {auFor'[q]} : StandsThen(auHeld'[q][x], x)
    BY DEF HeldStands, Stands, StandsThen
  <2>1. Saving(q) /\ q # p BY <1>7, <1>8
  <2>2. auHeld'[q] = auHeld[q] /\ auFor'[q] = auFor[q] /\ auNew'[q] = auNew[q]
    BY <1>2, <2>1 DEF OthersWait
  <2> QED BY <1>b, <2>1, <2>2 DEF AuthKept, HeldStands
<1>g. MeantWorks'
  <2>1. ASSUME NEW q \in Users, auStep'[q] \in {"load", "truncate", "write"}
        PROVE  auNew'[q] = auMeant'[auFor'[q]]
    <3>1. CASE q = p BY <1>3, <1>4, <2>1, <3>1
    <3>2. CASE q # p
      <4>1. /\ auStep[q] \in {"load", "truncate", "write"} /\ auFor'[q] = auFor[q] /\ auNew'[q] = auNew[q]
        BY <1>2, <2>1, <3>2 DEF OthersWait
      <4>2. ~(auFor[q] = pr /\ to = "load") BY <1>5, <3>2, <4>1
      <4>3. auMeant'[auFor[q]] = auMeant[auFor[q]] BY <1>4, <1>9, <4>2
      <4> QED BY <4>1, <4>3 DEF AuthKept, MeantWorks
    <3> QED BY <3>1, <3>2
  <2>2. ASSUME NEW x \in OAuth PROVE auMeant'[x] = 0 \/ auMeant'[x] \in auLive'[x]
    <3>1. x \in Providers BY DEF Providers
    <3>2. auMeant'[x] = auMeant[x] \/ auMeant'[x] = 0
      <4>1. CASE x = pr BY <1>4, <4>1
      <4>2. CASE x # pr BY <1>4, <3>1, <4>2
      <4> QED BY <4>1, <4>2
    <3> QED BY <1>1, <3>2 DEF AuthKept, MeantWorks
  <2> QED BY <2>1, <2>2 DEF MeantWorks
<1> QED BY <1>c, <1>d, <1>e, <1>f, <1>g DEF AuthKept

\* The provider gives p a credential, undisturbed.
LEMMA IssueKeeps ==
    ASSUME AuthTypeOK, OwnWay, AuthKept, NEW p \in Users, NEW gone,
           Goto(p, "load"), Issue(p, gone), UNCHANGED <<auFile, auFor, auHeld, auVia>>,
           \/ At(p, "refresh") /\ auNew[p] \in auLive[auFor[p]] /\ gone = {auNew[p]}
           \/ auStep[p] \in {"exchange", "poll", "import"}
    PROVE  AuthKept'
<1> DEFINE pr == auFor[p]  n == auIssued[pr] + 1
<1>0. pr \in Providers /\ auIssued[pr] \in Nat /\ n \in Nat BY DEF AuthTypeOK
<1>1. /\ auStep' = [auStep EXCEPT ![p] = "load"] /\ auNew' = [auNew EXCEPT ![p] = n]
      /\ auLive' = [auLive EXCEPT ![pr] = (@ \ gone) \cup {n}] /\ auMeant' = [auMeant EXCEPT ![pr] = n]
  BY DEF Issue, Goto
<1>2. /\ auStep'[p] = "load" /\ auNew'[p] = n
      /\ \A q \in Users \ {p} : auStep'[q] = auStep[q] /\ auNew'[q] = auNew[q]
  BY <1>1 DEF AuthTypeOK
<1>3. /\ auMeant'[pr] = n /\ auLive'[pr] = (auLive[pr] \ gone) \cup {n}
      /\ \A x \in Providers \ {pr} : auMeant'[x] = auMeant[x] /\ auLive'[x] = auLive[x]
  BY <1>0, <1>1 DEF AuthTypeOK
<1>4. At(p, "refresh") => auVia[p] = "refresh" /\ auNew[p] \in 0..auIssued[pr] BY DEF OwnWay
<1>5. auStep[p] \in {"exchange", "poll", "import"} => auVia[p] # "refresh" BY DEF OwnWay
<1>6. auStep[p] \in {"refresh", "exchange", "poll", "import"} BY DEF At
<1>7. \A q \in Users \ {p} : auStep[q] # "idle" /\ auFor[q] = pr => auVia[p] = "refresh" /\ auVia[q] = "refresh"
  BY <1>6 DEF AuthKept, NoRivals, At
<1> HIDE DEF n, pr
<1>8. auVia[p] = "refresh" => /\ auStep[p] = "refresh" /\ gone = {auNew[p]} /\ auNew[p] = auMeant[pr]
                              /\ auNew[p] \in 0..auIssued[pr] /\ \A q \in Users : ~Pending(q, pr)
  BY <1>4, <1>5 DEF AuthKept, SpentOrNewest, At, pr
<1>9. \A q \in Users : ~Pending(q, pr)
  <2>1. ASSUME NEW q \in Users, Pending(q, pr) PROVE FALSE
    <3>1. q # p BY <1>6, <2>1 DEF Pending
    <3>2. auStep[q] # "idle" /\ auFor[q] = pr BY <2>1 DEF Pending
    <3> QED BY <1>7, <1>8, <2>1, <3>1, <3>2
  <2> QED BY <2>1
<1>a. \A q \in Users, x \in Providers : Pending(q, x)' <=> Pending(q, x) \/ (q = p /\ x = pr)
  <2> SUFFICES ASSUME NEW q \in Users, NEW x \in Providers
               PROVE Pending(q, x)' <=> Pending(q, x) \/ (q = p /\ x = pr)
    OBVIOUS
  <2>1. CASE q = p BY <1>2, <1>6, <2>1 DEF Pending, pr
  <2>2. CASE q # p BY <1>2, <2>2 DEF Pending
  <2> QED BY <2>1, <2>2
<1>b. \A q \in Users : (Saving(q)' <=> Saving(q)) /\ (Saving(q) => q # p)
  BY <1>2, <1>6 DEF Saving
<1>c. ASSUME NEW e, NEW x \in Providers, Stands(e, x) PROVE StandsThen(e, x)
  <2>1. CASE x = pr
    <3>1. Pending(p, x)' /\ \A q \in Users : Pending(q, x)' => q = p BY <1>9, <1>a, <2>1
    <3>2. ASSUME auVia'[p] = "refresh" PROVE e \notin auLive'[x]
      <4>1. e = auMeant[pr] BY <1>9, <1>c, <2>1 DEF Stands
      <4>2. e = auNew[p] /\ gone = {e} /\ e \in 0..auIssued[pr] BY <1>8, <3>2, <4>1
      <4>3. e # n BY <1>0, <4>2 DEF n
      <4> QED BY <1>3, <2>1, <4>2, <4>3
    <3> QED BY <3>1, <3>2 DEF StandsThen
  <2>2. CASE x # pr
    <3>1. \A q \in Users : Pending(q, x)' <=> Pending(q, x) BY <1>a, <2>2
    <3> QED BY <1>3, <1>c, <2>2, <3>1 DEF Stands, StandsThen
  <2> QED BY <2>1, <2>2
<1>d. NoRivals'
  <2> SUFFICES ASSUME NEW q \in Users, NEW r \in Users, q # r
               PROVE /\ auStep'[q] # "idle" /\ auStep'[r] # "idle" /\ auFor'[q] = auFor'[r] =>
                           auVia'[q] = "refresh" /\ auVia'[r] = "refresh"
                     /\ ~(Saving(q)' /\ Saving(r)')
                     /\ auStep'[q] \in {"load", "truncate", "write"} => ~Pending(r, auFor[q])'
    BY DEF NoRivals, At
  <2>1. auStep'[q] # "idle" => auStep[q] # "idle" BY <1>2, <1>6
  <2>2. auStep'[r] # "idle" => auStep[r] # "idle" BY <1>2, <1>6
  <2>3. auStep'[q] # "idle" /\ auStep'[r] # "idle" /\ auFor'[q] = auFor'[r] =>
            auVia'[q] = "refresh" /\ auVia'[r] = "refresh"
    BY <2>1, <2>2 DEF AuthKept, NoRivals, At
  <2>4. ~(Saving(q)' /\ Saving(r)') BY <1>b DEF AuthKept, NoRivals
  <2>5. ASSUME auStep'[q] \in {"load", "truncate", "write"}, Pending(r, auFor[q])' PROVE FALSE
    <3>1. auStep'[r] \in {"load", "truncate", "write"} /\ auFor[r] = auFor[q] BY <2>5 DEF Pending
    <3>2. CASE q = p
      <4>1. Pending(r, pr) BY <1>2, <2>5, <3>1, <3>2 DEF Pending, pr
      <4> QED BY <1>9, <4>1
    <3>3. CASE r = p
      <4>1. Pending(q, pr) BY <1>2, <2>5, <3>1, <3>3 DEF Pending, pr
      <4> QED BY <1>9, <4>1
    <3>4. CASE q # p /\ r # p
      <4>1. auStep[q] \in {"load", "truncate", "write"} /\ Pending(r, auFor[q])
        BY <1>2, <2>5, <3>1, <3>4 DEF Pending
      <4> QED BY <4>1 DEF AuthKept, NoRivals
    <3> QED BY <3>2, <3>3, <3>4
  <2> QED BY <2>3, <2>4, <2>5
<1>e. SpentOrNewest'
  <2> SUFFICES ASSUME NEW q \in Users, auStep'[q] = "refresh"
               PROVE \/ auNew'[q] \notin auLive'[auFor'[q]]
                     \/ auNew'[q] = auMeant'[auFor'[q]] /\ \A r \in Users : ~Pending(r, auFor[q])'
    BY DEF SpentOrNewest, At
  <2>1. q # p /\ auStep[q] = "refresh" /\ auNew'[q] = auNew[q] /\ auFor'[q] = auFor[q]
    BY <1>2
  <2>2. auFor[q] \in Providers BY DEF AuthTypeOK
  <2>3. \/ auNew[q] \notin auLive[auFor[q]]
        \/ auNew[q] = auMeant[auFor[q]] /\ \A r \in Users : ~Pending(r, auFor[q])
    BY <2>1 DEF AuthKept, SpentOrNewest, At
  <2>4. CASE auFor[q] = pr
    <3>1. auVia[p] = "refresh" BY <1>7, <2>1, <2>4
    <3>2. auNew[q] # n
      <4>1. auNew[q] \in 0..auIssued[pr] BY <2>1, <2>4 DEF OwnWay, At
      <4> QED BY <1>0, <4>1 DEF n
    <3>3. auNew[q] \notin auLive[pr] \ gone BY <1>8, <2>3, <2>4, <3>1
    <3> QED BY <1>3, <2>1, <2>4, <3>2, <3>3
  <2>5. CASE auFor[q] # pr
    <3>1. \A r \in Users : Pending(r, auFor[q])' <=> Pending(r, auFor[q])
      <4> SUFFICES ASSUME NEW r \in Users PROVE Pending(r, auFor[q])' <=> Pending(r, auFor[q]) OBVIOUS
      <4>1. CASE r = p BY <1>2, <1>6, <2>5, <4>1 DEF Pending, pr
      <4>2. CASE r # p BY <1>2, <4>2 DEF Pending
      <4> QED BY <4>1, <4>2
    <3> QED BY <1>3, <2>1, <2>2, <2>3, <2>5, <3>1
  <2> QED BY <2>4, <2>5
<1>f. FileStands'
  <2>1. CASE auFile = Torn
    <3>1. PICK q \in Users : At(q, "write") BY <2>1 DEF AuthKept, FileStands
    <3>2. At(q, "write")' BY <1>2, <1>6, <3>1 DEF At
    <3> QED BY <2>1, <3>2 DEF FileStands
  <2>2. CASE auFile # Torn
    <3>1. \A x \in Providers : StandsThen(auFile[x], x) BY <1>c, <2>2 DEF AuthKept, FileStands
    <3> QED BY <2>2, <3>1 DEF FileStands, StandsThen, Stands
  <2> QED BY <2>1, <2>2
<1>g. HeldStands'
  <2> SUFFICES ASSUME NEW q \in Users, Saving(q)'
               PROVE /\ auHeld'[q][auFor'[q]] = auNew'[q]
                     /\ \A x \in Providers \ {auFor'[q]} : StandsThen(auHeld'[q][x], x)
    BY DEF HeldStands, Stands, StandsThen
  <2>1. Saving(q) /\ q # p BY <1>b
  <2> QED BY <1>2, <1>c, <2>1 DEF AuthKept, HeldStands
<1>h. MeantWorks'
  <2>1. ASSUME NEW q \in Users, auStep'[q] \in {"load", "truncate", "write"}
        PROVE  auNew'[q] = auMeant'[auFor'[q]]
    <3>1. CASE q = p BY <1>2, <1>3, <3>1 DEF pr
    <3>2. CASE q # p
      <4>1. auStep[q] \in {"load", "truncate", "write"} /\ auNew'[q] = auNew[q] BY <1>2, <2>1, <3>2
      <4>2. auFor[q] # pr BY <1>9, <4>1 DEF Pending
      <4>3. auFor[q] \in Providers BY DEF AuthTypeOK
      <4> QED BY <1>3, <4>1, <4>2, <4>3 DEF AuthKept, MeantWorks
    <3> QED BY <3>1, <3>2
  <2>2. ASSUME NEW x \in OAuth PROVE auMeant'[x] = 0 \/ auMeant'[x] \in auLive'[x]
    <3>1. x \in Providers BY DEF Providers
    <3>2. CASE x = pr BY <1>3, <3>2
    <3>3. CASE x # pr BY <1>3, <3>1, <3>3 DEF AuthKept, MeantWorks
    <3> QED BY <3>2, <3>3
  <2> QED BY <2>1, <2>2 DEF MeantWorks
<1> QED BY <1>d, <1>e, <1>f, <1>g, <1>h DEF AuthKept

\* A step of p that changes nothing of what the file is about: no save begins to be
\* waited for, none ends, and nobody becomes a rival or begins to refresh.
LEMMA AuthQuietKeeps ==
    ASSUME AuthTypeOK, AuthKept, UNCHANGED <<auLive, auMeant>>,
           \A q \in Users : auStep'[q] # "idle" => /\ auStep[q] # "idle" /\ auFor'[q] = auFor[q]
                                                   /\ auNew'[q] = auNew[q]
                                                   /\ auVia'[q] = "refresh" <=> auVia[q] = "refresh",
           \A q \in Users : auStep'[q] = "refresh" => auStep[q] = "refresh",
           \A q \in Users, pr \in Providers : Pending(q, pr)' <=> Pending(q, pr),
           \A q, r \in Users : q # r => ~(Saving(q)' /\ Saving(r)'),
           FileStands', HeldStands'
    PROVE  AuthKept'
<1>1. \A q \in Users : auFor[q] \in Providers BY DEF AuthTypeOK
<1>2. NoRivals'
  <2> SUFFICES ASSUME NEW q \in Users, NEW r \in Users, q # r
               PROVE /\ auStep'[q] # "idle" /\ auStep'[r] # "idle" /\ auFor'[q] = auFor'[r] =>
                           auVia'[q] = "refresh" /\ auVia'[r] = "refresh"
                     /\ ~(Saving(q)' /\ Saving(r)')
                     /\ auStep'[q] \in {"load", "truncate", "write"} => ~Pending(r, auFor[q])'
    BY DEF NoRivals, At
  <2>1. auStep'[q] # "idle" /\ auStep'[r] # "idle" /\ auFor'[q] = auFor'[r] =>
            auVia'[q] = "refresh" /\ auVia'[r] = "refresh"
    BY DEF AuthKept, NoRivals, At
  <2>2. ASSUME auStep'[q] \in {"load", "truncate", "write"}, Pending(r, auFor[q])' PROVE FALSE
    <3>1. auFor'[q] = auFor[q] /\ auFor[q] \in Providers BY <1>1, <2>2
    <3>2. Pending(q, auFor[q])' BY <2>2, <3>1 DEF Pending
    <3>3. Pending(r, auFor[q]) /\ Pending(q, auFor[q])
      <4>1. auFor'[r] = auFor[q] /\ auStep'[r] \in {"load", "truncate", "write"} BY <2>2, <3>1 DEF Pending
      <4>2. \A pr \in Providers : pr = auFor[q] => Pending(r, pr)' /\ Pending(q, pr)'
        BY <2>2, <3>1, <4>1 DEF Pending
      <4> QED BY <3>1, <4>2
    <3> QED BY <3>3 DEF AuthKept, NoRivals, Pending
  <2> QED BY <2>1, <2>2
<1>3. SpentOrNewest'
  <2> SUFFICES ASSUME NEW q \in Users, auStep'[q] = "refresh"
               PROVE \/ auNew'[q] \notin auLive'[auFor'[q]]
                     \/ auNew'[q] = auMeant'[auFor'[q]] /\ \A r \in Users : ~Pending(r, auFor[q])'
    BY DEF SpentOrNewest, At
  <2>1. auStep[q] = "refresh" /\ auFor'[q] = auFor[q] /\ auNew'[q] = auNew[q] OBVIOUS
  <2>2. \A r \in Users : Pending(r, auFor[q])' => Pending(r, auFor[q])
    <3> SUFFICES ASSUME NEW r \in Users, Pending(r, auFor[q])' PROVE Pending(r, auFor[q]) OBVIOUS
    <3>1. \A pr \in Providers : pr = auFor[q] => Pending(r, pr)' BY <2>1 DEF Pending
    <3> QED BY <1>1, <3>1
  <2> QED BY <2>1, <2>2 DEF AuthKept, SpentOrNewest, At
<1>4. MeantWorks'
  <2>1. ASSUME NEW q \in Users, auStep'[q] \in {"load", "truncate", "write"}
        PROVE  auNew'[q] = auMeant'[auFor'[q]]
    <3>1. auFor'[q] = auFor[q] /\ auNew'[q] = auNew[q] BY <2>1
    <3>2. Pending(q, auFor[q])
      <4>1. \A pr \in Providers : pr = auFor[q] => Pending(q, pr)' BY <2>1, <3>1 DEF Pending
      <4> QED BY <1>1, <4>1
    <3> QED BY <3>1, <3>2 DEF AuthKept, MeantWorks, Pending
  <2> QED BY <2>1 DEF AuthKept, MeantWorks
<1> QED BY <1>2, <1>3, <1>4 DEF AuthKept

\* A call that was not saving ends, or fails.
LEMMA OverKeeps ==
    ASSUME AuthTypeOK, AuthKept, NEW p \in Users, CallOver(p), UNCHANGED <<auFile, auLive, auMeant>>,
           auStep[p] \notin {"load", "truncate", "write"}
    PROVE  AuthKept'
<1>1. /\ auStep'[p] = "idle"
      /\ \A q \in Users \ {p} : /\ auStep'[q] = auStep[q] /\ auFor'[q] = auFor[q] /\ auNew'[q] = auNew[q]
                                /\ auVia'[q] = auVia[q] /\ auHeld'[q] = auHeld[q]
  BY DEF CallOver, Goto, AuthTypeOK
<1>2. \A q \in Users : auStep'[q] # "idle" => /\ auStep[q] # "idle" /\ auFor'[q] = auFor[q]
                                              /\ auNew'[q] = auNew[q]
                                              /\ auVia'[q] = "refresh" <=> auVia[q] = "refresh"
  BY <1>1
<1>3. \A q \in Users : auStep'[q] = "refresh" => auStep[q] = "refresh" BY <1>1
<1>4. \A q \in Users, pr \in Providers : Pending(q, pr)' <=> Pending(q, pr) BY <1>1 DEF Pending
<1>5. \A q \in Users : /\ Saving(q)' <=> Saving(q)
                       /\ At(q, "write")' <=> At(q, "write")
                       /\ Saving(q) => q # p
  BY <1>1 DEF Saving, At
<1>6. \A q, r \in Users : q # r => ~(Saving(q)' /\ Saving(r)') BY <1>5 DEF AuthKept, NoRivals
<1>7. ASSUME NEW e, NEW x \in Providers, Stands(e, x) PROVE StandsThen(e, x)
  <2>1. \A q \in Users : Pending(q, x) => auVia'[q] = auVia[q] BY <1>1 DEF Pending
  <2> QED BY <1>4, <1>7, <2>1 DEF Stands, StandsThen
<1>8. FileStands'
  <2>1. CASE auFile = Torn BY <1>5, <2>1 DEF AuthKept, FileStands
  <2>2. CASE auFile # Torn
    <3>1. \A x \in Providers : StandsThen(auFile[x], x) BY <1>7, <2>2 DEF AuthKept, FileStands
    <3> QED BY <2>2, <3>1 DEF FileStands, StandsThen, Stands
  <2> QED BY <2>1, <2>2
<1>9. HeldStands'
  <2> SUFFICES ASSUME NEW q \in Users, Saving(q)'
               PROVE /\ auHeld'[q][auFor'[q]] = auNew'[q]
                     /\ \A x \in Providers \ {auFor'[q]} : StandsThen(auHeld'[q][x], x)
    BY DEF HeldStands, Stands, StandsThen
  <2>1. Saving(q) /\ q # p BY <1>5
  <2> QED BY <1>1, <1>7, <2>1 DEF AuthKept, HeldStands
<1> QED BY <1>2, <1>3, <1>4, <1>6, <1>8, <1>9, AuthQuietKeeps

\* A login moves on, a token gets old, nothing happens.
LEMMA LoginKeeps ==
    ASSUME AuthTypeOK, AuthKept, UNCHANGED <<auFile, auLive, auMeant, auFor, auNew, auHeld>>,
           \A q \in Users : \/ auStep'[q] = auStep[q] /\ auVia'[q] = auVia[q]
                            \/ /\ {auStep[q], auStep'[q]} \subseteq {"callback", "paste", "exchange"}
                               /\ auVia[q] # "refresh" /\ auVia'[q] # "refresh"
    PROVE  AuthKept'
<1>1. \A q \in Users : auStep'[q] # "idle" => /\ auStep[q] # "idle" /\ auFor'[q] = auFor[q]
                                              /\ auNew'[q] = auNew[q]
                                              /\ auVia'[q] = "refresh" <=> auVia[q] = "refresh"
  OBVIOUS
<1>2. \A q \in Users : auStep'[q] = "refresh" => auStep[q] = "refresh" OBVIOUS
<1>3. \A q \in Users, pr \in Providers : Pending(q, pr)' <=> Pending(q, pr) BY DEF Pending
<1>4. \A q \in Users : /\ Saving(q)' <=> Saving(q)
                       /\ At(q, "write")' <=> At(q, "write")
  BY DEF Saving, At
<1>5. \A q, r \in Users : q # r => ~(Saving(q)' /\ Saving(r)') BY <1>4 DEF AuthKept, NoRivals
<1>6. ASSUME NEW e, NEW x \in Providers, Stands(e, x) PROVE StandsThen(e, x)
  BY <1>3, <1>6 DEF Stands, StandsThen
<1>7. FileStands'
  <2>1. CASE auFile = Torn BY <1>4, <2>1 DEF AuthKept, FileStands
  <2>2. CASE auFile # Torn
    <3>1. \A x \in Providers : StandsThen(auFile[x], x) BY <1>6, <2>2 DEF AuthKept, FileStands
    <3> QED BY <2>2, <3>1 DEF FileStands, StandsThen, Stands
  <2> QED BY <2>1, <2>2
<1>8. HeldStands'
  <2> SUFFICES ASSUME NEW q \in Users, Saving(q)'
               PROVE /\ auHeld'[q][auFor'[q]] = auNew'[q]
                     /\ \A x \in Providers \ {auFor'[q]} : StandsThen(auHeld'[q][x], x)
    BY DEF HeldStands, Stands, StandsThen
  <2> QED BY <1>4, <1>6 DEF AuthKept, HeldStands
<1> QED BY <1>1, <1>2, <1>3, <1>5, <1>7, <1>8, AuthQuietKeeps

\* The file is loaded while nobody else saves: it is not torn, and stands.
LEMMA LoadKeeps ==
    ASSUME AuthTypeOK, AuthKept, NEW p \in Users, LoadStore(p), ~auDisturbed' PROVE AuthKept'
<1>1. /\ auStep[p] = "load" /\ auStep'[p] = "truncate"
      /\ \A q \in Users \ {p} : auStep'[q] = auStep[q] /\ auHeld'[q] = auHeld[q]
      /\ auHeld'[p] = [Store EXCEPT ![auFor[p]] = auNew[p]]
      /\ UNCHANGED <<auFile, auLive, auMeant, auFor, auNew, auVia>>
  BY DEF LoadStore, Step, At, Goto, auWorld, AuthTypeOK
<1>2. \A q \in Users \ {p} : ~Saving(q) BY DEF LoadStore, Saving
<1>3. auFile # Torn /\ Store = auFile
  <2>1. ~Saving(p) BY <1>1 DEF Saving
  <2>2. \A q \in Users : ~At(q, "write") BY <1>2, <2>1 DEF Saving, At
  <2> QED BY <2>2 DEF AuthKept, FileStands, Store
<1>4. auFile \in [Providers -> 0..MaxIssued] /\ auFor[p] \in Providers BY <1>3 DEF AuthTypeOK
<1>5. \A q \in Users, pr \in Providers : Pending(q, pr)' <=> Pending(q, pr) BY <1>1 DEF Pending
<1>6. \A q \in Users : Saving(q)' => q = p BY <1>1, <1>2 DEF Saving
<1>7. ASSUME NEW e, NEW x \in Providers, Stands(e, x) PROVE StandsThen(e, x)
  BY <1>1, <1>5, <1>7 DEF Stands, StandsThen
<1>8. \A x \in Providers : StandsThen(auFile[x], x) BY <1>3, <1>7 DEF AuthKept, FileStands
<1>9. FileStands' BY <1>1, <1>3, <1>8 DEF FileStands, Stands, StandsThen
<1>10. HeldStands'
  <2> SUFFICES ASSUME NEW q \in Users, Saving(q)'
               PROVE /\ auHeld'[q][auFor'[q]] = auNew'[q]
                     /\ \A x \in Providers \ {auFor'[q]} : StandsThen(auHeld'[q][x], x)
    BY DEF HeldStands, Stands, StandsThen
  <2>1. q = p BY <1>6
  <2>2. auHeld'[p][auFor[p]] = auNew[p] /\ \A x \in Providers \ {auFor[p]} : auHeld'[p][x] = auFile[x]
    BY <1>1, <1>3, <1>4
  <2> QED BY <1>1, <1>8, <2>1, <2>2
<1>11. \A q \in Users : auStep'[q] # "idle" => /\ auStep[q] # "idle" /\ auFor'[q] = auFor[q]
                                               /\ auNew'[q] = auNew[q]
                                               /\ auVia'[q] = "refresh" <=> auVia[q] = "refresh"
  BY <1>1
<1>12. \A q \in Users : auStep'[q] = "refresh" => auStep[q] = "refresh" BY <1>1
<1>13. \A q, r \in Users : q # r => ~(Saving(q)' /\ Saving(r)') BY <1>6
<1>14. UNCHANGED <<auLive, auMeant>> BY <1>1
<1> QED BY <1>5, <1>9, <1>10, <1>11, <1>12, <1>13, <1>14, AuthQuietKeeps

\* The file is torn, by one who is about to write it.
LEMMA TruncateKeeps ==
    ASSUME AuthTypeOK, AuthKept, NEW p \in Users, Truncate(p) PROVE AuthKept'
<1>1. /\ auStep[p] = "truncate" /\ auStep'[p] = "write" /\ auFile' = Torn
      /\ \A q \in Users \ {p} : auStep'[q] = auStep[q]
      /\ UNCHANGED <<auLive, auMeant, auFor, auNew, auVia, auHeld>>
  BY DEF Truncate, Step, At, Goto, auWorld, auPast, AuthTypeOK
<1>2. \A q \in Users, pr \in Providers : Pending(q, pr)' <=> Pending(q, pr) BY <1>1 DEF Pending
<1>3. \A q \in Users : Saving(q)' <=> Saving(q) BY <1>1 DEF Saving
<1>4. ASSUME NEW e, NEW x \in Providers, Stands(e, x) PROVE StandsThen(e, x)
  BY <1>1, <1>2, <1>4 DEF Stands, StandsThen
<1>5. FileStands' BY <1>1 DEF FileStands, At
<1>6. HeldStands'
  <2> SUFFICES ASSUME NEW q \in Users, Saving(q)'
               PROVE /\ auHeld'[q][auFor'[q]] = auNew'[q]
                     /\ \A x \in Providers \ {auFor'[q]} : StandsThen(auHeld'[q][x], x)
    BY DEF HeldStands, Stands, StandsThen
  <2> QED BY <1>1, <1>3, <1>4 DEF AuthKept, HeldStands
<1>7. \A q \in Users : auStep'[q] # "idle" => /\ auStep[q] # "idle" /\ auFor'[q] = auFor[q]
                                              /\ auNew'[q] = auNew[q]
                                              /\ auVia'[q] = "refresh" <=> auVia[q] = "refresh"
  BY <1>1
<1>8. \A q \in Users : auStep'[q] = "refresh" => auStep[q] = "refresh" BY <1>1
<1>9. \A q, r \in Users : q # r => ~(Saving(q)' /\ Saving(r)') BY <1>3 DEF AuthKept, NoRivals
<1>10. UNCHANGED <<auLive, auMeant>> BY <1>1
<1> QED BY <1>2, <1>5, <1>6, <1>7, <1>8, <1>9, <1>10, AuthQuietKeeps

\* The save is done: the file is what was held, and p waits no more.
LEMMA WriteKeeps ==
    ASSUME AuthTypeOK, AuthKept, NEW p \in Users, WriteStore(p) PROVE AuthKept'
<1>1. /\ auStep[p] = "write" /\ auStep'[p] = "idle" /\ auFile' = auHeld[p]
      /\ \A q \in Users \ {p} : /\ auStep'[q] = auStep[q] /\ auFor'[q] = auFor[q] /\ auNew'[q] = auNew[q]
                                /\ auVia'[q] = auVia[q] /\ auHeld'[q] = auHeld[q]
      /\ UNCHANGED <<auLive, auMeant>>
  BY DEF WriteStore, CallOver, At, Goto, auWorld, auPast, AuthTypeOK
<1>2. auFile' # Torn /\ auFor[p] \in Providers BY <1>1, CredentialsAssumption DEF AuthTypeOK
<1>3. Saving(p) /\ Pending(p, auFor[p]) BY <1>1 DEF Saving, Pending
<1>4. \A q \in Users \ {p} : ~Saving(q) /\ ~Pending(q, auFor[p])
  BY <1>3 DEF AuthKept, NoRivals, Pending
<1>5. \A q \in Users, x \in Providers : Pending(q, x)' <=> q # p /\ Pending(q, x) BY <1>1 DEF Pending
<1>6. \A q \in Users : ~Saving(q)' BY <1>1, <1>4 DEF Saving
<1>7. ASSUME NEW x \in Providers PROVE StandsThen(auHeld[p][x], x)
  <2>1. CASE x = auFor[p]
    <3>1. \A q \in Users : ~Pending(q, x)' BY <1>4, <1>5, <2>1
    <3>2. auHeld[p][x] = auMeant[x] BY <1>3, <2>1 DEF AuthKept, HeldStands, MeantWorks, Pending
    <3> QED BY <1>1, <3>1, <3>2 DEF StandsThen
  <2>2. CASE x # auFor[p]
    <3>1. \A q \in Users : Pending(q, x)' <=> Pending(q, x) BY <1>5, <2>2 DEF Pending
    <3>2. Stands(auHeld[p][x], x) BY <1>3, <2>2 DEF AuthKept, HeldStands
    <3>3. \A q \in Users : Pending(q, x) => auVia'[q] = auVia[q] BY <1>1, <2>2 DEF Pending
    <3> QED BY <1>1, <3>1, <3>2, <3>3 DEF Stands, StandsThen
  <2> QED BY <2>1, <2>2
<1>8. FileStands' BY <1>1, <1>2, <1>7 DEF FileStands, Stands, StandsThen
<1>9. HeldStands' BY <1>6 DEF HeldStands
<1>10. NoRivals'
  <2> SUFFICES ASSUME NEW q \in Users, NEW r \in Users, q # r
               PROVE /\ auStep'[q] # "idle" /\ auStep'[r] # "idle" /\ auFor'[q] = auFor'[r] =>
                           auVia'[q] = "refresh" /\ auVia'[r] = "refresh"
                     /\ ~(Saving(q)' /\ Saving(r)')
                     /\ auStep'[q] \in {"load", "truncate", "write"} => ~Pending(r, auFor[q])'
    BY DEF NoRivals, At
  <2>1. CASE q = p \/ r = p
    <3>1. auStep'[q] = "idle" \/ auStep'[r] = "idle" BY <1>1, <2>1
    <3>2. ~Saving(q)' BY <1>6
    <3> QED BY <3>1, <3>2 DEF Pending
  <2>2. CASE q # p /\ r # p
    <3>1. /\ auStep'[q] = auStep[q] /\ auStep'[r] = auStep[r] /\ auFor'[q] = auFor[q] /\ auFor'[r] = auFor[r]
          /\ auVia'[q] = auVia[q] /\ auVia'[r] = auVia[r]
      BY <1>1, <2>2
    <3>2. ~Saving(q)' BY <1>6
    <3> QED BY <3>1, <3>2 DEF AuthKept, NoRivals, Pending, At
  <2> QED BY <2>1, <2>2
<1>11. SpentOrNewest'
  <2> SUFFICES ASSUME NEW q \in Users, auStep'[q] = "refresh"
               PROVE \/ auNew'[q] \notin auLive'[auFor'[q]]
                     \/ auNew'[q] = auMeant'[auFor'[q]] /\ \A r \in Users : ~Pending(r, auFor[q])'
    BY DEF SpentOrNewest, At
  <2>1. auStep[q] = "refresh" /\ auFor'[q] = auFor[q] /\ auNew'[q] = auNew[q] BY <1>1
  <2>2. \A r \in Users : Pending(r, auFor[q])' => Pending(r, auFor[q])
    BY <1>1, <2>1 DEF Pending
  <2> QED BY <1>1, <2>1, <2>2 DEF AuthKept, SpentOrNewest, At
<1>12. MeantWorks' BY <1>1 DEF AuthKept, MeantWorks
<1> QED BY <1>8, <1>9, <1>10, <1>11, <1>12 DEF AuthKept

\* While nothing disturbs, everything else of the invariant is kept.
LEMMA AuthKeptStep == AuthInv /\ [AuthNext]_auVars /\ ~auDisturbed' => AuthKept'
<1> SUFFICES ASSUME AuthInv, [AuthNext]_auVars, ~auDisturbed' PROVE AuthKept' OBVIOUS
<1>0. AuthTypeOK /\ OwnWay BY DEF AuthInv
<1>1. AuthKept
  <2>1. ~auDisturbed
    BY Zenon DEF AuthNext, Refresh, RefreshFails, Import, CallbackTimesOut, Granted, LoginFails, CliRefreshes,
          SetKey, Crash, LoadStore, Truncate, WriteStore, Access, StartLogin, Clear, Callback, Paste,
          TokenExpires, BeginFor, auVars, auPast
  <2> QED BY <2>1 DEF AuthInv
<1>4. ASSUME NEW p \in Users, Refresh(p) PROVE AuthKept'
  BY <1>0, <1>1, <1>4, IssueKeeps DEF Refresh, Step
<1>5. ASSUME NEW p \in Users, RefreshFails(p) PROVE AuthKept'
  <2>1. auStep[p] \notin {"load", "truncate", "write"} BY <1>5 DEF RefreshFails, At
  <2> QED BY <1>0, <1>1, <1>5, <2>1, OverKeeps DEF RefreshFails
<1>6. ASSUME NEW p \in Users, Import(p) PROVE AuthKept'
  <2>1. "grok" \in Providers BY DEF Providers, OAuth
  <2> QED BY <1>0, <1>1, <1>6, <2>1, BeginKeeps DEF Import
<1>7. ASSUME NEW p \in Users, CallbackTimesOut(p) PROVE AuthKept'
  <2>1. auVia[p] # "refresh" BY <1>0, <1>7 DEF CallbackTimesOut, Step, At, OwnWay
  <2>2. \A q \in Users : \/ auStep'[q] = auStep[q] /\ auVia'[q] = auVia[q]
                         \/ /\ {auStep[q], auStep'[q]} \subseteq {"callback", "paste", "exchange"}
                            /\ auVia[q] # "refresh" /\ auVia'[q] # "refresh"
    BY <1>0, <1>7, <2>1 DEF CallbackTimesOut, Step, At, Goto, AuthTypeOK
  <2> QED BY <1>0, <1>1, <1>7, <2>2, LoginKeeps DEF CallbackTimesOut, auWorld, auPast
<1>8. ASSUME NEW p \in Users, Granted(p) PROVE AuthKept'
  <2>1. auStep[p] \in {"exchange", "poll", "import"} /\ Goto(p, "load") BY <1>8 DEF Granted, Step, At
  <2> QED BY <1>0, <1>1, <1>8, <2>1, IssueKeeps DEF Granted
<1>9. ASSUME NEW p \in Users, LoginFails(p) PROVE AuthKept'
  <2>1. auStep[p] \notin {"load", "truncate", "write"} BY <1>9 DEF LoginFails
  <2> QED BY <1>0, <1>1, <1>9, <2>1, OverKeeps DEF LoginFails, auWorld, auPast
<1>10. ASSUME NEW p \in Users, CliRefreshes(p) PROVE AuthKept'
  BY <1>10 DEF CliRefreshes
<1>11. ASSUME NEW p \in Users, SetKey(p) PROVE AuthKept'
  <2>1. "openai" \in Providers /\ "openai" \notin OAuth BY DEF Providers, OAuth
  <2>2. BeginFor(p, "openai", "load", 1, "set") /\ UNCHANGED <<auFile, auWorld>> BY <1>11 DEF SetKey
  <2>3. auMeant'["openai"] = 1 /\ \A x \in Providers \ {"openai"} : auMeant'[x] = auMeant[x]
    BY <1>0, <1>11, <2>1 DEF SetKey, AuthTypeOK
  <2> QED BY <1>0, <1>1, <2>1, <2>2, <2>3, BeginKeeps
<1>12. ASSUME NEW p \in Users, Crash(p) PROVE AuthKept'
  BY <1>12 DEF Crash
<1>13. ASSUME NEW p \in Users, LoadStore(p) PROVE AuthKept' BY <1>0, <1>1, <1>13, LoadKeeps
<1>14. ASSUME NEW p \in Users, Truncate(p) PROVE AuthKept' BY <1>0, <1>1, <1>14, TruncateKeeps
<1>15. ASSUME NEW p \in Users, WriteStore(p) PROVE AuthKept' BY <1>0, <1>1, <1>15, WriteKeeps
<1>16. ASSUME NEW p \in Users, NEW pr \in OAuth, Access(p, pr) PROVE AuthKept'
  <2>1. pr \in Providers BY DEF Providers
  <2>2. Store[pr] \in 1..auIssued[pr] BY <1>0, <1>16, <2>1 DEF Access, AuthTypeOK
  <2>3. Store[pr] # 0 BY <1>0, <2>1, <2>2 DEF AuthTypeOK
  <2> QED BY <1>0, <1>1, <1>16, <2>1, <2>3, BeginKeeps DEF Access
<1>17. ASSUME NEW p \in Users, NEW pr \in OAuth, StartLogin(p, pr) PROVE AuthKept'
  <2>1. pr \in Providers BY DEF Providers
  <2> QED BY <1>0, <1>1, <1>17, <2>1, BeginKeeps DEF StartLogin
<1>18. ASSUME NEW p \in Users, NEW pr \in Providers, Clear(p, pr) PROVE AuthKept'
  <2>1. BeginFor(p, pr, "load", 0, "clear") /\ UNCHANGED <<auFile, auWorld>> BY <1>18 DEF Clear
  <2>2. auMeant'[pr] = 0 /\ \A x \in Providers \ {pr} : auMeant'[x] = auMeant[x]
    BY <1>0, <1>18 DEF Clear, AuthTypeOK
  <2> QED BY <1>0, <1>1, <2>1, <2>2, BeginKeeps
<1>19. ASSUME NEW p \in Users, NEW what \in Callbacks, Callback(p, what) PROVE AuthKept'
  <2>1. auVia[p] # "refresh" BY <1>0, <1>19 DEF Callback, At, OwnWay
  <2>2. /\ auStep[p] = "callback" /\ auStep'[p] \in {"callback", "paste", "exchange"} /\ auVia'[p] # "refresh"
        /\ \A q \in Users \ {p} : auStep'[q] = auStep[q] /\ auVia'[q] = auVia[q]
    BY <1>0, <1>19, <2>1 DEF Callback, At, Goto, AuthTypeOK
  <2>3. \A q \in Users : \/ auStep'[q] = auStep[q] /\ auVia'[q] = auVia[q]
                         \/ /\ {auStep[q], auStep'[q]} \subseteq {"callback", "paste", "exchange"}
                            /\ auVia[q] # "refresh" /\ auVia'[q] # "refresh"
    BY <2>1, <2>2
  <2> QED BY <1>0, <1>1, <1>19, <2>3, LoginKeeps DEF Callback, auWorld, auPast
<1>20. ASSUME NEW p \in Users, NEW what \in {"ours", "typed"}, Paste(p, what) PROVE AuthKept'
  <2>1. auVia[p] # "refresh" BY <1>0, <1>20 DEF Paste, Step, At, OwnWay
  <2>2. \A q \in Users : \/ auStep'[q] = auStep[q] /\ auVia'[q] = auVia[q]
                         \/ /\ {auStep[q], auStep'[q]} \subseteq {"callback", "paste", "exchange"}
                            /\ auVia[q] # "refresh" /\ auVia'[q] # "refresh"
    BY <1>0, <1>20, <2>1 DEF Paste, Step, At, Goto, AuthTypeOK
  <2> QED BY <1>0, <1>1, <1>20, <2>2, LoginKeeps DEF Paste, auWorld, auPast
<1>21. ASSUME NEW pr \in OAuth, NEW n \in 1..MaxIssued, TokenExpires(pr, n) PROVE AuthKept'
  BY <1>0, <1>1, <1>21, LoginKeeps DEF TokenExpires, auOwn, auPast
<1>22. CASE UNCHANGED auVars BY <1>0, <1>1, <1>22, LoginKeeps DEF auVars
<1> QED BY <1>4, <1>5, <1>6, <1>7, <1>8, <1>9, <1>10, <1>11, <1>12, <1>13, <1>14, <1>15, <1>16,
           <1>17, <1>18, <1>19, <1>20, <1>21, <1>22 DEF AuthNext

\* The invariant is enough.
LEMMA AuthInvSound == AuthInv => AuthSound
<1> SUFFICES ASSUME AuthInv, ~auDisturbed
             PROVE /\ (\A p \in Users : At(p, "idle")) => auFile = auMeant
                   /\ \A pr \in OAuth : Store[pr] # 0 /\ (\A p \in Users : auFor[p] = pr => At(p, "idle"))
                         => Store[pr] \in auLive[pr]
  BY DEF AuthInv, AuthSound, NothingLost
<1>1. AuthTypeOK /\ AuthKept BY DEF AuthInv
<1>2. ASSUME \A p \in Users : At(p, "idle") PROVE auFile = auMeant
  <2>1. auFile # Torn BY <1>1, <1>2 DEF AuthKept, FileStands, At
  <2>2. \A pr \in Providers : auFile[pr] = auMeant[pr]
    BY <1>1, <1>2, <2>1 DEF AuthKept, FileStands, Stands, Pending, At
  <2> QED BY <1>1, <2>1, <2>2 DEF AuthTypeOK
<1>3. ASSUME NEW pr \in OAuth, Store[pr] # 0, \A p \in Users : auFor[p] = pr => At(p, "idle")
      PROVE  Store[pr] \in auLive[pr]
  <2>1. pr \in Providers BY DEF Providers
  <2>2. auFile # Torn /\ Store[pr] = auFile[pr] BY <1>3, <2>1 DEF Store, NoEntries
  <2>3. auFile[pr] = auMeant[pr]
    BY <1>1, <1>3, <2>1, <2>2 DEF AuthKept, FileStands, Stands, Pending, At
  <2> QED BY <1>1, <1>3, <2>2, <2>3 DEF AuthKept, MeantWorks
<1> QED BY <1>2, <1>3

\* Whatever overlaps, the file of the credentials comes to hold the newest of every
\* provider, which the provider still takes, and a code is exchanged only if it is
\* this login's or the user typed it (auth.rs, xai_oauth.rs, codex_oauth.rs), for any
\* number of processes.
THEOREM AuthAlwaysSound == AuthSpec => []AuthSound
<1>1. AuthInv /\ [AuthNext]_auVars => AuthInv'
  <2> SUFFICES ASSUME AuthInv, [AuthNext]_auVars PROVE AuthInv' OBVIOUS
  <2>1. AuthTypeOK' BY AuthTypeStep DEF AuthInv
  <2>2. CodeIsOurs' /\ OwnWay' BY AuthWaysStep DEF AuthInv
  <2>3. ~auDisturbed' => AuthKept' BY AuthKeptStep
  <2> QED BY <2>1, <2>2, <2>3 DEF AuthInv
<1> QED BY AuthInitially, AuthInvSound, <1>1, PTL DEF AuthSpec

-----------------------------------------------------------------------------
(* Packages *)

Entries    == [kind : PkKinds, version : Nat, pinned : BOOLEAN]
DirsOfDisk == [PkDirs -> Nat]
PkSteps    == {"idle", "update", "stale", "backup", "place", "save", "clean", "restore", "undo",
               "failed"} \cup Removing

PkTypeOK ==
    /\ pkReg \in [PkIds -> Entries]
    /\ pkDir \in DirsOfDisk /\ pkOld \in DirsOfDisk /\ pkGone \in DirsOfDisk
    /\ pkAt \in PkSteps /\ pkJob \in [id : PkIds, entry : Entries] /\ pkTodo \in SUBSET PkIds
    /\ pkFetched \in Nat /\ pkFaults \in Nat /\ pkCrashed \in SUBSET PkIds
    /\ pkBefore \in [reg : [PkIds -> Entries], dir : DirsOfDisk]

\* What is registered is in its directory.
Matches(reg, dir, i) == reg[i].version # 0 => dir[<<i, reg[i].kind>>] = reg[i].version

Between == pkAt \in {"idle", "update"}

\* How far a command has come from what it found.
HeldSoFar ==
    /\ \A i \in PkIds \ pkCrashed :
         IF Between THEN Matches(pkReg, pkDir, i) ELSE Matches(pkBefore.reg, pkBefore.dir, i)
    /\ pkAt \in {"stale", "backup", "failed", "stale removal", "stage"} =>
         pkReg = pkBefore.reg /\ pkDir = pkBefore.dir
    /\ pkAt \in {"place", "restore"} =>
         /\ pkReg = pkBefore.reg /\ pkDir = [pkBefore.dir EXCEPT ![Here] = 0]
         /\ pkOld[Here] = pkBefore.dir[Here]
    /\ pkAt \in {"save", "undo"} =>
         /\ pkReg = pkBefore.reg /\ pkDir = [pkBefore.dir EXCEPT ![Here] = pkJob.entry.version]
         /\ pkOld[Here] = pkBefore.dir[Here]
    /\ pkAt = "clean" =>
         /\ pkReg = [pkBefore.reg EXCEPT ![pkJob.id] = pkJob.entry]
         /\ pkDir = [pkBefore.dir EXCEPT ![Here] = pkJob.entry.version]
    /\ pkAt \in {"save removal", "unstage"} =>
         /\ pkReg = pkBefore.reg /\ pkDir = [pkBefore.dir EXCEPT ![Here] = 0]
         /\ pkGone[Here] = pkBefore.dir[Here]
    /\ pkAt = "delete" =>
         /\ pkReg = [pkBefore.reg EXCEPT ![pkJob.id] = NotInstalled]
         /\ pkDir = [pkBefore.dir EXCEPT ![Here] = 0]
    /\ pkAt \in {"stale", "backup", "place", "save", "clean"} => pkJob.entry.version # 0

\* A package that is registered has a copy somewhere.
CopyOf(i) ==
    LET d == <<i, pkReg[i].kind>> IN pkReg[i].version # 0 => pkDir[d] + pkOld[d] + pkGone[d] # 0
Replaced(i) ==
    \/ pkAt \in Removing /\ pkJob.id = i
    \/ pkAt \in {"backup", "place"} /\ Here = <<i, pkReg[i].kind>>

\* While a crash is all that went wrong, nothing is undone, and what it left has a copy
\* unless it is being removed or replaced by what was fetched.
CrashInv ==
    /\ pkFaults = 0 => pkCrashed = {}
    /\ pkFaults <= 1 /\ pkCrashed # {} =>
         /\ pkAt \notin {"restore", "undo", "failed", "unstage"}
         /\ \A i \in pkCrashed : Replaced(i) \/ CopyOf(i)

PkInv == PkTypeOK /\ HeldSoFar /\ RolledBack /\ CrashInv

LEMMA PkInvInitially == PkInit => PkInv
<1> SUFFICES ASSUME PkInit PROVE PkInv
  OBVIOUS
<1>1. FALSE \in BOOLEAN
  BY Zenon
<1>2. NotInstalled \in Entries /\ 1 \in PkIds
  BY <1>1, PackagesAssumption DEF NotInstalled, Entries, PkKinds, PkIds
<1>3. NoDirs \in DirsOfDisk
  BY DEF NoDirs, DirsOfDisk
<1>4. pkReg \in [PkIds -> Entries] /\ \A i \in PkIds : pkReg[i].version = 0
  BY <1>2 DEF PkInit, NotInstalled
<1>5. PkTypeOK
  BY <1>2, <1>3, <1>4 DEF PkInit, PkTypeOK, NoJob, PkSteps
<1>6. HeldSoFar
  BY <1>4 DEF PkInit, HeldSoFar, Between, Matches
<1> QED
  BY <1>5, <1>6 DEF PkInit, PkInv, RolledBack, CrashInv

LEMMA PkDirOf ==
  ASSUME PkTypeOK, NEW i \in PkIds
  PROVE  /\ <<i, pkReg[i].kind>> \in PkDirs /\ pkReg[i].version \in Nat /\ Here \in PkDirs
         /\ Here[1] = pkJob.id
  BY DEF PkTypeOK, PkDirs, Entries, Here

LEMMA HereIsDir == ASSUME PkTypeOK PROVE Here \in PkDirs /\ pkJob.entry \in Entries /\ pkJob.entry.version \in Nat
  BY DEF PkTypeOK, PkDirs, Entries, Here

\* What no crash has left behind has a copy at every step of a command.
LEMMA KeptCopy ==
  ASSUME PkTypeOK, HeldSoFar, NEW i \in PkIds \ pkCrashed
  PROVE  CopyOf(i)
<1> DEFINE d == <<i, pkReg[i].kind>>
<1>1. d \in PkDirs /\ pkReg[i].version \in Nat /\ Here \in PkDirs
  BY PkDirOf
<1>2. pkDir[d] \in Nat /\ pkOld[d] \in Nat /\ pkGone[d] \in Nat
  BY <1>1 DEF PkTypeOK, DirsOfDisk
<1> SUFFICES ASSUME pkReg[i].version # 0 PROVE pkDir[d] # 0 \/ pkOld[d] # 0 \/ pkGone[d] # 0
  BY <1>2 DEF CopyOf
<1>3. CASE Between
  BY <1>3 DEF HeldSoFar, Matches
<1>4. CASE ~Between
  <2>1. Matches(pkBefore.reg, pkBefore.dir, i) /\ pkBefore.dir \in [PkDirs -> Nat]
        /\ pkBefore.reg \in [PkIds -> Entries]
    BY <1>4 DEF HeldSoFar, PkTypeOK, DirsOfDisk
  <2>2. pkJob.id \in PkIds /\ Here = <<pkJob.id, pkJob.entry.kind>>
    BY DEF PkTypeOK, Here
  <2>3. CASE pkAt \notin {"clean", "delete"}
    <3>1. pkReg = pkBefore.reg
      BY <1>4, <2>3 DEF HeldSoFar, PkTypeOK, PkSteps, Removing, Between
    <3>2. pkBefore.dir[d] # 0
      <4>1. pkBefore.dir[d] = pkReg[i].version
        BY <2>1, <3>1 DEF Matches
      <4> QED
        BY <4>1
    <3>3. CASE pkAt \in {"stale", "backup", "failed", "stale removal", "stage"}
      <4>1. pkDir = pkBefore.dir
        BY <3>3 DEF HeldSoFar
      <4> QED
        BY <3>2, <4>1
    <3>4. CASE pkAt \notin {"stale", "backup", "failed", "stale removal", "stage"} /\ d = Here
      <4>1. pkOld[Here] = pkBefore.dir[Here] \/ pkGone[Here] = pkBefore.dir[Here]
        BY <1>4, <2>3, <3>4 DEF HeldSoFar, PkTypeOK, PkSteps, Removing, Between
      <4>2. pkBefore.dir[Here] # 0
        BY <3>2, <3>4
      <4> QED
        BY <3>4, <4>1, <4>2
    <3>5. CASE pkAt \notin {"stale", "backup", "failed", "stale removal", "stage"} /\ d # Here
      <4>1. \E v : pkDir = [pkBefore.dir EXCEPT ![Here] = v]
        BY <1>4, <2>3, <3>5 DEF HeldSoFar, PkTypeOK, PkSteps, Removing, Between
      <4>2. pkDir[d] = pkBefore.dir[d]
        BY <1>1, <2>1, <3>5, <4>1
      <4> QED
        BY <3>2, <4>2
    <3> QED
      BY <3>3, <3>4, <3>5
  <2>4. CASE pkAt \in {"clean", "delete"} /\ i = pkJob.id
    <3>1. CASE pkAt = "delete"
      <4>1. pkReg = [pkBefore.reg EXCEPT ![pkJob.id] = NotInstalled]
        BY <3>1 DEF HeldSoFar
      <4>2. pkReg[i] = NotInstalled
        BY <2>1, <2>4, <4>1
      <4> QED
        BY <4>2 DEF NotInstalled
    <3>2. CASE pkAt = "clean"
      <4>1. /\ pkReg = [pkBefore.reg EXCEPT ![pkJob.id] = pkJob.entry]
            /\ pkDir = [pkBefore.dir EXCEPT ![Here] = pkJob.entry.version]
            /\ pkJob.entry.version # 0
        BY <3>2 DEF HeldSoFar
      <4>2. pkReg[i] = pkJob.entry
        BY <2>1, <2>4, <4>1
      <4>3. d = Here
        BY <2>2, <2>4, <4>2
      <4>4. pkDir[Here] = pkJob.entry.version
        BY <1>1, <2>1, <4>1
      <4> QED
        BY <4>1, <4>3, <4>4
    <3> QED
      BY <2>4, <3>1, <3>2
  <2>5. CASE pkAt \in {"clean", "delete"} /\ i # pkJob.id
    <3>1. pkReg[i] = pkBefore.reg[i] /\ d # Here
      BY <2>1, <2>2, <2>5 DEF HeldSoFar
    <3>2. pkDir[d] = pkBefore.dir[d]
      BY <1>1, <2>1, <2>5, <3>1 DEF HeldSoFar
    <3> QED
      BY <2>1, <3>1, <3>2 DEF Matches
  <2> QED
    BY <2>3, <2>4, <2>5
<1> QED
  BY <1>3, <1>4

\* A command begins: what it found is written down and nothing has changed.
LEMMA BeginsKeep ==
  ASSUME PkInv, Between, pkAt' \in {"stale", "stale removal"},
         pkBefore' = [reg |-> pkReg, dir |-> pkDir],
         pkJob' \in [id : PkIds, entry : Entries], pkAt' = "stale" => pkJob'.entry.version # 0,
         pkTodo' \in SUBSET PkIds, pkFetched' \in Nat, UNCHANGED <<pkDisk, pkFaults, pkCrashed>>
  PROVE  PkInv'
<1> USE DEF PkInv, pkDisk, Between
<1>1. PkTypeOK'
  BY DEF PkTypeOK, PkSteps, Removing
<1>2. HeldSoFar'
  BY DEF HeldSoFar, Matches
<1>3. RolledBack'
  BY DEF RolledBack
<1>4. CrashInv'
  <2> SUFFICES ASSUME pkFaults <= 1, NEW i \in pkCrashed PROVE CopyOf(i)'
    BY DEF CrashInv
  <2>1. CopyOf(i)
    BY DEF CrashInv, Replaced, Removing
  <2> QED
    BY <2>1 DEF CopyOf
<1> QED
  BY <1>1, <1>2, <1>3, <1>4

LEMMA InstallKeeps ==
  ASSUME PkInv, NEW id \in PkIds, NEW kind \in PkKinds, NEW pinned \in BOOLEAN,
         Install(id, kind, pinned)
  PROVE  PkInv'
<1>1. pkFetched' = pkFetched + 1 /\ pkFetched \in Nat
  BY DEF Install, Fetched, PkInv, PkTypeOK
<1>2. /\ pkJob' = [id |-> id, entry |-> [kind |-> kind, version |-> pkFetched + 1, pinned |-> pinned]]
      /\ pkAt' = "stale" /\ Between /\ pkBefore' = [reg |-> pkReg, dir |-> pkDir]
      /\ UNCHANGED <<pkDisk, pkTodo, pkFaults, pkCrashed>>
  BY DEF Install, Fetched, Between
<1>3. pkJob' \in [id : PkIds, entry : Entries] /\ pkJob'.entry.version # 0
  BY <1>1, <1>2 DEF Entries
<1>4. pkTodo' \in SUBSET PkIds
  BY <1>2 DEF PkInv, PkTypeOK
<1> QED
  BY <1>1, <1>2, <1>3, <1>4, BeginsKeep

LEMMA RemoveKeeps ==
  ASSUME PkInv, NEW id \in PkIds, RemovePackage(id)
  PROVE  PkInv'
<1>1. pkJob' = [id |-> id, entry |-> pkReg[id]] /\ pkReg[id] \in Entries
  BY DEF RemovePackage, PkInv, PkTypeOK
<1>2. pkJob' \in [id : PkIds, entry : Entries]
  BY <1>1
<1> QED
  BY <1>2, BeginsKeep DEF RemovePackage, Between, PkInv, PkTypeOK

\* Steps between commands, and the end of one that was undone.
LEMMA QuietKeeps ==
  ASSUME PkInv, Between \/ pkAt = "failed", pkAt' \in {"idle", "update"},
         pkAt = "failed" \/ pkEnd' # "error" \/ pkAt' # "idle",
         pkJob' \in [id : PkIds, entry : Entries], pkTodo' \in SUBSET PkIds,
         UNCHANGED <<pkDisk, pkFetched, pkFaults, pkPast>>
  PROVE  PkInv'
<1> USE DEF PkInv, pkDisk, pkPast, Between
<1>1. PkTypeOK'
  BY DEF PkTypeOK, PkSteps
<1>2. HeldSoFar'
  BY DEF HeldSoFar, Matches
<1>3. RolledBack'
  BY DEF RolledBack, HeldSoFar
<1>4. CrashInv'
  <2>1. ASSUME pkFaults <= 1, NEW i \in pkCrashed PROVE CopyOf(i)'
    <3>1. CopyOf(i)
      BY <2>1 DEF CrashInv, Replaced, Removing
    <3> QED
      BY <3>1 DEF CopyOf
  <2> QED
    BY <2>1 DEF CrashInv
<1> QED
  BY <1>1, <1>2, <1>3, <1>4

LEMMA UpdateKeeps ==
  ASSUME PkInv, Update \/ UpdateNext \/ FetchFails \/ PkFails
  PROVE  PkInv'
<1>1. NoJob \in [id : PkIds, entry : Entries]
  <2>1. FALSE \in BOOLEAN
    BY Zenon
  <2> QED
    BY <2>1, PackagesAssumption DEF NoJob, NotInstalled, Entries, PkKinds, PkIds
<1>2. pkJob \in [id : PkIds, entry : Entries] /\ pkTodo \in SUBSET PkIds
  BY DEF PkInv, PkTypeOK
<1>3. CASE Update
  BY <1>2, <1>3, QuietKeeps DEF Update, Between
<1>4. CASE FetchFails \/ PkFails
  BY <1>1, <1>4, QuietKeeps DEF FetchFails, PkFails, PkOver, Between
<1>5. CASE UpdateNext /\ pkTodo = {}
  BY <1>1, <1>5, QuietKeeps DEF UpdateNext, PkOver, Between, pkPast
<1>6. CASE UpdateNext /\ pkTodo # {}
  <2>1. PICK id \in pkTodo : pkTodo' = pkTodo \ {id} /\ Fetched(id, pkReg[id].kind, FALSE)
    BY <1>6 DEF UpdateNext
  <2>2. pkFetched' = pkFetched + 1 /\ pkFetched \in Nat /\ FALSE \in BOOLEAN
    BY <2>1 DEF Fetched, PkInv, PkTypeOK
  <2>3. pkReg[id].kind \in PkKinds /\ id \in PkIds
    BY <1>2 DEF PkInv, PkTypeOK, Entries
  <2>4. pkJob' \in [id : PkIds, entry : Entries] /\ pkJob'.entry.version # 0
    BY <2>1, <2>2, <2>3 DEF Fetched, Entries
  <2> QED
    BY <1>2, <1>6, <2>1, <2>2, <2>4, BeginsKeep DEF UpdateNext, Fetched, Between
<1> QED
  BY <1>3, <1>4, <1>5, <1>6


\* What a command does not replace is as it found it.
LEMMA KeptElsewhere ==
  ASSUME PkTypeOK, HeldSoFar, ~Between, NEW i \in PkIds, i # pkJob.id
  PROVE  pkReg[i] = pkBefore.reg[i] /\ pkDir[<<i, pkReg[i].kind>>] = pkBefore.dir[<<i, pkReg[i].kind>>]
<1> DEFINE d == <<i, pkReg[i].kind>>
<1>1. d \in PkDirs /\ Here \in PkDirs /\ d # Here /\ pkJob.id \in PkIds
  BY PkDirOf DEF Here, PkTypeOK
<1>2. pkBefore.reg \in [PkIds -> Entries] /\ pkBefore.dir \in [PkDirs -> Nat]
  BY DEF PkTypeOK, DirsOfDisk
<1>3. pkReg = pkBefore.reg \/ \E e : pkReg = [pkBefore.reg EXCEPT ![pkJob.id] = e]
  BY DEF HeldSoFar, PkTypeOK, PkSteps, Removing, Between
<1>4. pkDir = pkBefore.dir \/ \E v : pkDir = [pkBefore.dir EXCEPT ![Here] = v]
  BY DEF HeldSoFar, PkTypeOK, PkSteps, Removing, Between
<1>5. pkReg[i] = pkBefore.reg[i]
  BY <1>1, <1>2, <1>3
<1>6. pkDir[d] = pkBefore.dir[d]
  BY <1>1, <1>2, <1>4
<1> QED
  BY <1>5, <1>6

\* A step that fails: then there was no crash before it.
LEMMA FaultKeeps ==
  ASSUME PkTypeOK, CrashInv, pkFaults' = pkFaults + 1, pkCrashed' \subseteq pkCrashed
  PROVE  CrashInv'
<1>1. pkFaults' <= 1 => pkFaults = 0
  BY DEF PkTypeOK
<1>2. pkFaults' # 0
  BY DEF PkTypeOK
<1>3. pkFaults' <= 1 => pkCrashed' = {}
  BY <1>1 DEF CrashInv
<1> QED
  BY <1>2, <1>3 DEF CrashInv

\* A step that does not fail, and what a crash left before it.
LEMMA CrashKept ==
  ASSUME CrashInv, pkFaults' = pkFaults, pkCrashed' \subseteq pkCrashed,
         pkAt \notin {"restore", "undo", "failed", "unstage"} =>
           /\ pkAt' \notin {"restore", "undo", "failed", "unstage"}
           /\ \A i \in pkCrashed' : Replaced(i) \/ CopyOf(i) => (Replaced(i) \/ CopyOf(i))'
  PROVE  CrashInv'
<1>1. pkFaults' = 0 => pkCrashed' = {}
  BY DEF CrashInv
<1>2. ASSUME pkFaults' <= 1, pkCrashed' # {}
      PROVE  /\ pkAt' \notin {"restore", "undo", "failed", "unstage"}
             /\ \A i \in pkCrashed' : (Replaced(i) \/ CopyOf(i))'
  <2>1. pkFaults <= 1 /\ pkCrashed # {}
    BY <1>2
  <2>2. /\ pkAt \notin {"restore", "undo", "failed", "unstage"}
        /\ \A i \in pkCrashed : Replaced(i) \/ CopyOf(i)
    BY <2>1 DEF CrashInv
  <2> QED
    BY <2>2
<1> QED
  BY <1>1, <1>2 DEF CrashInv

\* A package in another directory is not touched.
LEMMA CopyStays ==
  ASSUME PkTypeOK, NEW i \in PkIds, <<i, pkReg[i].kind>> # Here, pkReg'[i] = pkReg[i],
         \A d \in PkDirs : d # Here => pkDir'[d] = pkDir[d] /\ pkOld'[d] = pkOld[d] /\ pkGone'[d] = pkGone[d],
         CopyOf(i)
  PROVE  CopyOf(i)'
<1>1. <<i, pkReg[i].kind>> \in PkDirs
  BY PkDirOf
<1> QED
  BY <1>1 DEF CopyOf

\* The steps of replace_directory.
LEMMA ClearOldKeeps == ASSUME PkInv, ClearOld PROVE PkInv'
<1> USE DEF PkInv, PkStep, PkFault, pkPast
<1>1. Here \in PkDirs /\ Here' = Here
  <2>1. pkJob' = pkJob
    BY DEF ClearOld
  <2> QED
    BY <2>1, HereIsDir DEF Here
<1>2. PkTypeOK'
  BY <1>1 DEF PkTypeOK, PkSteps, ClearOld, DirsOfDisk
<1>3. HeldSoFar' /\ RolledBack'
  BY <1>1 DEF HeldSoFar, RolledBack, ClearOld, Between
<1>4. CASE PkStep("stale", "backup") /\ UNCHANGED pkFaults
  <2>1. pkOld' = [pkOld EXCEPT ![Here] = 0] /\ UNCHANGED <<pkReg, pkDir, pkGone, pkCrashed>> /\ pkAt = "stale"
    BY <1>4 DEF ClearOld
  <2>2. ASSUME NEW i \in pkCrashed', Replaced(i) \/ CopyOf(i) PROVE (Replaced(i) \/ CopyOf(i))'
    <3>1. i \in PkIds /\ CopyOf(i)
      BY <2>1, <2>2 DEF PkTypeOK, Replaced, Removing
    <3>2. CASE <<i, pkReg[i].kind>> = Here
      BY <1>1, <1>4, <2>1, <3>2 DEF Replaced
    <3>3. CASE <<i, pkReg[i].kind>> # Here
      BY <2>1, <3>1, <3>3, CopyStays DEF PkTypeOK, DirsOfDisk
    <3> QED
      BY <3>2, <3>3
  <2> QED
    BY <1>2, <1>3, <1>4, <2>1, <2>2, CrashKept
<1>5. CASE PkFault("stale", "failed")
  BY <1>2, <1>3, <1>5, FaultKeeps DEF ClearOld
<1> QED
  BY <1>4, <1>5 DEF ClearOld

LEMMA BackupKeeps == ASSUME PkInv, Backup PROVE PkInv'
<1> USE DEF PkInv, PkStep, PkFault, pkPast
<1>1. Here \in PkDirs /\ Here' = Here
  <2>1. pkJob' = pkJob
    BY DEF Backup
  <2> QED
    BY <2>1, HereIsDir DEF Here
<1>2. PkTypeOK'
  BY <1>1 DEF PkTypeOK, PkSteps, Backup, DirsOfDisk
<1>3. HeldSoFar' /\ RolledBack'
  <2>1. CASE PkStep("backup", "place")
    <3>1. /\ pkReg = pkBefore.reg /\ pkDir = pkBefore.dir /\ pkJob.entry.version # 0
          /\ \A i \in PkIds \ pkCrashed : Matches(pkBefore.reg, pkBefore.dir, i)
      BY <2>1 DEF HeldSoFar, Between
    <3>2. /\ pkOld' = [pkOld EXCEPT ![Here] = pkDir[Here]] /\ pkDir' = [pkDir EXCEPT ![Here] = 0]
          /\ UNCHANGED <<pkReg, pkJob, pkCrashed, pkBefore>>
      BY <2>1 DEF Backup
    <3>3. pkOld'[Here] = pkDir[Here]
      BY <1>1, <3>2 DEF PkTypeOK, DirsOfDisk
    <3> QED
      BY <1>1, <2>1, <3>1, <3>2, <3>3 DEF HeldSoFar, RolledBack, Between, Matches
  <2>2. CASE PkFault("backup", "failed")
    BY <1>1, <2>2 DEF HeldSoFar, RolledBack, Backup, Between
  <2> QED
    BY <2>1, <2>2 DEF Backup
<1>4. CASE PkStep("backup", "place") /\ UNCHANGED pkFaults
  <2>1. /\ pkOld' = [pkOld EXCEPT ![Here] = pkDir[Here]] /\ pkDir' = [pkDir EXCEPT ![Here] = 0]
        /\ UNCHANGED <<pkReg, pkGone, pkCrashed>> /\ pkAt = "backup" /\ pkAt' = "place"
    BY <1>4 DEF Backup
  <2>2. ASSUME NEW i \in pkCrashed', Replaced(i) \/ CopyOf(i) PROVE (Replaced(i) \/ CopyOf(i))'
    <3>1. i \in PkIds
      BY <2>1, <2>2 DEF PkTypeOK
    <3>2. CASE <<i, pkReg[i].kind>> = Here
      BY <1>1, <2>1, <3>2 DEF Replaced
    <3>3. CASE <<i, pkReg[i].kind>> # Here
      <4>1. CopyOf(i)
        BY <2>1, <2>2, <3>3 DEF Replaced, Removing
      <4> QED
        BY <2>1, <3>1, <3>3, <4>1, CopyStays DEF PkTypeOK, DirsOfDisk
    <3> QED
      BY <3>2, <3>3
  <2> QED
    BY <1>2, <1>3, <1>4, <2>1, <2>2, CrashKept
<1>5. CASE PkFault("backup", "failed")
  BY <1>2, <1>3, <1>5, FaultKeeps DEF Backup
<1> QED
  BY <1>4, <1>5 DEF Backup

LEMMA PlaceKeeps == ASSUME PkInv, Place PROVE PkInv'
<1> USE DEF PkInv, PkStep, PkFault, pkPast
<1>1. Here \in PkDirs /\ Here' = Here
  <2>1. pkJob' = pkJob
    BY DEF Place
  <2> QED
    BY <2>1, HereIsDir DEF Here
<1>2. PkTypeOK'
  <2>1. pkDir' \in DirsOfDisk
    BY HereIsDir DEF Place, DirsOfDisk, PkTypeOK
  <2> QED
    BY <2>1 DEF PkTypeOK, PkSteps, Place
<1>3. HeldSoFar' /\ RolledBack'
  BY <1>1 DEF HeldSoFar, RolledBack, Place, Between, PkTypeOK, DirsOfDisk
<1>4. CASE PkStep("place", "save") /\ UNCHANGED pkFaults
  <2>1. /\ pkDir' = [pkDir EXCEPT ![Here] = pkJob.entry.version] /\ pkJob.entry.version # 0
        /\ UNCHANGED <<pkReg, pkOld, pkGone, pkCrashed>> /\ pkAt = "place" /\ pkAt' = "save"
    BY <1>4 DEF Place, HeldSoFar
  <2>2. ASSUME NEW i \in pkCrashed', Replaced(i) \/ CopyOf(i) PROVE (Replaced(i) \/ CopyOf(i))'
    <3>1. i \in PkIds
      BY <2>1, <2>2 DEF PkTypeOK
    <3>2. CASE <<i, pkReg[i].kind>> = Here
      <4>1. pkDir'[Here] # 0 /\ pkDir'[Here] \in Nat /\ pkOld'[Here] \in Nat /\ pkGone'[Here] \in Nat
        BY <1>1, <1>2, <2>1 DEF PkTypeOK, DirsOfDisk, Entries
      <4>2. <<i, pkReg'[i].kind>> = Here
        BY <2>1, <3>2
      <4>3. pkDir'[Here] + pkOld'[Here] + pkGone'[Here] # 0
        BY <4>1
      <4>4. CopyOf(i)'
        BY <4>2, <4>3 DEF CopyOf
      <4> QED
        BY <4>4
    <3>3. CASE <<i, pkReg[i].kind>> # Here
      <4>1. CopyOf(i)
        BY <2>1, <2>2, <3>3 DEF Replaced, Removing
      <4> QED
        BY <2>1, <3>1, <3>3, <4>1, CopyStays DEF PkTypeOK, DirsOfDisk
    <3> QED
      BY <3>2, <3>3
  <2> QED
    BY <1>2, <1>3, <1>4, <2>1, <2>2, CrashKept
<1>5. CASE PkFault("place", "restore")
  BY <1>2, <1>3, <1>5, FaultKeeps DEF Place
<1> QED
  BY <1>4, <1>5 DEF Place

LEMMA SaveKeeps == ASSUME PkInv, SaveInstalled PROVE PkInv'
<1> USE DEF PkInv, PkStep, PkFault, pkPast
<1>1. Here \in PkDirs /\ Here' = Here
  <2>1. pkJob' = pkJob
    BY DEF SaveInstalled
  <2> QED
    BY <2>1, HereIsDir DEF Here
<1>2. PkTypeOK'
  <2>1. pkReg' \in [PkIds -> Entries]
    BY HereIsDir DEF SaveInstalled, PkTypeOK
  <2> QED
    BY <2>1 DEF PkTypeOK, PkSteps, SaveInstalled
<1>3. HeldSoFar' /\ RolledBack'
  BY <1>1 DEF HeldSoFar, RolledBack, SaveInstalled, Between, Matches
<1>4. CASE PkStep("save", "clean") /\ UNCHANGED pkFaults
  <2>1. /\ pkReg' = [pkReg EXCEPT ![pkJob.id] = pkJob.entry] /\ pkJob.entry.version # 0
        /\ pkDir = [pkBefore.dir EXCEPT ![Here] = pkJob.entry.version]
        /\ UNCHANGED <<pkDir, pkOld, pkGone, pkCrashed>> /\ pkAt = "save" /\ pkAt' = "clean"
    BY <1>4 DEF SaveInstalled, HeldSoFar
  <2>2. ASSUME NEW i \in pkCrashed', Replaced(i) \/ CopyOf(i) PROVE (Replaced(i) \/ CopyOf(i))'
    <3>1. i \in PkIds /\ CopyOf(i)
      BY <2>1, <2>2 DEF PkTypeOK, Replaced, Removing
    <3>2. CASE i = pkJob.id
      <4>1. pkReg'[i] = pkJob.entry
        BY <2>1, <3>1, <3>2 DEF PkTypeOK
      <4>2. <<i, pkReg'[i].kind>> = Here
        BY <3>2, <4>1 DEF Here
      <4>3. pkDir'[Here] # 0 /\ pkDir'[Here] \in Nat /\ pkOld'[Here] \in Nat /\ pkGone'[Here] \in Nat
        BY <1>1, <1>2, <2>1, HereIsDir DEF PkTypeOK, DirsOfDisk
      <4>4. pkDir'[Here] + pkOld'[Here] + pkGone'[Here] # 0
        BY <4>3
      <4>5. CopyOf(i)'
        BY <4>2, <4>4 DEF CopyOf
      <4> QED
        BY <4>5
    <3>3. CASE i # pkJob.id
      <4>1. pkReg'[i] = pkReg[i]
        BY <2>1, <3>1, <3>3 DEF PkTypeOK
      <4>2. CopyOf(i)'
        BY <2>1, <3>1, <4>1 DEF CopyOf
      <4> QED
        BY <4>2
    <3> QED
      BY <3>2, <3>3
  <2> QED
    BY <1>2, <1>3, <1>4, <2>1, <2>2, CrashKept
<1>5. CASE PkFault("save", "undo")
  BY <1>2, <1>3, <1>5, FaultKeeps DEF SaveInstalled
<1> QED
  BY <1>4, <1>5 DEF SaveInstalled

\* What undoes a command: it runs after a fault, never after a crash alone.
LEMMA UndoKeeps == ASSUME PkInv, Restored \/ Undo \/ Unstage PROVE PkInv'
<1> USE DEF PkInv, PkStep, pkPast
<1>1. Here \in PkDirs /\ Here' = Here
  <2>1. pkJob' = pkJob
    BY DEF Restored, Undo, Unstage
  <2> QED
    BY <2>1, HereIsDir DEF Here
<1>2. pkBefore.dir \in [PkDirs -> Nat] /\ pkDir \in [PkDirs -> Nat] /\ pkOld \in [PkDirs -> Nat]
      /\ pkGone \in [PkDirs -> Nat]
  BY DEF PkTypeOK, DirsOfDisk
<1>3. CASE Restored
  <2>1. /\ pkReg = pkBefore.reg /\ pkDir = [pkBefore.dir EXCEPT ![Here] = 0]
        /\ pkOld[Here] = pkBefore.dir[Here]
    BY <1>3 DEF Restored, HeldSoFar
  <2>2. /\ pkDir' = [pkDir EXCEPT ![Here] = IF pkOld[Here] # 0 THEN pkOld[Here] ELSE pkDir[Here]]
        /\ pkOld' = [pkOld EXCEPT ![Here] = 0] /\ pkAt = "restore" /\ pkAt' = "failed"
        /\ UNCHANGED <<pkReg, pkGone, pkJob, pkTodo, pkFetched, pkFaults, pkPast>>
    BY <1>3 DEF Restored
  <2>3. pkDir' = pkBefore.dir
    BY <1>1, <1>2, <2>1, <2>2
  <2>4. PkTypeOK'
    BY <1>1, <1>2, <2>2 DEF PkTypeOK, PkSteps, DirsOfDisk
  <2>5. HeldSoFar' /\ RolledBack'
    BY <2>1, <2>2, <2>3 DEF HeldSoFar, RolledBack, Between
  <2>6. CrashInv'
    BY <2>2, CrashKept
  <2> QED
    BY <2>4, <2>5, <2>6
<1>4. CASE Undo
  <2>1. /\ pkReg = pkBefore.reg /\ pkDir = [pkBefore.dir EXCEPT ![Here] = pkJob.entry.version]
        /\ pkOld[Here] = pkBefore.dir[Here]
    BY <1>4 DEF Undo, HeldSoFar
  <2>2. /\ pkDir' = [pkDir EXCEPT ![Here] = 0] /\ pkAt = "undo" /\ pkAt' = "restore"
        /\ UNCHANGED <<pkReg, pkOld, pkGone, pkJob, pkTodo, pkFetched, pkFaults, pkPast>>
    BY <1>4 DEF Undo
  <2>3. pkDir' = [pkBefore.dir EXCEPT ![Here] = 0]
    BY <1>1, <1>2, <2>1, <2>2
  <2>4. PkTypeOK'
    BY <1>1, <1>2, <2>2 DEF PkTypeOK, PkSteps, DirsOfDisk
  <2>5. HeldSoFar' /\ RolledBack'
    BY <1>1, <2>1, <2>2, <2>3 DEF HeldSoFar, RolledBack, Between
  <2>6. CrashInv'
    BY <2>2, CrashKept
  <2> QED
    BY <2>4, <2>5, <2>6
<1>5. CASE Unstage
  <2>1. /\ pkReg = pkBefore.reg /\ pkDir = [pkBefore.dir EXCEPT ![Here] = 0]
        /\ pkGone[Here] = pkBefore.dir[Here]
    BY <1>5 DEF Unstage, HeldSoFar
  <2>2. /\ pkDir' = [pkDir EXCEPT ![Here] = IF pkGone[Here] # 0 THEN pkGone[Here] ELSE pkDir[Here]]
        /\ pkGone' = [pkGone EXCEPT ![Here] = 0] /\ pkAt = "unstage" /\ pkAt' = "failed"
        /\ UNCHANGED <<pkReg, pkOld, pkJob, pkTodo, pkFetched, pkFaults, pkPast>>
    BY <1>5 DEF Unstage
  <2>3. pkDir' = pkBefore.dir
    BY <1>1, <1>2, <2>1, <2>2
  <2>4. PkTypeOK'
    BY <1>1, <1>2, <2>2 DEF PkTypeOK, PkSteps, DirsOfDisk
  <2>5. HeldSoFar' /\ RolledBack'
    BY <2>1, <2>2, <2>3 DEF HeldSoFar, RolledBack, Between
  <2>6. CrashInv'
    BY <2>2, CrashKept
  <2> QED
    BY <2>4, <2>5, <2>6
<1> QED
  BY <1>3, <1>4, <1>5

\* The last step of a command, or a crash: what the command did not touch is as before.
LEMMA HeldAtEnd ==
  ASSUME PkTypeOK, HeldSoFar, ~Between, Between', UNCHANGED <<pkReg, pkDir>>,
         \/ pkCrashed' = pkCrashed \cup {pkJob.id}
         \/ pkCrashed' = pkCrashed \ {pkJob.id} /\ pkAt \in {"clean", "delete"}
  PROVE  HeldSoFar'
<1>1. ASSUME NEW i \in PkIds, i \notin pkCrashed' PROVE Matches(pkReg, pkDir, i)
  <2>1. CASE i # pkJob.id
    <3>1. Matches(pkBefore.reg, pkBefore.dir, i)
      BY <1>1, <2>1 DEF HeldSoFar
    <3> QED
      BY <2>1, <3>1, KeptElsewhere DEF Matches
  <2>2. CASE i = pkJob.id /\ pkAt = "clean"
    <3>1. /\ pkReg = [pkBefore.reg EXCEPT ![pkJob.id] = pkJob.entry]
          /\ pkDir = [pkBefore.dir EXCEPT ![Here] = pkJob.entry.version]
      BY <2>2 DEF HeldSoFar
    <3>2. pkReg[i] = pkJob.entry
      BY <2>2, <3>1 DEF PkTypeOK
    <3>3. pkDir[Here] = pkJob.entry.version
      BY <3>1, HereIsDir DEF PkTypeOK, DirsOfDisk
    <3> QED
      BY <2>2, <3>2, <3>3 DEF Matches, Here
  <2>3. CASE i = pkJob.id /\ pkAt = "delete"
    <3>1. pkReg = [pkBefore.reg EXCEPT ![pkJob.id] = NotInstalled]
      BY <2>3 DEF HeldSoFar
    <3>2. pkReg[i] = NotInstalled
      BY <2>3, <3>1 DEF PkTypeOK
    <3> QED
      BY <3>2 DEF Matches, NotInstalled
  <2> QED
    BY <1>1, <2>1, <2>2, <2>3
<1> QED
  BY <1>1 DEF HeldSoFar, Between, Matches

LEMMA OverKeepsType ==
  ASSUME PkTypeOK, pkAt' \in {"idle", "update"}, pkJob' = pkJob \/ pkJob' = NoJob,
         pkTodo' = pkTodo \/ pkTodo' = {}, UNCHANGED <<pkReg, pkDir, pkFetched, pkBefore>>,
         pkOld' \in DirsOfDisk, pkGone' \in DirsOfDisk, pkFaults' \in Nat, pkCrashed' \in SUBSET PkIds
  PROVE  PkTypeOK'
<1>1. NoJob \in [id : PkIds, entry : Entries]
  <2>1. FALSE \in BOOLEAN
    BY Zenon
  <2> QED
    BY <2>1, PackagesAssumption DEF NoJob, NotInstalled, Entries, PkKinds, PkIds
<1> QED
  BY <1>1 DEF PkTypeOK, PkSteps

\* What a crash left of the other packages is as it was.
LEMMA OthersStay ==
  ASSUME PkTypeOK, NEW i \in PkIds, i # pkJob.id, Replaced(i) \/ CopyOf(i), pkReg'[i] = pkReg[i],
         \A d \in PkDirs : d # Here => pkDir'[d] = pkDir[d] /\ pkOld'[d] = pkOld[d] /\ pkGone'[d] = pkGone[d]
  PROVE  CopyOf(i)'
<1>1. <<i, pkReg[i].kind>> # Here
  BY DEF Here
<1>2. CopyOf(i)
  BY <1>1 DEF Replaced
<1> QED
  BY <1>1, <1>2, CopyStays

LEMMA EndsKeep == ASSUME PkInv, Clean \/ Delete PROVE PkInv'
<1> USE DEF PkInv
<1>1. /\ ~Between /\ Between' /\ pkAt' \in {"idle", "update"} /\ (pkJob' = pkJob \/ pkJob' = NoJob)
      /\ (pkTodo' = pkTodo \/ pkTodo' = {}) /\ UNCHANGED <<pkReg, pkDir, pkFetched, pkBefore>>
      /\ pkCrashed' = pkCrashed \ {pkJob.id} /\ pkAt \in {"clean", "delete"}
      /\ (pkFaults' = pkFaults \/ pkFaults' = pkFaults + 1)
      /\ (pkOld' = pkOld \/ pkOld' = [pkOld EXCEPT ![Here] = 0])
      /\ (pkGone' = pkGone \/ pkGone' = [pkGone EXCEPT ![Here] = 0])
      /\ ~(pkAt' = "idle" /\ pkEnd' = "error")
  BY DEF Clean, Delete, PkOver, Between
<1>2. pkOld' \in DirsOfDisk /\ pkGone' \in DirsOfDisk /\ pkFaults' \in Nat /\ pkCrashed' \in SUBSET PkIds
  BY <1>1, HereIsDir DEF PkTypeOK, DirsOfDisk
<1>3. PkTypeOK'
  BY <1>1, <1>2, OverKeepsType
<1>4. HeldSoFar' /\ RolledBack'
  BY <1>1, HeldAtEnd DEF RolledBack
<1>5. CASE pkFaults' = pkFaults
  <2>1. ASSUME NEW i \in pkCrashed', Replaced(i) \/ CopyOf(i) PROVE CopyOf(i)'
    <3>1. i \in PkIds /\ i # pkJob.id
      BY <1>1, <2>1 DEF PkTypeOK
    <3>2. \A d \in PkDirs : d # Here => pkDir'[d] = pkDir[d] /\ pkOld'[d] = pkOld[d] /\ pkGone'[d] = pkGone[d]
      BY <1>1 DEF PkTypeOK, DirsOfDisk
    <3>3. pkReg'[i] = pkReg[i]
      BY <1>1
    <3> QED
      BY <2>1, <3>1, <3>2, <3>3, OthersStay
  <2> QED
    BY <1>1, <1>3, <1>4, <1>5, <2>1, CrashKept
<1>6. CASE pkFaults' = pkFaults + 1
  BY <1>1, <1>3, <1>4, <1>6, FaultKeeps
<1> QED
  BY <1>1, <1>5, <1>6

LEMMA CrashKeeps == ASSUME PkInv, PkCrash PROVE PkInv'
<1> USE DEF PkInv
<1>1. /\ ~Between /\ Between' /\ pkAt' = "idle" /\ pkJob' = NoJob /\ pkTodo' = {}
      /\ UNCHANGED <<pkReg, pkDir, pkOld, pkGone, pkFetched, pkBefore>> /\ pkEnd' = "crash"
      /\ pkCrashed' = pkCrashed \cup {pkJob.id} /\ pkFaults' = pkFaults + 1
  BY DEF PkCrash, PkOver, Between, pkDisk
<1>2. PkTypeOK'
  BY <1>1, OverKeepsType DEF PkTypeOK
<1>3. HeldSoFar' /\ RolledBack'
  BY <1>1, HeldAtEnd DEF RolledBack
<1>4. CrashInv'
  <2>1. pkFaults' # 0 /\ (pkFaults' <= 1 => pkCrashed = {})
    BY <1>1 DEF PkTypeOK, CrashInv
  <2>2. ASSUME pkFaults' <= 1, NEW i \in pkCrashed' PROVE CopyOf(i)'
    <3>1. i \in PkIds \ pkCrashed
      BY <1>1, <2>1, <2>2 DEF PkTypeOK
    <3>2. CopyOf(i)
      BY <3>1, KeptCopy
    <3> QED
      BY <1>1, <3>2 DEF CopyOf
  <2> QED
    BY <1>1, <2>1, <2>2 DEF CrashInv
<1> QED
  BY <1>2, <1>3, <1>4

\* The steps of remove.
LEMMA RemovalKeeps == ASSUME PkInv, ClearGone \/ StageRemoval \/ SaveRemoved PROVE PkInv'
<1> USE DEF PkInv, PkStep, PkFault, pkPast
<1>1. Here \in PkDirs /\ Here' = Here /\ pkJob' = pkJob
  <2>1. pkJob' = pkJob
    BY DEF ClearGone, StageRemoval, SaveRemoved
  <2> QED
    BY <2>1, HereIsDir DEF Here
<1>2. pkBefore.dir \in [PkDirs -> Nat] /\ pkDir \in [PkDirs -> Nat] /\ pkGone \in [PkDirs -> Nat]
      /\ pkReg \in [PkIds -> Entries] /\ pkJob.id \in PkIds
  BY DEF PkTypeOK, DirsOfDisk
<1>3. /\ UNCHANGED <<pkOld, pkTodo, pkFetched, pkPast, pkEnd>> /\ pkAt' \in Removing \cup {"failed"}
      /\ pkAt \in Removing /\ pkAt # "unstage"
  BY DEF ClearGone, StageRemoval, SaveRemoved, Removing
<1>4. /\ pkReg' = pkReg \/ pkReg' = [pkReg EXCEPT ![pkJob.id] = NotInstalled]
      /\ pkDir' = pkDir \/ pkDir' = [pkDir EXCEPT ![Here] = 0]
      /\ pkGone' = pkGone \/ \E v \in Nat : pkGone' = [pkGone EXCEPT ![Here] = v]
      /\ pkFaults' = pkFaults \/ pkFaults' = pkFaults + 1
  BY <1>1, <1>2 DEF ClearGone, StageRemoval, SaveRemoved
<1>5. PkTypeOK'
  <2>1. NotInstalled \in Entries
    <3>1. FALSE \in BOOLEAN
      BY Zenon
    <3> QED
      BY <3>1 DEF NotInstalled, Entries, PkKinds
  <2>2. pkReg' \in [PkIds -> Entries] /\ pkDir' \in DirsOfDisk /\ pkGone' \in DirsOfDisk
    BY <1>1, <1>2, <1>4, <2>1 DEF DirsOfDisk
  <2>3. pkAt' \in PkSteps /\ pkFaults' \in Nat
    BY <1>3, <1>4 DEF PkSteps, PkTypeOK
  <2> QED
    BY <1>1, <1>3, <2>2, <2>3 DEF PkTypeOK
<1>6. HeldSoFar' /\ RolledBack'
  <2>1. CASE ClearGone
    BY <1>1, <2>1 DEF HeldSoFar, RolledBack, ClearGone, Between, Matches
  <2>2. CASE SaveRemoved
    BY <1>1, <2>2 DEF HeldSoFar, RolledBack, SaveRemoved, Between, Matches
  <2>3. CASE StageRemoval /\ PkStep("stage", "save removal")
    <3>1. pkReg = pkBefore.reg /\ pkDir = pkBefore.dir
      BY <2>3 DEF HeldSoFar
    <3>2. /\ pkGone' = [pkGone EXCEPT ![Here] = pkDir[Here]] /\ pkDir' = [pkDir EXCEPT ![Here] = 0]
          /\ UNCHANGED pkReg
      BY <2>3 DEF StageRemoval
    <3>3. pkGone'[Here] = pkDir[Here]
      BY <1>1, <1>2, <3>2
    <3> QED
      BY <1>1, <1>3, <2>3, <3>1, <3>2, <3>3 DEF HeldSoFar, RolledBack, Between, Matches
  <2>4. CASE StageRemoval /\ PkFault("stage", "failed")
    BY <1>1, <2>4 DEF HeldSoFar, RolledBack, StageRemoval, Between, Matches
  <2> QED
    BY <2>1, <2>2, <2>3, <2>4 DEF StageRemoval
<1>7. CASE pkFaults' = pkFaults
  <2>1. pkAt' \in Removing \ {"unstage"}
    <3>1. pkFaults' # pkFaults + 1
      BY <1>7 DEF PkTypeOK
    <3> QED
      BY <3>1 DEF ClearGone, StageRemoval, SaveRemoved, Removing
  <2>2. ASSUME NEW i \in pkCrashed', Replaced(i) \/ CopyOf(i) PROVE (Replaced(i) \/ CopyOf(i))'
    <3>1. i \in PkIds
      BY <1>3, <2>2 DEF PkTypeOK
    <3>2. CASE i = pkJob.id
      BY <1>1, <2>1, <3>2 DEF Replaced
    <3>3. CASE i # pkJob.id
      <4>1. \A d \in PkDirs : d # Here => pkDir'[d] = pkDir[d] /\ pkOld'[d] = pkOld[d] /\ pkGone'[d] = pkGone[d]
        BY <1>2, <1>3, <1>4
      <4>2. pkReg'[i] = pkReg[i]
        BY <1>2, <1>4, <3>1, <3>3
      <4> QED
        BY <2>2, <3>1, <3>3, <4>1, <4>2, OthersStay
    <3> QED
      BY <3>2, <3>3
  <2> QED
    BY <1>3, <1>5, <1>6, <1>7, <2>1, <2>2, CrashKept DEF Removing
<1>8. CASE pkFaults' = pkFaults + 1
  BY <1>3, <1>5, <1>6, <1>8, FaultKeeps
<1> QED
  BY <1>4, <1>7, <1>8

LEMMA PkInvHolds == PkSpec => []PkInv
<1>1. PkInit => PkInv
  BY PkInvInitially
<1>2. PkInv /\ [PkNext]_pkVars => PkInv'
  <2> SUFFICES ASSUME PkInv, [PkNext]_pkVars PROVE PkInv'
    OBVIOUS
  <2>1. CASE UNCHANGED pkVars
    BY <2>1, ZenonT(60) DEF pkVars, PkInv, PkTypeOK, HeldSoFar, RolledBack, CrashInv, Between, Matches, Here,
                CopyOf, Replaced
  <2>2. ASSUME NEW id \in PkIds, RemovePackage(id) PROVE PkInv'
    BY <2>2, RemoveKeeps
  <2>3. ASSUME NEW id \in PkIds, NEW kind \in PkKinds, NEW pinned \in BOOLEAN, Install(id, kind, pinned)
        PROVE  PkInv'
    BY <2>3, InstallKeeps
  <2>4. CASE Update \/ UpdateNext \/ FetchFails \/ PkFails
    BY <2>4, UpdateKeeps
  <2>5. CASE ClearOld \/ Backup \/ Place \/ SaveInstalled
    BY <2>5, ClearOldKeeps, BackupKeeps, PlaceKeeps, SaveKeeps
  <2>6. CASE Restored \/ Undo \/ Unstage
    BY <2>6, UndoKeeps
  <2>7. CASE Clean \/ Delete
    BY <2>7, EndsKeep
  <2>8. CASE ClearGone \/ StageRemoval \/ SaveRemoved
    BY <2>8, RemovalKeeps
  <2>9. CASE PkCrash
    BY <2>9, CrashKeeps
  <2> QED
    BY <2>1, <2>2, <2>3, <2>4, <2>5, <2>6, <2>7, <2>8, <2>9 DEF PkNext
<1> QED
  BY <1>1, <1>2, PTL DEF PkSpec

\* Whichever step of a command fails, and wherever the process dies, for any number of
\* packages, faults and commands: what fails is undone, the registry names what its
\* directories hold, and after one fault every registered package has a copy.
THEOREM PackagesAlwaysSound == PkSpec => []PackagesSound
<1>1. PkInv => PackagesSound
  <2> SUFFICES ASSUME PkInv PROVE PackagesSound
    OBVIOUS
  <2>1. AsRegistered
    BY DEF PkInv, HeldSoFar, Matches, Between, AsRegistered
  <2>2. SomeCopyLeft
    <3> SUFFICES ASSUME pkFaults <= 1, NEW i \in PkIds PROVE Replaced(i) \/ CopyOf(i)
      BY DEF SomeCopyLeft, CopyOf, Replaced
    <3>1. CASE i \in pkCrashed
      BY <3>1 DEF PkInv, CrashInv
    <3>2. CASE i \notin pkCrashed
      BY <3>2, KeptCopy DEF PkInv
    <3> QED
      BY <3>1, <3>2
  <2> QED
    BY <2>1, <2>2 DEF PkInv, PackagesSound
<1> QED
  BY <1>1, PkInvHolds, PTL

-----------------------------------------------------------------------------
(* RoutePolicy *)

CodersOfStack == [local : BOOLEAN, cost : Nat, effort : BOOLEAN, supports : BOOLEAN]

RpInv ==
    /\ rpStack \in [Tiers -> CodersOfStack] /\ rpPolicy \in Policies /\ rpDecision \in Decisions
    /\ rpChosen # 0 => rpChosen = Enforced(rpDecision)

\* What is decided depends on the stack, the policy and the selector's answer alone.
LEMMA EnforcedStays ==
  ASSUME UNCHANGED <<rpStack, rpPolicy, rpDecision>>
  PROVE  Enforced(rpDecision)' = Enforced(rpDecision)
<1>0. rpStack' = rpStack /\ rpPolicy' = rpPolicy /\ rpDecision' = rpDecision
  OBVIOUS
<1>1. Candidates' = Candidates
  BY <1>0, Zenon DEF Candidates
<1>2. \A t : Eligible(t)' = Eligible(t)
  BY <1>0, <1>1, Zenon DEF Eligible
<1>3. Allowed(rpDecision)' = Allowed(rpDecision)
  BY <1>1, <1>2 DEF Allowed
<1>4. Unsure(rpDecision)' = Unsure(rpDecision)
  BY DEF Unsure
<1>5. ASSUME NEW allowed PROVE Fallback(allowed)' = Fallback(allowed)
  BY DEF Fallback, Cheaper
<1> QED
  BY <1>3, <1>4, <1>5 DEF Enforced

LEMMA StrongestTier ==
  ASSUME NEW tiers \in SUBSET Tiers, tiers # {}
  PROVE  \E t \in tiers : \A u \in tiers : u <= t
<1>1. CASE 3 \in tiers
  BY <1>1 DEF Tiers
<1>2. CASE 3 \notin tiers /\ 2 \in tiers
  BY <1>2 DEF Tiers
<1>3. CASE 3 \notin tiers /\ 2 \notin tiers
  <2>1. \A u \in tiers : u = 1
    BY <1>3 DEF Tiers
  <2>2. 1 \in tiers /\ \A u \in tiers : u <= 1
    BY <2>1
  <2> QED
    BY <2>2
<1> QED
  BY <1>1, <1>2, <1>3

LEMMA CheapestTier ==
  ASSUME rpStack \in [Tiers -> CodersOfStack], NEW tiers \in SUBSET Tiers, tiers # {}
  PROVE  \E t \in tiers : \A u \in tiers : Cheaper(t, u)
<1> DEFINE cost(t) == rpStack[t].cost
<1>1. cost(1) \in Nat /\ cost(2) \in Nat /\ cost(3) \in Nat
  BY DEF Tiers, CodersOfStack
<1>2. \A t, u \in tiers : Cheaper(t, u) <=> cost(t) < cost(u) \/ (cost(t) = cost(u) /\ t <= u)
  BY DEF Cheaper
<1>3. tiers \subseteq {1, 2, 3}
  BY DEF Tiers
<1> DEFINE best(t) == t \in tiers /\ \A u \in {1, 2, 3} \cap tiers : Cheaper(t, u)
<1> HIDE DEF cost
<1>4. CASE 1 \in tiers /\ (2 \in tiers => cost(1) <= cost(2)) /\ (3 \in tiers => cost(1) <= cost(3))
  <2>1. best(1)
    BY <1>1, <1>2, <1>4
  <2> QED
    BY <1>3, <2>1
<1>5. CASE 2 \in tiers /\ (1 \in tiers => cost(2) < cost(1)) /\ (3 \in tiers => cost(2) <= cost(3))
  <2>1. best(2)
    BY <1>1, <1>2, <1>5
  <2> QED
    BY <1>3, <2>1
<1>6. CASE 3 \in tiers /\ (1 \in tiers => cost(3) < cost(1)) /\ (2 \in tiers => cost(3) < cost(2))
  <2>1. best(3)
    BY <1>1, <1>2, <1>6
  <2> QED
    BY <1>3, <2>1
<1>7. 1 \in tiers \/ 2 \in tiers \/ 3 \in tiers
  BY <1>3
<1> QED
  BY <1>1, <1>4, <1>5, <1>6, <1>7

\* A fallback is an allowed tier, and the best one for the objective.
LEMMA FallbackIsBest ==
  ASSUME RpInv, NEW tiers \in SUBSET Tiers, tiers # {}
  PROVE  /\ Fallback(tiers) \in tiers
         /\ rpPolicy.objective = "quality" => \A t \in tiers : t <= Fallback(tiers)
         /\ rpPolicy.objective = "cost" =>
              \A t \in tiers : rpStack[Fallback(tiers)].cost <= rpStack[t].cost
         /\ rpPolicy.objective = "balanced" =>
              \/ Fallback(tiers) = 2
              \/ 2 \notin tiers /\ (Fallback(tiers) = 3 \/ 3 \notin tiers)
<1> DEFINE strongest == CHOOSE t \in tiers : \A u \in tiers : u <= t
           cheapest  == CHOOSE t \in tiers : \A u \in tiers : Cheaper(t, u)
<1>1. strongest \in tiers /\ \A u \in tiers : u <= strongest
  BY StrongestTier
<1>2. cheapest \in tiers /\ \A u \in tiers : Cheaper(cheapest, u)
  BY CheapestTier DEF RpInv
<1>3. \A u \in tiers : rpStack[cheapest].cost <= rpStack[u].cost
  <2> SUFFICES ASSUME NEW u \in tiers PROVE rpStack[cheapest].cost <= rpStack[u].cost
    OBVIOUS
  <2>1. rpStack[cheapest].cost \in Nat /\ rpStack[u].cost \in Nat
    BY <1>2 DEF RpInv, CodersOfStack
  <2> QED
    BY <1>2, <2>1 DEF Cheaper
<1>4. rpPolicy.objective \in {"quality", "cost", "balanced"}
  BY DEF RpInv, Policies
<1>5. /\ rpPolicy.objective = "quality" => Fallback(tiers) = strongest
      /\ rpPolicy.objective = "cost" => Fallback(tiers) = cheapest
      /\ rpPolicy.objective = "balanced" => Fallback(tiers) = IF 2 \in tiers THEN 2 ELSE strongest
  BY DEF Fallback
<1> HIDE DEF strongest, cheapest
<1>6. CASE rpPolicy.objective = "balanced"
  <2>1. strongest \in 1..3 /\ tiers \subseteq 1..3
    BY <1>1 DEF Tiers
  <2> QED
    BY <1>1, <1>5, <1>6, <2>1
<1> QED
  BY <1>1, <1>2, <1>3, <1>4, <1>5, <1>6

LEMMA EnforcedIsAllowed ==
  ASSUME RpInv, rpChosen # 0
  PROVE  /\ rpChosen \in Allowed(rpDecision)
         /\ rpDecision.tier \in Allowed(rpDecision) /\ ~Unsure(rpDecision) => rpChosen = rpDecision.tier
         /\ ~(rpDecision.tier \in Allowed(rpDecision) /\ ~Unsure(rpDecision)) =>
              rpChosen = Fallback(Allowed(rpDecision))
<1>1. Allowed(rpDecision) \in SUBSET Tiers
  BY DEF Allowed
<1>2. rpChosen = Enforced(rpDecision)
  BY DEF RpInv
<1> QED
  BY <1>1, <1>2, FallbackIsBest DEF Enforced

LEMMA ObeysPolicy == RpInv => PolicyObeyed
<1> SUFFICES ASSUME RpInv, rpChosen # 0
             PROVE  LET c == rpStack[rpChosen] IN
                    /\ c # NoCoder /\ (rpPolicy.localOnly => c.local)
                    /\ rpPolicy.denyUnknown => c.cost # Unpriced
                    /\ rpPolicy.cap # Unlimited => c.cost <= rpPolicy.cap \/ c.cost = Unpriced
                    /\ rpPolicy.requireEffort => c.supports \/ ~(c.effort \/ rpDecision.effort)
  BY DEF PolicyObeyed
<1>1. /\ Eligible(rpChosen)
      /\ rpPolicy.requireEffort /\ rpDecision.effort => rpStack[rpChosen].supports
  BY EnforcedIsAllowed DEF Allowed
<1> QED
  BY <1>1 DEF Eligible, Candidates

LEMMA FollowsObjective == RpInv => ObjectiveDecides
<1> SUFFICES ASSUME RpInv, rpChosen # 0 PROVE ObjectiveDecides
  BY DEF ObjectiveDecides
<1> DEFINE others == Allowed(rpDecision)
           sure   == rpPolicy.minimum = Unlimited \/ rpDecision.confidence \in rpPolicy.minimum..100
<1>1. sure <=> ~Unsure(rpDecision)
  <2>1. /\ rpPolicy.minimum \in Minimums \cup {Unlimited}
        /\ rpDecision.confidence \in Confidences \cup {Unlimited}
    BY DEF RpInv, Policies, Decisions
  <2>2. CASE rpPolicy.minimum = Unlimited
    BY <2>2 DEF Unsure
  <2>3. CASE rpPolicy.minimum # Unlimited /\ rpDecision.confidence = Unlimited
    <3>2. rpPolicy.minimum \in 0..100
      BY <2>1, <2>3, PolicyAssumption
    <3>3. \A n \in rpPolicy.minimum..100 : n \in Nat
      BY <3>2
    <3>1. rpDecision.confidence \notin rpPolicy.minimum..100
      BY <2>3, <3>3, PolicyAssumption
    <3> QED
      BY <2>3, <3>1 DEF Unsure
  <2>4. CASE rpPolicy.minimum # Unlimited /\ rpDecision.confidence # Unlimited
    <3>1. rpPolicy.minimum \in 0..100 /\ rpDecision.confidence \in 0..100
      BY <2>1, <2>4, PolicyAssumption
    <3> QED
      BY <2>4, <3>1 DEF Unsure
  <2> QED
    BY <2>2, <2>3, <2>4
<1>2. others \in SUBSET Tiers /\ others # {}
  BY EnforcedIsAllowed DEF Allowed
<1>3. rpPolicy.objective \in {"quality", "cost", "balanced"}
  BY DEF RpInv, Policies
<1> HIDE DEF others, sure
<1>4. CASE rpDecision.tier \in others /\ sure
  BY <1>1, <1>4, EnforcedIsAllowed DEF ObjectiveDecides, others, sure
<1>5. CASE ~(rpDecision.tier \in others /\ sure)
  <2>1. rpChosen = Fallback(others)
    BY <1>1, <1>5, EnforcedIsAllowed DEF others
  <2>2. CASE rpPolicy.objective = "quality"
    BY <1>2, <1>5, <2>1, <2>2, FallbackIsBest DEF ObjectiveDecides, others, sure
  <2>3. CASE rpPolicy.objective = "cost"
    BY <1>2, <1>5, <2>1, <2>3, FallbackIsBest DEF ObjectiveDecides, others, sure
  <2>4. CASE rpPolicy.objective = "balanced"
    BY <1>2, <1>5, <2>1, <2>4, FallbackIsBest DEF ObjectiveDecides, others, sure
  <2> QED
    BY <1>3, <2>2, <2>3, <2>4
<1> QED
  BY <1>4, <1>5

\* RoutesSound, of any stack of coders, any policy and any decision: what is chosen is
\* what the policy allows, and it is the selector's choice or the best for the objective.
THEOREM RoutesAlwaysSound == RpSpec => []RoutesSound
<1> USE PolicyAssumption
<1>1. RpInit => RpInv
  <2> SUFFICES ASSUME RpInit PROVE RpInv
    OBVIOUS
  <2>1. FALSE \in BOOLEAN
    BY Zenon
  <2>2. NoCoder \in CodersOfStack
    BY <2>1 DEF NoCoder, CodersOfStack
  <2>3. rpStack \in [Tiers -> CodersOfStack]
    BY <2>2 DEF RpInit, CodersOfStack
  <2>4. Undecided \in Decisions
    BY <2>1 DEF Undecided, Decisions, Tiers
  <2> QED
    BY <2>3, <2>4 DEF RpInit, RpInv
<1>2. RpInv /\ [RpNext]_rpVars => RpInv'
  <2> SUFFICES ASSUME RpInv, [RpNext]_rpVars PROVE RpInv'
    OBVIOUS
  <2>1. CASE UNCHANGED rpVars
    <3>1. UNCHANGED <<rpStack, rpPolicy, rpDecision, rpChosen>>
      BY <2>1 DEF rpVars
    <3>2. Enforced(rpDecision)' = Enforced(rpDecision)
      BY <3>1, EnforcedStays
    <3> QED
      BY <3>1, <3>2 DEF RpInv
  <2>2. ASSUME NEW d \in Decisions, Select(d) PROVE RpInv'
    BY <2>2, SMTT(30) DEF Select, RpInv, Enforced, Allowed, Eligible, Candidates, Unsure, Fallback, Cheaper
  <2> QED
    BY <2>1, <2>2 DEF RpNext
<1>3. RpInv => RoutesSound
  BY ObeysPolicy, FollowsObjective DEF RoutesSound
<1> QED
  BY <1>1, <1>2, <1>3, PTL DEF RpSpec

-----------------------------------------------------------------------------
(* Ship *)

ShipSteps == {"idle", "stage", "draft", "commit", "push", "pr", "head", "create", "record", "score"}
TestWords == {"not run", "none", "failed", "passed"}

ShipTypeOK ==
    /\ shTree \in Contents /\ shIndex \in Contents /\ shMoved \in BOOLEAN
    /\ shCommits \in Seq(Contents) /\ Len(shCommits) >= 1
    /\ shPushed \in Nat /\ shPushed <= Len(shCommits) /\ shHash \in 0..Len(shCommits)
    /\ shAt \in ShipSteps /\ shArgs \in Requests \cup {NoArgs}
    /\ shSnap \in [tests : TestWords, staged : BOOLEAN, clean : BOOLEAN]
    /\ \A r \in shRecord : r.hash \in 1..Len(shCommits)
    /\ \A s \in shScored : s.hash \in 1..Len(shCommits)

\* Which command is at which step, and what it holds there.
StepOf ==
    /\ shAt = "idle" => shSnap = NoSnap
    /\ shAt \in {"stage", "draft", "commit"} => shArgs.action = "commit"
    /\ shAt = "stage" => shArgs.all
    /\ shAt = "head" => shArgs.action \in {"commit", "push"}
    /\ shAt = "push" => shArgs.action = "push"
    /\ shAt \in {"pr", "create", "score"} => shArgs.action = "pr"
    /\ shAt \in {"create", "record", "score"} => shHash # 0
    /\ shSnap.tests = "none" => ~shSuite

\* What the command was told of the tree, the index and the remote, and what it has
\* done since, is so as long as nobody else has changed anything.
StillSo ==
    /\ shSnap.tests = "passed" => shTree \notin Broken
    /\ shAt \in {"stage", "draft", "commit"} /\ shSnap.staged => shIndex = shTree
    /\ shAt \in {"draft", "commit"} /\ shArgs.all => shIndex = shTree
    /\ shAt = "head" /\ shArgs.action = "commit" /\ (shArgs.all \/ shSnap.staged) =>
         HeadContent = shTree
    /\ shAt = "record" /\ shArgs.action = "commit" /\ (shArgs.all \/ shSnap.staged) =>
         shCommits[shHash] = shTree
    /\ shAt = "pr" => shPushed = Len(shCommits)
    /\ shAt = "create" => shHash <= shPushed
    /\ shAt = "pr" /\ shSnap.clean => HeadContent = shTree
    /\ shAt \in {"create", "record", "score"} /\ shArgs.action = "pr" /\ shSnap.clean =>
         shCommits[shHash] = shTree
Unmoved == ~shMoved => StillSo

ShipInv == ShipTypeOK /\ StepOf /\ Unmoved /\ ShipSound

LEMMA ShipInvInitially == ShInit => ShipInv
<1> SUFFICES ASSUME ShInit PROVE ShipInv
  OBVIOUS
<1>1. 0 \in Contents /\ <<0>> \in Seq(Contents) /\ Len(<<0>>) = 1
  BY ShipAssumption DEF Contents
<1>2. NoSnap \in [tests : TestWords, staged : BOOLEAN, clean : BOOLEAN]
  BY DEF NoSnap, TestWords
<1>5. shMoved \in BOOLEAN
  BY Zenon DEF ShInit
<1>3. ShipTypeOK
  BY <1>1, <1>2, <1>5 DEF ShInit, ShipTypeOK, ShipSteps
<1>4. StepOf /\ Unmoved
  BY <1>1 DEF ShInit, StepOf, Unmoved, StillSo, NoSnap
<1>6. ShipSound
  BY DEF ShInit, ShipSound, TestedIsCommitted, PrIsPushed, CountedIsGood
<1> QED
  BY <1>3, <1>4, <1>6 DEF ShipInv

\* Commits are only added.
LEMMA CommitsGrow ==
  ASSUME ShipTypeOK, NEW c \in Contents, shCommits' = Append(shCommits, c)
  PROVE  /\ shCommits' \in Seq(Contents) /\ Len(shCommits') = Len(shCommits) + 1
         /\ HeadContent' = c
         /\ \A i \in 1..Len(shCommits) : i \in 1..Len(shCommits') /\ shCommits'[i] = shCommits[i]
  BY DEF ShipTypeOK, HeadContent

\* What has been said of commits stays true of them.
LEMMA SaidStays ==
  ASSUME ShipTypeOK, ShipSound, UNCHANGED <<shPr, shRecord, shScored, shSuite>>,
         UNCHANGED shCommits \/ \E c \in Contents : shCommits' = Append(shCommits, c)
  PROVE  /\ ShipSound'
         /\ \A r \in shRecord' : r.hash \in 1..Len(shCommits')
         /\ \A s \in shScored' : s.hash \in 1..Len(shCommits')
<1>1. \A i \in 1..Len(shCommits) : i \in 1..Len(shCommits') /\ shCommits'[i] = shCommits[i]
  BY CommitsGrow
<1>2. /\ \A r \in shRecord : r.hash \in 1..Len(shCommits)
      /\ \A s \in shScored : s.hash \in 1..Len(shCommits)
  BY DEF ShipTypeOK
<1>3. TestedIsCommitted' /\ PrIsPushed' /\ CountedIsGood'
  BY <1>1, <1>2 DEF ShipSound, TestedIsCommitted, PrIsPushed, CountedIsGood
<1> QED
  BY <1>1, <1>2, <1>3 DEF ShipSound

\* The user and other processes: whatever they do is noticed in shMoved, or comes
\* before the command.
LEMMA ElsewhereKeeps ==
  ASSUME ShipInv, EditTree \/ StageByHand \/ CommitByHand \/ RemoteMoves \/ Pull
  PROVE  ShipInv'
<1> USE DEF ShipInv
<1>1. /\ shMoved' = (shAt # "idle")
      /\ UNCHANGED <<shUpstream, shSuite, shAt, shArgs, shSnap, shHash, shPr, shRecord, shScored>>
  BY DEF EditTree, StageByHand, CommitByHand, RemoteMoves, Pull, Elsewhere, shJob, shDone
<1>2. /\ shTree' \in Contents /\ shIndex' \in Contents /\ UNCHANGED shPushed
      /\ UNCHANGED shCommits \/ \E c \in Contents : shCommits' = Append(shCommits, c)
  BY ShipAssumption
     DEF EditTree, StageByHand, CommitByHand, RemoteMoves, Pull, ShipTypeOK, Contents
<1>3. shMoved' \in BOOLEAN
  BY <1>1, Zenon
<1>4. shCommits' \in Seq(Contents) /\ Len(shCommits') >= Len(shCommits)
  BY <1>2, CommitsGrow DEF ShipTypeOK
<1>5. ShipSound' /\ \A r \in shRecord' \cup shScored' : r.hash \in 1..Len(shCommits')
  BY <1>1, <1>2, SaidStays
<1>6. ShipTypeOK'
  BY <1>1, <1>2, <1>3, <1>4, <1>5 DEF ShipTypeOK
<1>7. StepOf'
  BY <1>1 DEF StepOf
<1>8. Unmoved'
  <2> SUFFICES ASSUME shAt = "idle" PROVE StillSo'
    BY <1>1 DEF Unmoved
  <2>1. shAt' = "idle" /\ shSnap'.tests = "not run"
    <3>1. UNCHANGED <<shAt, shSnap>>
      BY <1>1
    <3>2. shSnap = NoSnap
      BY DEF StepOf
    <3>3. NoSnap.tests = "not run"
      BY DEF NoSnap
    <3> QED
      BY <3>1, <3>2, <3>3
  <2> QED
    BY <2>1 DEF StillSo
<1> QED
  BY <1>5, <1>6, <1>7, <1>8

LEMMA ShipStartKeeps ==
  ASSUME ShipInv, NEW args \in Requests, ShipStart(args)
  PROVE  ShipInv'
<1> DEFINE tests == IF args.tests THEN Tests ELSE "not run"
           refused == Blocked(args, tests) \/ NothingToCommit(args)
<1> USE DEF ShipInv
<1>1. /\ shPr' = {} /\ shRecord' = {} /\ shScored' = {} /\ shMoved' = FALSE
      /\ UNCHANGED <<shTree, shIndex, shCommits, shPushed, shUpstream, shBehind, shConflict,
                     shSuite, shHash>>
  BY DEF ShipStart, shGit
<1>2. ShipSound'
  BY <1>1 DEF ShipSound, TestedIsCommitted, PrIsPushed, CountedIsGood
<1>3. CASE refused
  <2>1. shArgs' = NoArgs /\ shSnap' = NoSnap /\ shAt' = "idle"
    BY <1>3 DEF ShipStart
  <2>2. shSnap' \in [tests : TestWords, staged : BOOLEAN, clean : BOOLEAN]
    BY <2>1 DEF NoSnap, TestWords
  <2>3. ShipTypeOK'
    BY <1>1, <2>1, <2>2 DEF ShipTypeOK, ShipSteps
  <2>4. StepOf' /\ Unmoved'
    BY <1>1, <2>1 DEF StepOf, Unmoved, StillSo, NoSnap
  <2> QED
    BY <1>2, <2>3, <2>4
<1>4. CASE ~refused
  <2>1. /\ shArgs' = args
        /\ shSnap' = [tests |-> tests, staged |-> shTree = shIndex, clean |-> TreeClean]
        /\ shAt' = IF args.action = "commit" THEN IF args.all THEN "stage" ELSE "draft"
                   ELSE args.action
    BY <1>4 DEF ShipStart
  <2>2. args.action \in {"commit", "push", "pr"} /\ (args.action = "commit" => args.all \in BOOLEAN)
    BY DEF Requests
  <2>3. tests \in TestWords /\ (tests = "passed" => shTree \notin Broken) /\ (tests = "none" => ~shSuite)
    BY DEF Tests, TestWords
  <2>4. args.action = "pr" => shPushed = Len(shCommits)
    <3> SUFFICES ASSUME args.action = "pr" PROVE ~(Len(shCommits) - shPushed > 0)
      BY DEF ShipTypeOK
    <3> QED
      BY <1>4 DEF Blocked, Ahead
  <2>5. (shTree = shIndex) \in BOOLEAN /\ TreeClean \in BOOLEAN
    BY DEF TreeClean
  <2>6. shSnap' \in [tests : TestWords, staged : BOOLEAN, clean : BOOLEAN]
    BY <2>1, <2>3, <2>5
  <2>7. /\ shSnap'.tests = tests /\ (shSnap'.staged => shTree = shIndex)
        /\ shSnap'.clean => HeadContent = shTree
    BY <2>1 DEF TreeClean
  <2> HIDE DEF tests, refused
  <2>8. ShipTypeOK'
    BY <1>1, <2>1, <2>2, <2>6 DEF ShipTypeOK, ShipSteps
  <2>9. StepOf'
    BY <1>1, <2>1, <2>2, <2>3, <2>7 DEF StepOf
  <2>10. Unmoved'
    BY <1>1, <2>1, <2>2, <2>3, <2>4, <2>7 DEF Unmoved, StillSo, HeadContent
  <2> QED
    BY <1>2, <2>8, <2>9, <2>10
<1> QED
  BY <1>3, <1>4

\* A command that is over: by its last step, or refused by somebody.
LEMMA ShipOverKeeps ==
  ASSUME ShipTypeOK, ShipSound', ShipOver,
         UNCHANGED <<shTree, shIndex, shCommits, shPushed, shSuite>>,
         \A r \in shRecord' : r.hash \in 1..Len(shCommits),
         \A s \in shScored' : s.hash \in 1..Len(shCommits)
  PROVE  ShipInv'
<1>1. NoSnap \in [tests : TestWords, staged : BOOLEAN, clean : BOOLEAN]
  BY DEF NoSnap, TestWords
<1>4. shMoved' \in BOOLEAN
  BY Zenon DEF ShipOver
<1>2. ShipTypeOK'
  BY <1>1, <1>4 DEF ShipTypeOK, ShipOver, ShipSteps
<1>3. StepOf' /\ Unmoved'
  BY DEF StepOf, Unmoved, StillSo, ShipOver, NoSnap
<1> QED
  BY <1>2, <1>3 DEF ShipInv

LEMMA ShipStopsKeeps == ASSUME ShipInv, ShipStops PROVE ShipInv'
<1>1. ShipOver /\ UNCHANGED <<shTree, shIndex, shCommits, shPushed, shSuite, shPr, shRecord, shScored>>
  BY DEF ShipStops, shGit, shDone
<1>2. ShipSound' /\ \A r \in shRecord' \cup shScored' : r.hash \in 1..Len(shCommits')
  BY <1>1, SaidStays DEF ShipInv
<1> QED
  BY <1>1, <1>2, ShipOverKeeps DEF ShipInv

LEMMA StageAllKeeps == ASSUME ShipInv, StageAll \/ DraftCommit PROVE ShipInv'
<1> USE DEF ShipInv
<1>1. /\ shIndex' \in {shTree, shIndex} /\ (shAt = "stage" => shIndex' = shTree)
      /\ \/ shAt = "stage" /\ shAt' = "draft"
         \/ shAt = "draft" /\ shAt' = "commit" /\ shIndex' = shIndex
      /\ UNCHANGED <<shTree, shCommits, shPushed, shSuite, shArgs, shSnap, shHash, shPr, shRecord,
                     shScored, shMoved>>
  BY DEF StageAll, DraftCommit, shGit, shJob, shDone
<1>2. ShipTypeOK'
  BY <1>1 DEF ShipTypeOK, ShipSteps
<1>3. StepOf'
  BY <1>1 DEF StepOf
<1>4. Unmoved'
  BY <1>1 DEF Unmoved, StillSo
<1>5. ShipSound'
  BY <1>1, SaidStays
<1> QED
  BY <1>2, <1>3, <1>4, <1>5

LEMMA GitCommitKeeps == ASSUME ShipInv, GitCommit PROVE ShipInv'
<1> USE DEF ShipInv
<1>1. /\ shAt = "commit" /\ shAt' = "head" /\ shCommits' = Append(shCommits, shIndex)
      /\ UNCHANGED <<shTree, shIndex, shPushed, shSuite, shArgs, shSnap, shHash, shPr, shRecord,
                     shScored, shMoved>>
  BY DEF GitCommit, shJob, shDone
<1>2. shIndex \in Contents
  BY DEF ShipTypeOK
<1>3. /\ shCommits' \in Seq(Contents) /\ Len(shCommits') = Len(shCommits) + 1
      /\ HeadContent' = shIndex
  BY <1>1, <1>2, CommitsGrow
<1>4. ShipSound' /\ \A r \in shRecord' \cup shScored' : r.hash \in 1..Len(shCommits')
  BY <1>1, <1>2, SaidStays
<1>5. ShipTypeOK'
  BY <1>1, <1>3, <1>4 DEF ShipTypeOK, ShipSteps
<1>6. StepOf'
  BY <1>1 DEF StepOf
<1>7. Unmoved'
  BY <1>1, <1>3 DEF Unmoved, StillSo, StepOf
<1> QED
  BY <1>4, <1>5, <1>6, <1>7

LEMMA GitPushKeeps == ASSUME ShipInv, GitPush PROVE ShipInv'
<1> USE DEF ShipInv
<1>1. /\ shAt = "push" /\ shAt' = "head" /\ shPushed' = Len(shCommits)
      /\ UNCHANGED <<shTree, shIndex, shCommits, shSuite, shArgs, shSnap, shHash, shPr, shRecord,
                     shScored, shMoved>>
  BY DEF GitPush, shJob, shDone
<1>2. ShipTypeOK'
  BY <1>1 DEF ShipTypeOK, ShipSteps
<1>3. StepOf' /\ Unmoved'
  BY <1>1 DEF StepOf, Unmoved, StillSo
<1>4. ShipSound'
  BY <1>1, SaidStays
<1> QED
  BY <1>2, <1>3, <1>4

LEMMA ReadHeadKeeps == ASSUME ShipInv, ReadHead PROVE ShipInv'
<1> USE DEF ShipInv
<1>1. /\ \/ shAt = "head" /\ shAt' = "record"
         \/ shAt = "pr" /\ shAt' = "create"
      /\ shHash' = Len(shCommits)
      /\ UNCHANGED <<shTree, shIndex, shCommits, shPushed, shSuite, shArgs, shSnap, shPr, shRecord,
                     shScored, shMoved>>
  BY DEF ReadHead, shGit, shDone
<1>2. ShipTypeOK'
  BY <1>1 DEF ShipTypeOK, ShipSteps
<1>3. StepOf'
  BY <1>1 DEF StepOf, ShipTypeOK
<1>4. Unmoved'
  BY <1>1 DEF Unmoved, StillSo, StepOf, HeadContent, ShipTypeOK
<1>5. ShipSound'
  BY <1>1, SaidStays
<1> QED
  BY <1>2, <1>3, <1>4, <1>5

\* The PR that is made names a commit that the remote had, if nobody moved.
LEMMA CreatePrKeeps ==
  ASSUME ShipInv, NEW byGh \in BOOLEAN, CreatePr(byGh)
  PROVE  ShipInv'
<1> USE DEF ShipInv
<1>1. /\ shAt = "create" /\ shAt' = "record"
      /\ shPr' = {[hash |-> shHash, remote |-> shPushed, byGh |-> byGh, sure |-> ~shMoved]}
      /\ UNCHANGED <<shTree, shIndex, shCommits, shPushed, shSuite, shArgs, shSnap, shHash, shRecord,
                     shScored, shMoved>>
  BY DEF CreatePr, shGit, shJob
<1>2. ShipTypeOK'
  BY <1>1 DEF ShipTypeOK, ShipSteps
<1>3. StepOf'
  BY <1>1 DEF StepOf
<1>4. Unmoved'
  BY <1>1 DEF Unmoved, StillSo, StepOf
<1>5. PrIsPushed'
  <2> SUFFICES ASSUME NEW pr \in shPr', pr.sure PROVE pr.hash <= pr.remote
    BY DEF PrIsPushed
  <2>1. pr = [hash |-> shHash, remote |-> shPushed, byGh |-> byGh, sure |-> ~shMoved]
    BY <1>1
  <2>2. pr.hash = shHash /\ pr.remote = shPushed /\ pr.sure = (~shMoved)
    BY <2>1
  <2>3. ~shMoved
    BY <2>2, Zenon
  <2> QED
    BY <1>1, <2>2, <2>3 DEF Unmoved, StillSo
<1>6. TestedIsCommitted' /\ CountedIsGood'
  BY <1>1 DEF ShipSound, TestedIsCommitted, CountedIsGood
<1> QED
  BY <1>2, <1>3, <1>4, <1>5, <1>6 DEF ShipSound

\* The record of a commit whose tests passed: the commit is the tree that was tested.
LEMMA WriteRecordKeeps == ASSUME ShipInv, WriteRecord PROVE ShipInv'
<1> USE DEF ShipInv
<1>1. /\ shAt = "record"
      /\ shRecord' = {[action |-> shArgs.action, hash |-> shHash, tests |-> shSnap.tests,
                       sure |-> ~shMoved /\ (shArgs.all \/ shSnap.staged)]}
      /\ UNCHANGED <<shTree, shIndex, shCommits, shPushed, shSuite, shPr, shScored>>
  BY DEF WriteRecord, shGit
<1>2. shHash \in 1..Len(shCommits)
  BY <1>1 DEF ShipTypeOK, StepOf
<1>3. TestedIsCommitted'
  <2> SUFFICES ASSUME NEW r \in shRecord', r.action = "commit", r.sure, r.tests = "passed"
               PROVE  shCommits'[r.hash] \notin Broken
    BY DEF TestedIsCommitted
  <2>1. r = [action |-> shArgs.action, hash |-> shHash, tests |-> shSnap.tests,
             sure |-> ~shMoved /\ (shArgs.all \/ shSnap.staged)]
    BY <1>1
  <2>2. /\ r.hash = shHash /\ shArgs.action = "commit" /\ shSnap.tests = "passed"
        /\ r.sure = (~shMoved /\ (shArgs.all \/ shSnap.staged))
    BY <2>1
  <2>3. ~shMoved /\ (shArgs.all \/ shSnap.staged)
    BY <2>2, Zenon
  <2> QED
    BY <1>1, <2>2, <2>3 DEF Unmoved, StillSo
<1>4. ShipSound' /\ \A r \in shRecord' \cup shScored' : r.hash \in 1..Len(shCommits)
  BY <1>1, <1>2, <1>3 DEF ShipSound, PrIsPushed, CountedIsGood, ShipTypeOK
<1>5. CASE ShipOver
  BY <1>1, <1>4, <1>5, ShipOverKeeps
<1>6. CASE /\ shArgs.action = "pr" /\ shAt' = "score"
           /\ UNCHANGED <<shArgs, shSnap, shHash, shMoved>>
  <2>1. ShipTypeOK'
    BY <1>1, <1>4, <1>6 DEF ShipTypeOK, ShipSteps
  <2>2. StepOf' /\ Unmoved'
    BY <1>1, <1>6 DEF StepOf, Unmoved, StillSo
  <2> QED
    BY <1>4, <2>1, <2>2
<1> QED
  BY <1>5, <1>6 DEF WriteRecord, shJob

\* A PR counts only if the tests of the tree that was committed passed.
LEMMA ScoreKeeps ==
  ASSUME ShipInv, NEW url \in BOOLEAN, Score(url)
  PROVE  ShipInv'
<1> USE DEF ShipInv
<1> DEFINE byGh == \A pr \in shPr : pr.byGh
<1>1. /\ shAt = "score" /\ ShipOver
      /\ shScored' = {[counts |-> Counts(byGh, url, ~shSnap.clean), hash |-> shHash,
                       sure |-> ~shMoved /\ shSnap.clean]}
      /\ UNCHANGED <<shTree, shIndex, shCommits, shPushed, shSuite, shPr, shRecord>>
  BY DEF Score, shGit
<1>2. shHash \in 1..Len(shCommits) /\ shArgs.action = "pr"
  BY <1>1 DEF ShipTypeOK, StepOf
<1>3. CountedIsGood'
  <2> SUFFICES ASSUME NEW s \in shScored', s.counts, s.sure, shSuite
               PROVE  shCommits[s.hash] \notin Broken
    BY <1>1 DEF CountedIsGood
  <2> HIDE DEF byGh
  <2>4. s = [counts |-> Counts(byGh, url, ~shSnap.clean), hash |-> shHash,
             sure |-> ~shMoved /\ shSnap.clean]
    BY <1>1
  <2>5. /\ s.hash = shHash /\ s.sure = (~shMoved /\ shSnap.clean)
        /\ s.counts = Counts(byGh, url, ~shSnap.clean)
    BY <2>4
  <2>1. s.hash = shHash /\ ~shMoved /\ shSnap.clean /\ Counts(byGh, url, ~shSnap.clean)
    BY <2>5, Zenon
  <2>2. shSnap.tests \in {"passed", "none"}
    BY <2>1 DEF Counts
  <2>3. shSnap.tests = "passed"
    BY <2>2 DEF StepOf
  <2> QED
    BY <1>1, <1>2, <2>1, <2>3 DEF Unmoved, StillSo
<1>4. \A s \in shScored' : s.hash = shHash
  <2> HIDE DEF byGh
  <2> QED
    BY <1>1
<1>5. \A r \in shRecord' : r.hash \in 1..Len(shCommits)
  BY <1>1 DEF ShipTypeOK
<1>6. ShipSound'
  BY <1>1, <1>3 DEF ShipSound, PrIsPushed, TestedIsCommitted
<1> HIDE DEF byGh
<1> QED
  BY <1>1, <1>2, <1>4, <1>5, <1>6, ShipOverKeeps

\* ShipSound, of any number of edits, commits and users: a record that says tests passed
\* names a commit that passes them, a PR one that was pushed, and what counts is good.
THEOREM ShipAlwaysSound == ShSpec => []ShipSound
<1>1. ShipInv /\ [ShNext]_shVars => ShipInv'
  <2> SUFFICES ASSUME ShipInv, [ShNext]_shVars PROVE ShipInv'
    OBVIOUS
  <2>1. CASE UNCHANGED shVars
    <3> USE <2>1 DEF shVars, ShipInv
    <3>1. ShipTypeOK' /\ StepOf'
      BY DEF ShipTypeOK, StepOf
    <3>2. Unmoved'
      BY DEF Unmoved, StillSo, HeadContent
    <3>3. ShipSound'
      BY SaidStays
    <3> QED
      BY <3>1, <3>2, <3>3
  <2> QED
    BY <2>1, ElsewhereKeeps, ShipStartKeeps, ShipStopsKeeps, StageAllKeeps, GitCommitKeeps,
       GitPushKeeps, ReadHeadKeeps, CreatePrKeeps, WriteRecordKeeps, ScoreKeeps DEF ShNext
<1>2. ShipInv => ShipSound
  BY DEF ShipInv
<1> QED
  BY <1>1, <1>2, ShipInvInitially, PTL DEF ShSpec

-----------------------------------------------------------------------------
(* FileTools *)

IsDisk(disk) == disk = [path \in Paths |-> disk[path]]

\* An edit reaches the files its ops name and no other.
LEMMA EditReaches ==
    ASSUME NEW disk, IsDisk(disk), NEW call \in FtCalls, Planned(disk, call) # Bad
    PROVE  /\ IsDisk(Planned(disk, call))
           /\ \A path \in Paths \ Files(call.ops) : Planned(disk, call)[path] = disk[path]
<1> DEFINE op == call.ops[1]
           made == op.kind = "whole" \/ (op.kind = "create" /\ disk[op.path] = Missing /\ Len(call.ops) = 1)
<1>1. CASE made
  <2>1. Planned(disk, call) = [disk EXCEPT ![op.path] = op.new] BY <1>1 DEF Planned
  <2>2. 1 \in DOMAIN call.ops BY FtAssumption
  <2>3. op.path \in Files(call.ops) BY <2>2 DEF Files, ToSet
  <2>4. DOMAIN disk = Paths BY DEF IsDisk
  <2> HIDE DEF op
  <2>5. [disk EXCEPT ![op.path] = op.new] = [p \in Paths |-> [disk EXCEPT ![op.path] = op.new][p]] BY <2>4
  <2> QED BY <2>1, <2>3, <2>4, <2>5 DEF IsDisk
<1>2. CASE ~made
  <2>1. Planned(disk, call) = Edited(disk, call.ops) BY <1>2 DEF Planned
  <2> DEFINE texts == [path \in Files(call.ops) |->
                          IF disk[path] = Missing THEN Bad ELSE Rewritten(path, disk[path], call.ops)]
  <2>2. Planned(disk, call) = [path \in Paths |-> IF path \in Files(call.ops) THEN texts[path] ELSE disk[path]]
    BY <2>1 DEF Edited
  <2> HIDE DEF texts
  <2> QED BY <2>2 DEF IsDisk
<1> QED BY <1>1, <1>2

\* The files of a call are of the workspace, and those of a single edit are one.
LEMMA CallFiles ==
    ASSUME NEW call \in FtCalls
    PROVE  /\ Files(call.ops) \subseteq Paths
           /\ call.tool \in {"file_write", "file_edit"} => \A p, q \in Files(call.ops) : p = q
BY FtAssumption DEF Files, ToSet

\* Files nobody else has saved hold what the call found, while it only looks.
Looking == ftStep \in {"run", "again"} =>
    /\ ftCall \in FtCalls /\ ftSpoilt = {} /\ ftTried = {}
    /\ \A path \in Paths \ ftSaved : ftDisk[path] = ftFound[path]

\* What is written comes from what was read, and that is what the call found.
Working == ftStep \in {"write", "undo", "reread"} =>
    /\ ftCall \in FtCalls /\ ftCall.tool # "apply_patch"
    /\ IsDisk(ftRead) /\ Planned(ftRead, ftCall) # Bad /\ ftWork = Planned(ftRead, ftCall)
    /\ \A path \in Paths \ ftSaved : ftRead[path] = ftFound[path]

\* Of the files of the call some are written and the others not yet; of those to be
\* given back, those that are left are still as written.
Mixed(written) ==
    \A path \in Paths \ (ftSaved \cup ftSpoilt) :
        ftDisk[path] = IF path \in written THEN ftWork[path] ELSE ftRead[path]

Writing ==
    /\ ftStep = "write" => /\ ftSpoilt = {} /\ ftLeft \cup ftTried = Files(ftCall.ops) /\ ftLeft \cap ftTried = {}
                           /\ Mixed(ftTried)
    /\ ftStep = "undo" => /\ ftCall.tool = "batch_edit" /\ ftLeft \subseteq Files(ftCall.ops) /\ Mixed(ftLeft)
    /\ ftStep = "reread" => ftSpoilt = {} /\ Mixed(Files(ftCall.ops))

FtShape == IsDisk(ftDisk) /\ IsDisk(ftFound) /\ ftRuns \in Nat
           /\ ftStep \in {"idle", "run", "again", "write", "undo", "reread"}

FtInv == FtShape /\ Looking /\ Working /\ Writing /\ FilesSound

\* Initially no call has begun.
LEMMA FilesInitially == FtInit => FtInv
<1> SUFFICES ASSUME FtInit PROVE FtInv OBVIOUS
<1>1. IsDisk(ftDisk) /\ IsDisk(ftFound) BY DEF FtInit, IsDisk
<1>2. ~Over /\ ftStep = "idle" BY DEF FtInit, Over
<1> QED BY <1>1, <1>2 DEF FtInv, FtShape, Looking, Working, Writing, FilesSound, UnreportedIsUnchanged,
      AllOrNothing, FtInit

\* A file put in the place of one leaves the others.
LEMMA DiskKeeps ==
    ASSUME NEW disk, IsDisk(disk), NEW path \in Paths, NEW text
    PROVE  /\ IsDisk([disk EXCEPT ![path] = text])
           /\ [disk EXCEPT ![path] = text][path] = text
           /\ \A other \in Paths \ {path} : [disk EXCEPT ![path] = text][other] = disk[other]
<1>1. DOMAIN disk = Paths BY DEF IsDisk
<1>2. [disk EXCEPT ![path] = text] = [p \in Paths |-> IF p = path THEN text ELSE disk[p]] BY <1>1
<1> QED BY <1>2 DEF IsDisk

\* Disks that agree on every file are the same.
LEMMA SameDisk ==
    ASSUME NEW one, NEW two, IsDisk(one), IsDisk(two), \A path \in Paths : one[path] = two[path]
    PROVE  one = two
BY DEF IsDisk

LEMMA CallBeginKeeps == ASSUME FtInv, NEW call \in FtCalls, Begin(call) PROVE FtInv'
<1>1. ftStep' = "run" /\ ftDisk' = ftDisk /\ ftFound' = ftDisk /\ ftCall' = call /\ ftSpoilt' = {} /\ ftTried' = {} /\ ftRuns' = ftRuns + 1
  BY DEF Begin
<1>2. ~Over' BY <1>1 DEF Over
<1>3. FtShape' BY <1>1 DEF FtInv, FtShape
<1>4. Looking' BY <1>1 DEF Looking
<1>5. Working' /\ Writing' BY <1>1 DEF Working, Writing
<1> QED BY <1>2, <1>3, <1>4, <1>5 DEF FtInv, FilesSound, UnreportedIsUnchanged, AllOrNothing

\* A call that ends before it wrote leaves every file alone.
LEMMA EndsUnwritten ==
    ASSUME FtInv, ftStep \in {"run", "again"}, FtKept, ftDisk' = ftDisk, ftStep' = "idle"
    PROVE  FtInv'
<1>1. UNCHANGED <<ftCall, ftSpoilt, ftSaved, ftFound, ftRuns>> BY DEF FtKept
<1>2. \A path \in Paths \ ftSaved' : ftDisk'[path] = ftFound'[path] BY <1>1 DEF FtInv, Looking
<1>3. FtShape' BY <1>1 DEF FtInv, FtShape
<1>4. Looking' /\ Working' /\ Writing' BY DEF Looking, Working, Writing
<1>5. FilesSound' BY <1>2 DEF FilesSound, UnreportedIsUnchanged, AllOrNothing, Undisturbed
<1> QED BY <1>3, <1>4, <1>5 DEF FtInv

\* What is read is what the call found, save what somebody saved.
LEMMA ReadsKeeps ==
    ASSUME FtInv, ftStep \in {"run", "again"}, ftCall.tool # "apply_patch", ftTried = {},
           Planned(ftDisk, ftCall) # Bad, Reads, FtKept, ftDisk' = ftDisk
    PROVE  FtInv'
<1>1. /\ UNCHANGED <<ftCall, ftSpoilt, ftSaved, ftFound, ftRuns, ftTried>> /\ ftStep' = "write"
      /\ ftRead' = ftDisk /\ ftWork' = Planned(ftDisk, ftCall) /\ ftLeft' = Files(ftCall.ops)
  BY DEF FtKept, Reads, Go
<1>2. ftCall \in FtCalls /\ ftSpoilt = {} /\ \A path \in Paths \ ftSaved : ftDisk[path] = ftFound[path]
  BY DEF FtInv, Looking
<1>3. FtShape' BY <1>1 DEF FtInv, FtShape
<1>4. Looking' BY <1>1 DEF Looking
<1>5. Working' BY <1>1, <1>2, <1>3 DEF Working, FtShape
<1>6. Mixed(ftTried)' BY <1>1 DEF Mixed
<1>7. Writing' BY <1>1, <1>2, <1>6 DEF Writing
<1>8. ~Over' BY <1>1 DEF Over
<1> QED BY <1>3, <1>4, <1>5, <1>7, <1>8 DEF FtInv, FilesSound, UnreportedIsUnchanged, AllOrNothing

LEMMA LooksKeep == ASSUME FtInv, RunFile \/ Validate \/ RunBatch PROVE FtInv'
<1>1. FtKept /\ ftDisk' = ftDisk /\ ftStep \in {"run", "again"} BY DEF RunFile, Validate, RunBatch
<1>2. ASSUME NEW flag, NEW error, NEW failed, End(flag, error, failed) PROVE FtInv'
  BY <1>1, <1>2, EndsUnwritten DEF End
<1>3. ftTried = {} /\ ftTried' = {} BY <1>1 DEF FtInv, Looking, FtKept
<1>4. CASE RunFile
  <2>1. CASE Planned(ftDisk, ftCall) = Bad BY <1>2, <1>4, <2>1 DEF RunFile
  <2>2. CASE Planned(ftDisk, ftCall) # Bad
    <3>1. Reads /\ ftCall.tool # "apply_patch" BY <1>4, <2>2 DEF RunFile
    <3> QED BY <1>1, <1>3, <2>2, <3>1, ReadsKeeps
  <2> QED BY <2>1, <2>2
<1>5. CASE RunBatch
  <2>1. CASE Planned(ftDisk, ftCall) = Bad BY <1>2, <1>5, <2>1 DEF RunBatch
  <2>2. CASE Planned(ftDisk, ftCall) # Bad
    <3>1. Reads /\ ftCall.tool # "apply_patch" BY <1>5, <2>2 DEF RunBatch
    <3> QED BY <1>1, <1>3, <2>2, <3>1, ReadsKeeps
  <2> QED BY <2>1, <2>2
<1>6. CASE Validate
  <2>1. CASE ftStep' = "idle" BY <1>1, <2>1, EndsUnwritten
  <2>2. CASE ftStep' # "idle"
    <3>1. ftStep' = "again" BY <1>6, <2>2 DEF Validate, End, Go
    <3>2. UNCHANGED <<ftCall, ftSpoilt, ftSaved, ftFound, ftRuns, ftTried>> BY <1>1 DEF FtKept
    <3>3. FtShape' /\ Looking' BY <1>1, <3>1, <3>2 DEF FtInv, FtShape, Looking
    <3>4. Working' /\ Writing' /\ ~Over' BY <3>1 DEF Working, Writing, Over
    <3> QED BY <3>3, <3>4 DEF FtInv, FilesSound, UnreportedIsUnchanged, AllOrNothing
  <2> QED BY <2>1, <2>2
<1> QED BY <1>4, <1>5, <1>6

\* A patch is applied whole or not at all.
LEMMA FilePatchKeeps == ASSUME FtInv, RunPatch PROVE FtInv'
<1>1. FtKept /\ ftStep = "again" /\ ftStep' = "idle" /\ ftCall.tool = "apply_patch" BY DEF RunPatch, End
<1>2. CASE Planned(ftDisk, ftCall) = Bad BY <1>1, <1>2, EndsUnwritten DEF RunPatch
<1>3. CASE Planned(ftDisk, ftCall) # Bad
  <2>1. ftDisk' = Planned(ftDisk, ftCall) /\ ftOut' = [flag |-> TRUE, error |-> FALSE, failed |-> FALSE]
    BY <1>3 DEF RunPatch, End
  <2>2. UNCHANGED <<ftCall, ftSpoilt, ftSaved, ftFound, ftRuns>> BY <1>1 DEF FtKept
  <2>3. ftCall \in FtCalls /\ IsDisk(ftDisk) BY <1>1 DEF FtInv, FtShape, Looking
  <2>4. IsDisk(ftDisk') BY <1>3, <2>1, <2>3, EditReaches
  <2>5. FtShape' BY <1>1, <2>2, <2>4 DEF FtInv, FtShape, IsDisk
  <2>6. Looking' /\ Working' /\ Writing' BY <1>1 DEF Looking, Working, Writing
  <2>7. ReportsMutation' BY <2>1 DEF ReportsMutation
  <2>8. FilesSound' BY <1>1, <2>2, <2>7 DEF FilesSound, UnreportedIsUnchanged, AllOrNothing
  <2> QED BY <2>5, <2>6, <2>8 DEF FtInv
<1> QED BY <1>2, <1>3

\* What a write that goes well, is cut off or fails leaves in the files.
LEMMA WriteLeaves ==
    ASSUME IsDisk(ftDisk), NEW path \in Paths, NEW text, NEW outcome \in Outcomes, NEW spoils,
           Writes(path, text, outcome, spoils)
    PROVE  /\ IsDisk(ftDisk')
           /\ \A other \in Paths \ {path} : ftDisk'[other] = ftDisk[other]
           /\ outcome = "ok" => ftDisk'[path] = text
           /\ outcome = "clean" => ftDisk' = ftDisk
           /\ ftSpoilt' = IF outcome \in spoils THEN ftSpoilt \cup {path} ELSE ftSpoilt
           /\ UNCHANGED <<ftCall, ftSaved, ftFound, ftRuns>>
<1> DEFINE next == CASE outcome = "ok" -> text [] outcome = "torn" -> <<>> [] OTHER -> ftDisk[path]
<1>1. ftDisk' = [ftDisk EXCEPT ![path] = next] BY DEF Writes
<1>2. outcome = "ok" => next = text OBVIOUS
<1>3. outcome = "clean" => next = ftDisk[path] OBVIOUS
<1> HIDE DEF next
<1>4. IsDisk(ftDisk') BY <1>1, DiskKeeps
<1>5. outcome = "clean" => ftDisk' = ftDisk BY <1>1, <1>3, <1>4, DiskKeeps, SameDisk
<1> QED BY <1>1, <1>2, <1>4, <1>5, DiskKeeps DEF Writes, IsDisk

\* What is known while a call writes: the file in turn, what it holds and what it is to hold.
LEMMA FileWriteKeeps == ASSUME FtInv, Write PROVE FtInv'
<1>1. PICK path \in ftLeft, outcome \in Outcomes :
        /\ Writes(path, ftWork[path], outcome, {"torn"})
        /\ IF outcome = "ok"
           THEN /\ ftLeft' = ftLeft \ {path} /\ ftTried' = ftTried \cup {path}
                /\ Go(IF ftLeft' = {} THEN "reread" ELSE "write") /\ UNCHANGED <<ftRead, ftWork>>
           ELSE IF ftCall.tool = "batch_edit"
           THEN ftLeft' = ftTried /\ Go("undo") /\ UNCHANGED <<ftRead, ftWork, ftTried>>
           ELSE End(FALSE, TRUE, FALSE) /\ UNCHANGED ftTried
  BY DEF Write
<1>2. /\ ftCall \in FtCalls /\ ftSpoilt = {} /\ ftLeft \cup ftTried = Files(ftCall.ops) /\ ftLeft \cap ftTried = {}
      /\ Mixed(ftTried) /\ IsDisk(ftDisk) /\ IsDisk(ftRead)
      /\ Planned(ftRead, ftCall) # Bad /\ ftWork = Planned(ftRead, ftCall)
  BY DEF Write, FtInv, FtShape, Working, Writing
<1>3. Files(ftCall.ops) \subseteq Paths /\ path \in Paths /\ path \notin ftTried BY <1>1, <1>2, CallFiles
<1>4. UNCHANGED <<ftRead, ftWork>> BY <1>1 DEF End
<1>5. /\ IsDisk(ftDisk') /\ UNCHANGED <<ftCall, ftSaved, ftFound, ftRuns>>
      /\ \A other \in Paths \ {path} : ftDisk'[other] = ftDisk[other]
      /\ outcome = "ok" => ftDisk'[path] = ftWork[path]
      /\ outcome = "clean" => ftDisk' = ftDisk
      /\ ftSpoilt' = IF outcome \in {"torn"} THEN ftSpoilt \cup {path} ELSE ftSpoilt
  <2>1. Writes(path, ftWork[path], outcome, {"torn"}) /\ IsDisk(ftDisk) /\ path \in Paths /\ outcome \in Outcomes
    BY <1>1, <1>2, <1>3
  <2> QED BY ONLY <2>1, WriteLeaves, Zenon
<1>6. ftStep' \in {"idle", "write", "undo", "reread"} BY <1>1 DEF Go, End
<1>7. FtShape' BY <1>5, <1>6 DEF FtInv, FtShape, IsDisk
<1>8. Looking' BY <1>6 DEF Looking
<1>9. Working' BY <1>4, <1>5 DEF FtInv, Working, Write, IsDisk
<1>10. CASE outcome = "ok"
  <2>1. ftLeft' = ftLeft \ {path} /\ ftTried' = ftTried \cup {path} /\ ftSpoilt' = {}
        /\ ftStep' = IF ftLeft' = {} THEN "reread" ELSE "write"
    BY <1>1, <1>2, <1>5, <1>10 DEF Go
  <2>2. Mixed(ftTried)' BY <1>2, <1>3, <1>4, <1>5, <1>10, <2>1 DEF Mixed
  <2>3. ftLeft' \cup ftTried' = Files(ftCall.ops) /\ ftLeft' \cap ftTried' = {} BY <1>2, <2>1
  <2>4. Writing' BY <1>5, <2>1, <2>2, <2>3 DEF Writing, Mixed
  <2>5. ~Over' BY <2>1 DEF Over
  <2> QED BY <1>7, <1>8, <1>9, <2>4, <2>5 DEF FtInv, FilesSound, UnreportedIsUnchanged, AllOrNothing
<1>11. CASE outcome # "ok" /\ ftCall.tool = "batch_edit"
  <2>1. ftLeft' = ftTried /\ ftStep' = "undo" /\ outcome \in {"clean", "torn"}
    BY <1>1, <1>11 DEF Go, Outcomes
  <2>2. \A other \in Paths \ ftSpoilt' : ftDisk'[other] = ftDisk[other] BY <1>5, <2>1
  <2>3. Mixed(ftLeft)' BY <1>2, <1>4, <1>5, <2>1, <2>2 DEF Mixed
  <2>4. Writing' BY <1>2, <1>5, <1>11, <2>1, <2>3 DEF Writing
  <2>5. ~Over' BY <2>1 DEF Over
  <2> QED BY <1>7, <1>8, <1>9, <2>4, <2>5 DEF FtInv, FilesSound, UnreportedIsUnchanged, AllOrNothing
<1>12. CASE outcome # "ok" /\ ftCall.tool # "batch_edit"
  <2>1. ftStep' = "idle" /\ outcome \in {"clean", "torn"} BY <1>1, <1>12 DEF End, Outcomes
  <2>2. ftCall.tool \in {"file_write", "file_edit"}
    BY <1>2, <1>12, FtAssumption DEF FtInv, Working, Write
  <2>3. ftTried = {} BY <1>1, <1>2, <1>3, <2>2, CallFiles
  <2>4. \A other \in Paths \ ftSpoilt' : ftDisk'[other] = ftDisk[other] BY <1>5, <2>1
  <2>5. \A other \in Paths \ (ftSaved \cup ftSpoilt') : ftDisk'[other] = ftFound[other]
    BY <1>2, <2>3, <2>4 DEF Mixed, FtInv, Working, Write
  <2>6. FilesSound' BY <1>5, <1>12, <2>5 DEF FilesSound, UnreportedIsUnchanged, AllOrNothing, Undisturbed
  <2>7. Writing' BY <2>1 DEF Writing
  <2> QED BY <1>7, <1>8, <1>9, <2>6, <2>7 DEF FtInv
<1> QED BY <1>10, <1>11, <1>12

\* Nothing is left of a batch whose files were all given back.
LEMMA FileUndoKeeps == ASSUME FtInv, UndoWrites PROVE FtInv'
<1>1. /\ ftCall \in FtCalls /\ ftCall.tool = "batch_edit" /\ ftLeft \subseteq Files(ftCall.ops)
      /\ Mixed(ftLeft) /\ IsDisk(ftDisk) /\ IsDisk(ftRead) /\ ftStep = "undo"
  BY DEF UndoWrites, Restores, FtInv, FtShape, Working, Writing
<1>2. CASE ftLeft = {}
  <2>1. ftStep' = "idle" /\ ftOut' = [flag |-> TRUE, error |-> FALSE, failed |-> TRUE]
        /\ UNCHANGED <<ftDisk, ftCall, ftSpoilt, ftSaved, ftFound, ftRuns>>
    BY <1>2 DEF UndoWrites, Restores, End
  <2>2. \A path \in Paths \ (ftSaved \cup ftSpoilt) : ftDisk'[path] = ftFound'[path]
    BY <1>1, <1>2, <2>1 DEF Mixed, FtInv, Working
  <2>3. FilesSound' BY <2>1, <2>2 DEF FilesSound, UnreportedIsUnchanged, AllOrNothing, Undisturbed
  <2>4. FtShape' /\ Looking' /\ Working' /\ Writing'
    BY <2>1 DEF FtInv, FtShape, IsDisk, Looking, Working, Writing
  <2> QED BY <2>3, <2>4 DEF FtInv
<1>3. CASE ftLeft # {}
  <2>1. PICK path \in ftLeft, outcome \in Outcomes :
          /\ Writes(path, ftRead[path], outcome, {"clean", "torn"})
          /\ ftLeft' = ftLeft \ {path} /\ Go("undo") /\ UNCHANGED <<ftRead, ftWork>>
    BY <1>3 DEF UndoWrites, Restores
  <2>2. path \in Paths BY <1>1, CallFiles
  <2>3. /\ IsDisk(ftDisk') /\ UNCHANGED <<ftCall, ftSaved, ftFound, ftRuns>>
        /\ \A other \in Paths \ {path} : ftDisk'[other] = ftDisk[other]
        /\ outcome = "ok" => ftDisk'[path] = ftRead[path]
        /\ ftSpoilt' = IF outcome \in {"clean", "torn"} THEN ftSpoilt \cup {path} ELSE ftSpoilt
    BY <1>1, <2>1, <2>2, WriteLeaves
  <2>4. ftStep' = "undo" BY <2>1 DEF Go
  <2>5. Mixed(ftLeft)' BY <1>1, <2>1, <2>3 DEF Mixed, Outcomes
  <2>6. FtShape' BY <2>3, <2>4 DEF FtInv, FtShape, IsDisk
  <2>7. Looking' BY <2>4 DEF Looking
  <2>8. Working' BY <1>1, <2>1, <2>3, <2>4 DEF FtInv, Working, IsDisk
  <2>9. Writing' BY <1>1, <2>1, <2>3, <2>4, <2>5 DEF Writing
  <2>10. ~Over' BY <2>4 DEF Over
  <2> QED BY <2>6, <2>7, <2>8, <2>9, <2>10 DEF FtInv, FilesSound, UnreportedIsUnchanged, AllOrNothing
<1> QED BY <1>2, <1>3

\* All files are written: they hold what was planned from what the call found.
LEMMA FileFinishKeeps == ASSUME FtInv, Finish PROVE FtInv'
<1>1. /\ ftStep = "reread" /\ ftStep' = "idle" /\ ftOut' = [flag |-> TRUE, error |-> FALSE, failed |-> FALSE]
      /\ UNCHANGED <<ftDisk, ftCall, ftSpoilt, ftSaved, ftFound, ftRuns>>
  BY DEF Finish, End, FtKept
<1>2. /\ ftCall \in FtCalls /\ ftSpoilt = {} /\ Mixed(Files(ftCall.ops)) /\ IsDisk(ftFound) /\ IsDisk(ftRead)
      /\ Planned(ftRead, ftCall) # Bad /\ ftWork = Planned(ftRead, ftCall)
      /\ \A path \in Paths \ ftSaved : ftRead[path] = ftFound[path]
  BY <1>1 DEF FtInv, FtShape, Working, Writing
<1>3. \A path \in Paths \ ftSaved : ftDisk[path] = ftWork[path]
  BY <1>2, EditReaches DEF Mixed
<1>4. ftSaved = {} => ftRead = ftFound BY <1>2, SameDisk
<1>5. ftSaved = {} => \A path \in Paths : ftDisk[path] = Planned(ftFound, ftCall)[path] BY <1>2, <1>3, <1>4
<1>6. AllOrNothing' BY <1>1, <1>5 DEF AllOrNothing
<1>7. UnreportedIsUnchanged' BY <1>1 DEF UnreportedIsUnchanged, ReportsMutation
<1>8. FtShape' /\ Looking' /\ Working' /\ Writing' BY <1>1 DEF FtInv, FtShape, IsDisk, Looking, Working, Writing
<1> QED BY <1>6, <1>7, <1>8 DEF FtInv, FilesSound

\* What somebody saves is theirs.
LEMMA SomeoneSavesKeeps ==
    ASSUME FtInv, NEW path \in Paths, NEW text, SomeoneSaves(path, text) PROVE FtInv'
<1>1. /\ ftDisk' = [ftDisk EXCEPT ![path] = text] /\ ftSaved' = ftSaved \cup {path}
      /\ UNCHANGED <<ftCall, ftStep, ftRead, ftWork, ftLeft, ftTried, ftSpoilt, ftOut, ftFound, ftRuns>>
  BY DEF SomeoneSaves, ftRun
<1>2. IsDisk(ftDisk') /\ \A other \in Paths \ ftSaved' : ftDisk'[other] = ftDisk[other]
  BY <1>1, DiskKeeps DEF FtInv, FtShape, IsDisk
<1>3. FtShape' BY <1>1, <1>2 DEF FtInv, FtShape, IsDisk
<1>4. Looking' BY <1>1, <1>2 DEF FtInv, Looking
<1>5. Working' BY <1>1 DEF FtInv, Working, IsDisk
<1>6. Writing' BY <1>1, <1>2 DEF FtInv, Writing, Mixed
<1>7. FilesSound'
  BY <1>1, <1>2 DEF FtInv, FilesSound, UnreportedIsUnchanged, AllOrNothing, Over, Undisturbed, ReportsMutation
<1> QED BY <1>3, <1>4, <1>5, <1>6, <1>7 DEF FtInv

LEMMA FilesStep == FtInv /\ [FtNext]_ftVars => FtInv'
<1> SUFFICES ASSUME FtInv, [FtNext]_ftVars PROVE FtInv' OBVIOUS
<1>1. ASSUME NEW call \in FtCalls, Begin(call) PROVE FtInv' BY <1>1, CallBeginKeeps
<1>2. ASSUME RunFile \/ Validate \/ RunBatch PROVE FtInv' BY <1>2, LooksKeep
<1>3. ASSUME NEW path \in Paths, NEW text, SomeoneSaves(path, text) PROVE FtInv' BY <1>3, SomeoneSavesKeeps
<1>4. CASE UNCHANGED ftVars
  <2>1. UNCHANGED <<ftDisk, ftCall, ftStep, ftRead, ftWork, ftLeft, ftTried, ftSpoilt, ftSaved, ftOut, ftFound, ftRuns>>
    BY <1>4 DEF ftVars, ftRun
  <2>2. FtShape' /\ Looking' /\ Working' BY <2>1 DEF FtInv, FtShape, Looking, Working, IsDisk
  <2>3. Writing' BY <2>1 DEF FtInv, Writing, Mixed
  <2>4. FilesSound'
    BY <2>1 DEF FtInv, FilesSound, UnreportedIsUnchanged, AllOrNothing, Over, Undisturbed, ReportsMutation
  <2> QED BY <2>2, <2>3, <2>4 DEF FtInv
<1> QED BY <1>1, <1>2, <1>3, <1>4, FilePatchKeeps, FileWriteKeeps, FileUndoKeeps, FileFinishKeeps DEF FtNext

\* For any workspace, any calls and any saves of others in between: a call that reports no
\* change made none, and a batch is made in all of its files or in none.
THEOREM FilesAlwaysSound == FtSpec => []FilesSound
<1>1. FtInv => FilesSound BY DEF FtInv
<1> QED BY <1>1, FilesInitially, FilesStep, PTL DEF FtSpec

-----------------------------------------------------------------------------
(* Scorecard *)

Busy(p) == scAt[p] # "idle"
Sound(e) == e.at \notin scHurt

\* A line of the first n of a ledger that read_events reads.
IsRead(f, k, n) ==
    /\ k \in 1..n /\ f[k] # Eol
    /\ k = 1 \/ f[k - 1] = Eol
    /\ k = n \/ f[k + 1] = Eol

\* The lines of a kind and a branch that it reads, and the turns it finds open.
LinesOf(f, n, kind, branch) == {k \in 1..n : IsRead(f, k, n) /\ f[k].kind = kind /\ f[k].branch = branch}
OpenAt(f, n, branch) ==
    {f[k].at : k \in {t \in LinesOf(f, n, "turn", branch) : \A c \in LinesOf(f, n, "pr", branch) : f[t].at > f[c].at}}

\* Line k of ledger i is an event.
EventAt(i, k) == i \in DOMAIN scFiles /\ k \in DOMAIN scFiles[i] /\ scFiles[i][k] # Eol

ScType ==
    /\ scFiles \in Seq(Seq(ScEvents \cup {Eol})) /\ scFiles # <<>> /\ scStamps \in Nat
    /\ scAt \in [Writers -> {"idle", "read", "ask", "open", "write", "eol", "remove"}]
    /\ scEvent \in [Writers -> ScEvents] /\ scFd \in [Writers -> Nat]
    /\ \A p \in Writers :
         /\ scAt[p] \in {"write", "eol"} => scFd[p] \in DOMAIN scFiles
         /\ scAt[p] = "read" => scEvent[p].kind = "pr"
         /\ scAt[p] = "ask" => scEvent[p].kind = "check"

\* An operation that is not hurt is alone, and each has a stamp of its own.
Alone == \A p, q \in Writers : Busy(p) /\ Busy(q) /\ p # q =>
            ~ Sound(scEvent[p]) /\ scEvent[p].at # scEvent[q].at

\* What is not hurt is written in the order of the stamps.
StampsPast == \A i, k \in Nat : EventAt(i, k) => scFiles[i][k].at <= scStamps
LinesInOrder ==
    \A i, k, l \in Nat : EventAt(i, k) /\ EventAt(i, l) /\ k < l =>
        /\ scFiles[i][k].at # scFiles[i][l].at
        /\ Sound(scFiles[i][k]) \/ Sound(scFiles[i][l]) => scFiles[i][k].at < scFiles[i][l].at
Ready(p) ==
    Busy(p) => /\ scEvent[p].at \in 1..scStamps
               /\ scAt[p] # "eol" =>
                    \A i, k \in Nat : EventAt(i, k) =>
                       /\ scFiles[i][k].at # scEvent[p].at
                       /\ Sound(scFiles[i][k]) \/ Sound(scEvent[p]) => scFiles[i][k].at < scEvent[p].at

\* A close that is not hurt counts the turns that are open in what is before it.
ClosesCount ==
    \A i, k \in Nat : EventAt(i, k) /\ Sound(scFiles[i][k]) /\ scFiles[i][k].kind = "pr" =>
        scFiles[i][k].about = OpenAt(scFiles[i], k - 1, scFiles[i][k].branch)
Counting(p) ==
    /\ scAt[p] \in {"open", "write"} /\ Sound(scEvent[p]) /\ scEvent[p].kind = "pr" =>
          scEvent[p].about = OpenAt(Ledger, Len(Ledger), scEvent[p].branch)
    /\ scAt[p] \in {"write", "eol"} /\ Sound(scEvent[p]) => scFd[p] = Len(scFiles)

\* An event that is not hurt is a line of its own, or its end of line is about to come.
OwnLine ==
    \A i, k \in Nat : EventAt(i, k) /\ Sound(scFiles[i][k]) =>
       /\ k = 1 \/ scFiles[i][k - 1] = Eol
       /\ IF k = Len(scFiles[i]) THEN \E p \in Writers : scAt[p] = "eol" /\ scEvent[p] = scFiles[i][k] /\ scFd[p] = i
          ELSE scFiles[i][k + 1] = Eol

\* What is not hurt is copied before it is removed.
BackedUp(e) == \E backup \in scBackups : e \in EventsOf(backup)
RemovedIsCopied ==
    \A i, k \in Nat : EventAt(i, k) /\ i < Len(scFiles) /\ Sound(scFiles[i][k]) => BackedUp(scFiles[i][k])
Copied(p) ==
    scAt[p] = "remove" =>
       \A k \in Nat : EventAt(Len(scFiles), k) /\ Sound(Ledger[k]) => BackedUp(Ledger[k])

LedgersInv == StampsPast /\ LinesInOrder /\ ClosesCount /\ RemovedIsCopied
WriterInv(p) == Ready(p) /\ Counting(p) /\ Copied(p)
ScInv == ScType /\ Alone /\ LedgersInv /\ OwnLine /\ \A p \in Writers : WriterInv(p)

\* What is read of the beginning of a ledger does not depend on what follows.
LEMMA ReadsBegin ==
    ASSUME NEW S, NEW f \in Seq(S), NEW line \in S, NEW n \in 0..Len(f)
    PROVE  /\ Append(f, line) \in Seq(S) /\ Len(Append(f, line)) = Len(f) + 1
           /\ Append(f, line)[Len(f) + 1] = line
           /\ \A k \in 1..Len(f) : Append(f, line)[k] = f[k]
           /\ \A branch : OpenAt(Append(f, line), n, branch) = OpenAt(f, n, branch)
<1>1. /\ Append(f, line) \in Seq(S) /\ Len(Append(f, line)) = Len(f) + 1
      /\ Append(f, line)[Len(f) + 1] = line
      /\ \A k \in 1..Len(f) : Append(f, line)[k] = f[k]
  OBVIOUS
<1> DEFINE g == Append(f, line)
<1> HIDE DEF g
<1>2. \A k \in 1..n : g[k] = f[k] BY <1>1 DEF g
<1>3. \A k \in 1..n : IsRead(g, k, n) <=> IsRead(f, k, n)
  <2> TAKE k \in 1..n
  <2>1. k # n => k + 1 \in 1..n OBVIOUS
  <2>2. k # 1 => k - 1 \in 1..n OBVIOUS
  <2> QED BY <1>2, <2>1, <2>2 DEF IsRead
<1>4. \A kind, branch : LinesOf(g, n, kind, branch) = LinesOf(f, n, kind, branch)
  BY <1>2, <1>3 DEF LinesOf
<1>5. \A kind, branch : LinesOf(f, n, kind, branch) \subseteq 1..n BY DEF LinesOf
<1>6. \A branch : OpenAt(g, n, branch) = OpenAt(f, n, branch)
  <2> TAKE branch
  <2> DEFINE turns == LinesOf(f, n, "turn", branch)
             closes == LinesOf(f, n, "pr", branch)
  <2>1. turns \subseteq 1..n /\ closes \subseteq 1..n BY <1>5
  <2>2. OpenAt(g, n, branch) = {g[k].at : k \in {t \in turns : \A c \in closes : g[t].at > g[c].at}}
    BY <1>4 DEF OpenAt
  <2>3. OpenAt(f, n, branch) = {f[k].at : k \in {t \in turns : \A c \in closes : f[t].at > f[c].at}}
    BY DEF OpenAt
  <2> HIDE DEF turns, closes
  <2> QED BY <1>2, <2>1, <2>2, <2>3
<1> QED BY <1>1, <1>6 DEF g

\* The events of a ledger and the turns that are open in it, by their lines.
LEMMA EventsAreRead ==
    ASSUME NEW f \in Seq(ScEvents \cup {Eol})
    PROVE  EventsOf(f) = {f[k] : k \in {l \in 1..Len(f) : IsRead(f, l, Len(f))}}
BY DEF EventsOf, IsRead

LEMMA LedgerIsFile ==
    ASSUME ScType
    PROVE  /\ Len(scFiles) \in Nat \ {0} /\ DOMAIN scFiles = 1..Len(scFiles) /\ Ledger = scFiles[Len(scFiles)]
           /\ Ledger \in Seq(ScEvents \cup {Eol})
           /\ \A i \in DOMAIN scFiles : scFiles[i] \in Seq(ScEvents \cup {Eol}) /\ DOMAIN scFiles[i] = 1..Len(scFiles[i])
           /\ \A i, k \in Nat : EventAt(i, k) => scFiles[i][k] \in ScEvents
<1>1. scFiles \in Seq(Seq(ScEvents \cup {Eol})) /\ scFiles # <<>> BY DEF ScType
<1>2. Len(scFiles) \in Nat \ {0} /\ DOMAIN scFiles = 1..Len(scFiles) BY <1>1
<1>3. Ledger = scFiles[Len(scFiles)] BY DEF Ledger, Last
<1>4. \A i \in DOMAIN scFiles : scFiles[i] \in Seq(ScEvents \cup {Eol}) BY <1>1
<1>5. \A i \in DOMAIN scFiles : DOMAIN scFiles[i] = 1..Len(scFiles[i]) /\ Len(scFiles[i]) \in Nat BY <1>4
<1>6. Len(scFiles) \in DOMAIN scFiles BY <1>2
<1>7. ASSUME NEW i, NEW k, EventAt(i, k) PROVE scFiles[i][k] \in ScEvents
  <2>1. scFiles[i] \in Seq(ScEvents \cup {Eol}) /\ k \in DOMAIN scFiles[i] /\ scFiles[i][k] # Eol
    BY <1>4, <1>7 DEF EventAt
  <2>2. scFiles[i][k] \in ScEvents \cup {Eol} BY <2>1
  <2> QED BY <2>1, <2>2
<1> QED BY <1>2, <1>3, <1>4, <1>5, <1>6, <1>7

LEMMA OpenTurnsAreOpen ==
    ASSUME ScType, NEW branch
    PROVE  {t.at : t \in OpenTurns(branch)} = OpenAt(Ledger, Len(Ledger), branch)
<1> DEFINE f == Ledger
           lines(kind) == LinesOf(f, Len(f), kind, branch)
<1>1. f \in Seq(ScEvents \cup {Eol}) BY LedgerIsFile
<1>2. Events = {f[k] : k \in {l \in 1..Len(f) : IsRead(f, l, Len(f))}} BY <1>1, EventsAreRead DEF Events
<1> HIDE DEF f
<1>3. \A kind : Of(kind, branch) = {f[k] : k \in lines(kind)} BY <1>2 DEF Of, LinesOf
<1>4. {t.at : t \in OpenTurns(branch)} = {f[k].at : k \in {t \in lines("turn") : \A c \in lines("pr") : f[t].at > f[c].at}}
  BY <1>3 DEF OpenTurns
<1> QED BY <1>4 DEF OpenAt, f

\* A set of lines has a first one.
LEMMA LeastLine == ASSUME NEW S, S \subseteq Nat, S # {} PROVE \E m \in S : \A k \in S : m <= k
<1> DEFINE R == {ss \in Nat \X Nat : ss[1] < ss[2]}
<1>1. IsWellFoundedOn(R, Nat) BY NatLessThanWellFounded DEF OpToRel
<1>2. \E m \in S : \A k \in S : <<k, m>> \notin R
  <2> HIDE DEF R
  <2> QED BY <1>1, WFMin
<1>3. PICK m \in S : \A k \in S : <<k, m>> \notin R BY <1>2
<1>4. ASSUME NEW k \in S PROVE m <= k
  <2>1. k \in Nat /\ m \in Nat OBVIOUS
  <2>2. ~(k < m) BY <1>3, <2>1
  <2> QED BY <2>1, <2>2
<1> QED BY <1>4

\* A close that was read, and is not hurt, counts the open turns among the lines before it
\* that are still read.
LEMMA LinesBefore ==
    ASSUME NEW f, NEW n \in Nat, NEW l \in 1..n, IsRead(f, l, n), NEW kind, NEW branch
    PROVE  LinesOf(f, l - 1, kind, branch) = {j \in LinesOf(f, n, kind, branch) : j < l}
<1>1. ASSUME NEW j \in 1..(l - 1), IsRead(f, j, l - 1) PROVE IsRead(f, j, n)
  <2>1. j # l - 1 BY <1>1 DEF IsRead
  <2> QED BY <1>1, <2>1 DEF IsRead
<1>2. ASSUME NEW j \in 1..(l - 1), IsRead(f, j, n) PROVE IsRead(f, j, l - 1)
  <2>1. j # n OBVIOUS
  <2> QED BY <1>2, <2>1 DEF IsRead
<1>3. 1..(l - 1) = {j \in 1..n : j < l} OBVIOUS
<1> QED BY <1>1, <1>2, <1>3 DEF LinesOf

LEMMA CountsOnce == ASSUME ScInv PROVE CountedOnce
<1> SUFFICES ASSUME NEW b \in Branches, NEW t \in Of("turn", b),
                    {e.at : e \in {c \in Of("pr", b) : t.at \in c.about} \cup {t} \cup Of("pr", b)} \cap scHurt = {}
             PROVE  LET counted == {c \in Of("pr", b) : t.at \in c.about} IN
                    IF t \in OpenTurns(b) THEN counted = {} ELSE Cardinality(counted) = 1
  BY DEF CountedOnce
<1> DEFINE f == Ledger
           n == Len(f)
           turns == LinesOf(f, n, "turn", b)
           closes == LinesOf(f, n, "pr", b)
           counted == {c \in Of("pr", b) : t.at \in c.about}
<1>1. /\ Len(scFiles) \in Nat /\ Len(scFiles) \in DOMAIN scFiles /\ f = scFiles[Len(scFiles)]
      /\ f \in Seq(ScEvents \cup {Eol}) /\ n \in Nat /\ DOMAIN f = 1..n
      /\ \A i, k \in Nat : EventAt(i, k) => scFiles[i][k] \in ScEvents
  BY LedgerIsFile DEF ScInv
<1>2. Events = {f[k] : k \in {l \in 1..n : IsRead(f, l, n)}} BY <1>1, EventsAreRead DEF Events
<1> HIDE DEF f
<1>3. Of("turn", b) = {f[k] : k \in turns} /\ Of("pr", b) = {f[k] : k \in closes} BY <1>2 DEF Of, LinesOf
<1>4. PICK k \in turns : t = f[k] BY <1>3
<1>5. Sound(f[k]) /\ \A c \in closes : Sound(f[c]) BY <1>3, <1>4 DEF Sound
<1>6. turns \subseteq 1..n /\ closes \subseteq 1..n /\ \A l \in turns \cup closes : IsRead(f, l, n)
  BY DEF LinesOf
<1>7. /\ \A l \in turns : f[l].kind = "turn" /\ EventAt(Len(scFiles), l) /\ f[l].at \in Nat
      /\ \A l \in closes : f[l].kind = "pr" /\ f[l].branch = b /\ EventAt(Len(scFiles), l) /\ f[l].at \in Nat
  <2>1. \A l \in turns \cup closes : EventAt(Len(scFiles), l) BY <1>1, <1>6 DEF EventAt, IsRead
  <2>2. \A l \in turns \cup closes : f[l] \in ScEvents BY <1>1, <1>6, <2>1
  <2> QED BY <2>1, <2>2 DEF LinesOf, ScEvents
<1>8. \A j, l \in turns \cup closes : j < l =>
         f[j].at # f[l].at /\ (Sound(f[j]) \/ Sound(f[l]) => f[j].at < f[l].at)
  <2> TAKE j, l \in turns \cup closes
  <2> HAVE j < l
  <2>1. EventAt(Len(scFiles), j) /\ EventAt(Len(scFiles), l) BY <1>7
  <2>2. j \in Nat /\ l \in Nat BY <1>1, <1>6
  <2>3. LinesInOrder BY DEF ScInv, LedgersInv
  <2> HIDE DEF n, turns, closes
  <2> QED BY <1>1, <2>1, <2>2, <2>3 DEF LinesInOrder
<1>9. \A c \in closes : k # c /\ (f[k].at > f[c].at <=> c < k)
  BY <1>5, <1>6, <1>7, <1>8
<1>10. \A l \in closes : t.at \in f[l].about <=> k < l /\ \A c \in closes : c < l => c < k
  <2> TAKE l \in closes
  <2>1. f[l].about = OpenAt(f, l - 1, b) BY <1>1, <1>5, <1>6, <1>7 DEF ScInv, LedgersInv, ClosesCount
  <2>2. LinesOf(f, l - 1, "turn", b) = {j \in turns : j < l} /\ LinesOf(f, l - 1, "pr", b) = {j \in closes : j < l}
    <3>1. l \in 1..n /\ IsRead(f, l, n) /\ n \in Nat BY <1>1, <1>6
    <3>2. \A kind : LinesOf(f, l - 1, kind, b) = {j \in LinesOf(f, n, kind, b) : j < l}
      BY ONLY <3>1, LinesBefore
    <3> QED BY <3>2
  <2>3. f[l].about = {f[j].at : j \in {i \in turns : i < l /\ \A c \in closes : c < l => f[i].at > f[c].at}}
    BY <2>1, <2>2 DEF OpenAt
  <2>4. \A j \in turns : f[j].at = f[k].at => j = k BY <1>4, <1>6, <1>8
  <2>5. t.at \in f[l].about <=> k < l /\ \A c \in closes : c < l => f[k].at > f[c].at
    BY <1>4, <2>3, <2>4
  <2> QED BY <1>9, <2>5
<1>11. t \in OpenTurns(b) <=> \A c \in closes : c < k
  BY <1>3, <1>4, <1>9 DEF OpenTurns
<1>12. counted = {f[l] : l \in {c \in closes : t.at \in f[c].about}} BY <1>3
<1>13. CASE t \in OpenTurns(b)
  <2>1. \A l \in closes : ~(t.at \in f[l].about) BY <1>6, <1>10, <1>11, <1>13
  <2> QED BY <1>12, <1>13, <2>1
<1>14. CASE t \notin OpenTurns(b)
  <2> DEFINE later == {c \in closes : k < c}
  <2>1. later # {} /\ later \subseteq Nat BY <1>6, <1>9, <1>11, <1>14
  <2>2. PICK first \in later : \A c \in later : first <= c BY <2>1, LeastLine
  <2>3. \A l \in closes : t.at \in f[l].about <=> l = first
    BY <1>6, <1>9, <1>10, <2>2
  <2>4. counted = {f[first]} BY <1>12, <2>2, <2>3
  <2>5. Cardinality(counted) = 1 BY <2>4, FS_Singleton
  <2> QED BY <1>14, <2>5
<1> QED BY <1>13, <1>14

LEMMA KeepsLedger == ASSUME ScInv PROVE LedgerKept
<1> SUFFICES ASSUME NEW i \in DOMAIN scFiles, NEW e \in Range(scFiles[i]) \ {Eol}, e.at \notin scHurt
             PROVE  e \in Events \cup UNION {EventsOf(backup) : backup \in scBackups}
  BY DEF LedgerKept
<1>1. /\ Len(scFiles) \in Nat /\ DOMAIN scFiles = 1..Len(scFiles) /\ Ledger = scFiles[Len(scFiles)]
      /\ scFiles[i] \in Seq(ScEvents \cup {Eol}) /\ DOMAIN scFiles[i] = 1..Len(scFiles[i])
  BY LedgerIsFile DEF ScInv
<1>2. PICK k \in DOMAIN scFiles[i] : e = scFiles[i][k] BY DEF Range
<1>3. i \in Nat /\ k \in Nat /\ EventAt(i, k) /\ Sound(scFiles[i][k]) BY <1>1, <1>2 DEF EventAt, Sound
<1>4. CASE i < Len(scFiles) BY <1>2, <1>3, <1>4 DEF ScInv, LedgersInv, RemovedIsCopied, BackedUp
<1>5. CASE i = Len(scFiles)
  <2>1. IsRead(scFiles[i], k, Len(scFiles[i])) BY <1>1, <1>2, <1>3 DEF ScInv, OwnLine, IsRead
  <2>2. e \in EventsOf(scFiles[i]) BY <1>1, <1>2, <2>1, EventsAreRead
  <2> QED BY <1>1, <1>5, <2>2 DEF Events
<1> QED BY <1>1, <1>4, <1>5

-----------------------------------------------------------------------------
(* Steps that leave the ledgers, and a process that makes none. *)

Still == /\ scFiles' = scFiles /\ scBackups \subseteq scBackups' /\ scHurt \subseteq scHurt'
         /\ scStamps' \in {scStamps, scStamps + 1}
Same(q) == scAt'[q] = scAt[q] /\ scEvent'[q] = scEvent[q] /\ scFd'[q] = scFd[q]

LEMMA StillFacts ==
    ASSUME ScInv, Still
    PROVE  /\ Ledger' = Ledger /\ \A i, k : EventAt(i, k)' <=> EventAt(i, k)
           /\ \A e : Sound(e)' => Sound(e)
           /\ \A e : BackedUp(e) => BackedUp(e)'
           /\ scStamps' \in Nat /\ scStamps' >= scStamps
<1>1. Ledger' = Ledger BY DEF Still, Ledger
<1>2. \A i, k : EventAt(i, k)' <=> EventAt(i, k) BY DEF Still, EventAt
<1>3. \A e : e.at \notin scHurt' => e.at \notin scHurt BY DEF Still
<1>4. \A e : BackedUp(e) => BackedUp(e)' BY DEF Still, BackedUp
<1>5. scStamps' \in Nat /\ scStamps' >= scStamps BY DEF Still, ScInv, ScType
<1> QED BY <1>1, <1>2, <1>3, <1>4, <1>5 DEF Sound

LEMMA StillLedgers == ASSUME ScInv, Still PROVE LedgersInv'
<1>1. /\ Ledger' = Ledger /\ \A i, k : EventAt(i, k)' <=> EventAt(i, k)
      /\ \A e : Sound(e)' => Sound(e)
      /\ \A e : BackedUp(e) => BackedUp(e)'
      /\ scStamps' \in Nat /\ scStamps' >= scStamps
  BY StillFacts
<1>2. scFiles' = scFiles /\ scStamps \in Nat BY DEF Still, ScInv, ScType
<1>3. \A i, k \in Nat : EventAt(i, k) => scFiles[i][k].at \in Nat
  BY LedgerIsFile DEF ScInv, ScEvents
<1>4. StampsPast' BY <1>1, <1>2, <1>3 DEF ScInv, LedgersInv, StampsPast
<1>5. LinesInOrder'
  <2> SUFFICES ASSUME NEW i \in Nat, NEW k \in Nat, NEW l \in Nat, EventAt(i, k)', EventAt(i, l)', k < l
               PROVE  /\ scFiles'[i][k].at # scFiles'[i][l].at
                      /\ Sound(scFiles[i][k])' \/ Sound(scFiles[i][l])' => scFiles'[i][k].at < scFiles'[i][l].at
    BY DEF LinesInOrder
  <2> QED BY <1>1, <1>2 DEF ScInv, LedgersInv, LinesInOrder
<1>6. ClosesCount'
  <2> SUFFICES ASSUME NEW i \in Nat, NEW k \in Nat, EventAt(i, k)', Sound(scFiles[i][k])', scFiles'[i][k].kind = "pr"
               PROVE  scFiles'[i][k].about = OpenAt(scFiles'[i], k - 1, scFiles'[i][k].branch)
    BY DEF ClosesCount
  <2> QED BY <1>1, <1>2 DEF ScInv, LedgersInv, ClosesCount
<1>7. RemovedIsCopied'
  <2> SUFFICES ASSUME NEW i \in Nat, NEW k \in Nat, EventAt(i, k)', i < Len(scFiles'), Sound(scFiles[i][k])'
               PROVE  BackedUp(scFiles[i][k])'
    BY DEF RemovedIsCopied
  <2> QED BY <1>1, <1>2 DEF ScInv, LedgersInv, RemovedIsCopied
<1> QED BY <1>4, <1>5, <1>6, <1>7 DEF LedgersInv

LEMMA StillWriter == ASSUME ScInv, Still, NEW q \in Writers, Same(q) PROVE WriterInv(q)'
<1>1. /\ Ledger' = Ledger /\ \A i, k : EventAt(i, k)' <=> EventAt(i, k)
      /\ \A e : Sound(e)' => Sound(e)
      /\ \A e : BackedUp(e) => BackedUp(e)'
      /\ scStamps' \in Nat /\ scStamps' >= scStamps
  BY StillFacts
<1>2. scFiles' = scFiles /\ scStamps \in Nat BY DEF Still, ScInv, ScType
<1>3. scAt'[q] = scAt[q] /\ scEvent'[q] = scEvent[q] /\ scFd'[q] = scFd[q] BY DEF Same
<1>4. Ready(q) /\ Counting(q) /\ Copied(q) BY DEF ScInv, WriterInv
<1>5. Ready(q)'
  <2>1. Busy(q)' => Busy(q) /\ scEvent'[q].at \in 1..scStamps' BY <1>1, <1>2, <1>3, <1>4 DEF Ready, Busy
  <2>2. ASSUME Busy(q)', scAt'[q] # "eol", NEW i \in Nat, NEW k \in Nat, EventAt(i, k)'
        PROVE  /\ scFiles'[i][k].at # scEvent'[q].at
               /\ Sound(scFiles[i][k])' \/ Sound(scEvent[q])' => scFiles'[i][k].at < scEvent'[q].at
    BY <1>1, <1>2, <1>3, <1>4, <2>1, <2>2 DEF Ready
  <2> QED BY <2>1, <2>2 DEF Ready
<1>6. Counting(q)'
  <2>1. Sound(scEvent[q])' => Sound(scEvent[q]) BY <1>1, <1>3
  <2> QED BY <1>1, <1>2, <1>3, <1>4, <2>1 DEF Counting
<1>7. Copied(q)'
  <2> SUFFICES ASSUME scAt'[q] = "remove", NEW k \in Nat, EventAt(Len(scFiles), k)', Sound(Ledger[k])'
               PROVE  BackedUp(Ledger[k])'
    BY DEF Copied
  <2> QED BY <1>1, <1>2, <1>3, <1>4 DEF Copied
<1> QED BY <1>5, <1>6, <1>7 DEF WriterInv

\* The one whose end of line is about to come stays there, or is hurt.
LEMMA StillOwnLine ==
    ASSUME ScInv, Still, \A q \in Writers : scAt[q] = "eol" => Same(q) \/ scEvent[q].at \in scHurt'
    PROVE  OwnLine'
<1>1. /\ \A i, k : EventAt(i, k)' <=> EventAt(i, k)
      /\ \A e : Sound(e)' => Sound(e)
  BY StillFacts
<1>2. scFiles' = scFiles BY DEF Still
<1> SUFFICES ASSUME NEW i \in Nat, NEW k \in Nat, EventAt(i, k)', Sound(scFiles[i][k])'
             PROVE  /\ k = 1 \/ scFiles'[i][k - 1] = Eol
                    /\ IF k = Len(scFiles'[i])
                       THEN \E p \in Writers : scAt'[p] = "eol" /\ scEvent'[p] = scFiles'[i][k] /\ scFd'[p] = i
                       ELSE scFiles'[i][k + 1] = Eol
  BY DEF OwnLine
<1>3. EventAt(i, k) /\ Sound(scFiles[i][k]) BY <1>1, <1>2
<1>4. k = 1 \/ scFiles'[i][k - 1] = Eol BY <1>2, <1>3 DEF ScInv, OwnLine
<1>5. CASE k # Len(scFiles[i]) BY <1>2, <1>3, <1>4, <1>5 DEF ScInv, OwnLine
<1>6. CASE k = Len(scFiles[i])
  <2>1. PICK p \in Writers : scAt[p] = "eol" /\ scEvent[p] = scFiles[i][k] /\ scFd[p] = i
    BY <1>3, <1>6 DEF ScInv, OwnLine
  <2>2. scEvent[p].at \notin scHurt' BY <1>2, <2>1 DEF Sound
  <2>3. Same(p) BY <2>1, <2>2
  <2> QED BY <1>2, <1>4, <1>6, <2>1, <2>3 DEF Same
<1> QED BY <1>5, <1>6

-----------------------------------------------------------------------------
(* What each step of a process keeps. *)

\* Of two processes at work neither is unhurt, and one that begins has the latest stamp.
LEMMA StampsKeep ==
    ASSUME ScInv, NEW p \in Writers, NEW kind \in {"turn", "pr", "check", "reset"}, NEW branch \in Branches,
           NEW about \in SUBSET Nat, NEW to \in {"read", "ask", "open", "remove"},
           ScBegin(p, kind, branch, about, to), scFiles' = scFiles, scBackups \subseteq scBackups', scFd' = scFd,
           (to = "read" => kind = "pr") /\ (to = "ask" => kind = "check") /\ (to = "open" => kind # "pr"),
           to = "remove" => Ledger \in scBackups'
    PROVE  ScInv'
<1> DEFINE new == [kind |-> kind, at |-> scStamps + 1, branch |-> branch, about |-> about]
           others == {q \in Writers \ {p} : scAt[q] # "idle"}
<1>1. /\ scAt[p] = "idle" /\ scAt' = [scAt EXCEPT ![p] = to] /\ scStamps' = scStamps + 1
      /\ scEvent' = [scEvent EXCEPT ![p] = new] /\ scHurt \subseteq scHurt'
      /\ others # {} => scStamps + 1 \in scHurt' /\ \A q \in others : scEvent[q].at \in scHurt'
  BY DEF ScBegin
<1>2. /\ scStamps \in Nat /\ new \in ScEvents /\ new.at = scStamps + 1 /\ new.kind = kind
  BY DEF ScInv, ScType, ScEvents
<1>3. /\ scAt \in [Writers -> {"idle", "read", "ask", "open", "write", "eol", "remove"}]
      /\ scEvent \in [Writers -> ScEvents] /\ scFd \in [Writers -> Nat]
  BY DEF ScInv, ScType
<1> HIDE DEF new
<1>4. scAt'[p] = to /\ scEvent'[p] = new /\ \A q \in Writers \ {p} : Same(q) BY <1>1, <1>3 DEF Same
<1>5. Still BY <1>1 DEF Still
<1>6. ScType'
  <2>1. /\ scFiles' \in Seq(Seq(ScEvents \cup {Eol})) /\ scFiles' # <<>> /\ scStamps' \in Nat
        /\ scFd' \in [Writers -> Nat]
    BY <1>1 DEF ScInv, ScType
  <2>2. scAt' \in [Writers -> {"idle", "read", "ask", "open", "write", "eol", "remove"}] /\ scEvent' \in [Writers -> ScEvents]
    BY <1>1, <1>2, <1>3
  <2>3. ASSUME NEW q \in Writers
        PROVE  /\ scAt'[q] \in {"write", "eol"} => scFd'[q] \in DOMAIN scFiles'
               /\ scAt'[q] = "read" => scEvent'[q].kind = "pr"
               /\ scAt'[q] = "ask" => scEvent'[q].kind = "check"
    <3>1. CASE q = p BY <1>2, <1>4, <3>1
    <3>2. CASE q # p BY <1>4, <3>2 DEF Same, ScInv, ScType
    <3> QED BY <3>1, <3>2
  <2> QED BY <2>1, <2>2, <2>3 DEF ScType
<1>7. Alone'
  <2> SUFFICES ASSUME NEW q \in Writers, NEW r \in Writers, Busy(q)', Busy(r)', q # r
               PROVE  scEvent'[q].at \in scHurt' /\ scEvent'[q].at # scEvent'[r].at
    BY DEF Alone, Sound
  <2>1. CASE q = p
    <3>1. r \in others /\ scEvent'[r] = scEvent[r] BY <1>4, <2>1 DEF Same, Busy
    <3>2. scEvent[r].at \in 1..scStamps BY <3>1 DEF ScInv, WriterInv, Ready, Busy
    <3> QED BY <1>1, <1>2, <1>4, <2>1, <3>1, <3>2
  <2>2. CASE r = p
    <3>1. q \in others /\ scEvent'[q] = scEvent[q] BY <1>4, <2>2 DEF Same, Busy
    <3>2. scEvent[q].at \in 1..scStamps BY <3>1 DEF ScInv, WriterInv, Ready, Busy
    <3> QED BY <1>1, <1>2, <1>4, <2>2, <3>1, <3>2
  <2>3. CASE q # p /\ r # p
    <3>1. Busy(q) /\ Busy(r) /\ scEvent'[q] = scEvent[q] /\ scEvent'[r] = scEvent[r]
      BY <1>4, <2>3 DEF Same, Busy
    <3> QED BY <1>1, <3>1 DEF ScInv, Alone, Sound
  <2> QED BY <2>1, <2>2, <2>3
<1>8. LedgersInv' BY <1>5, StillLedgers
<1>9. OwnLine' BY <1>1, <1>4, <1>5, StillOwnLine
<1>10. WriterInv(p)'
  <2>1. /\ Ledger' = Ledger /\ \A i, k : EventAt(i, k)' <=> EventAt(i, k)
        /\ \A e : Sound(e)' => Sound(e)
    BY <1>5, StillFacts
  <2>2. \A i, k \in Nat : EventAt(i, k) => scFiles[i][k].at \in 0..scStamps
    BY LedgerIsFile DEF ScInv, ScEvents, LedgersInv, StampsPast
  <2>3. Ready(p)'
    <3>1. scEvent'[p].at \in 1..scStamps' BY <1>1, <1>2, <1>4
    <3>2. ASSUME NEW i \in Nat, NEW k \in Nat, EventAt(i, k)' PROVE scFiles'[i][k].at < scEvent'[p].at
      BY <1>2, <1>4, <2>1, <2>2, <3>2
    <3>3. \A i, k \in Nat : EventAt(i, k)' => scFiles'[i][k].at \in Nat /\ scEvent'[p].at \in Nat
      BY <1>2, <1>4, <2>1, <2>2
    <3> QED BY <3>1, <3>2, <3>3 DEF Ready
  <2>4. Counting(p)' BY <1>2, <1>4 DEF Counting
  <2>5. Copied(p)'
    <3> SUFFICES ASSUME to = "remove", NEW k \in Nat, EventAt(Len(scFiles), k)', Sound(Ledger[k])'
                 PROVE  BackedUp(Ledger[k])'
      BY <1>4 DEF Copied
    <3>1. EventAt(Len(scFiles), k) /\ Sound(Ledger[k]) /\ Ledger \in scBackups' BY <2>1
    <3>2. IsRead(Ledger, k, Len(Ledger))
      BY <3>1, LedgerIsFile DEF ScInv, OwnLine, IsRead, EventAt
    <3>3. Ledger[k] \in EventsOf(Ledger) BY <3>2, LedgerIsFile, EventsAreRead DEF ScInv, IsRead
    <3> QED BY <2>1, <3>1, <3>3 DEF BackedUp
  <2> QED BY <2>3, <2>4, <2>5 DEF WriterInv
<1>11. \A q \in Writers : WriterInv(q)' BY <1>4, <1>5, <1>10, StillWriter
<1> QED BY <1>6, <1>7, <1>8, <1>9, <1>11 DEF ScInv

\* A process that goes on, or stops, without a write.
LEMMA MovesKeep ==
    ASSUME ScInv, Still, NEW p \in Writers, \A q \in Writers \ {p} : Same(q), ScType', WriterInv(p)',
           Busy(p)' => Busy(p) /\ scEvent'[p].at = scEvent[p].at,
           scAt[p] = "eol" => scEvent[p].at \in scHurt'
    PROVE  ScInv'
<1>1. Alone'
  <2> SUFFICES ASSUME NEW q \in Writers, NEW r \in Writers, Busy(q)', Busy(r)', q # r
               PROVE  scEvent'[q].at \in scHurt' /\ scEvent'[q].at # scEvent'[r].at
    BY DEF Alone, Sound
  <2>1. \A o \in Writers : Busy(o)' => Busy(o) /\ scEvent'[o].at = scEvent[o].at BY DEF Same, Busy
  <2> QED BY <2>1 DEF ScInv, Alone, Sound, Still
<1>2. \A q \in Writers : WriterInv(q)' BY StillWriter
<1> QED BY <1>1, <1>2, StillLedgers, StillOwnLine DEF ScInv

\* What a process that stops knows no more.
LEMMA StopKeeps ==
    ASSUME ScInv, Still, NEW p \in Writers, ScOver(p), scAt[p] = "eol" => scEvent[p].at \in scHurt'
    PROVE  ScInv'
<1>1. /\ scAt' = [scAt EXCEPT ![p] = "idle"] /\ scEvent' = [scEvent EXCEPT ![p] = NoEvent]
      /\ scFd' = [scFd EXCEPT ![p] = 0]
  BY DEF ScOver
<1>2. NoEvent \in ScEvents BY ScAssumption DEF NoEvent, ScEvents
<1>3. /\ scAt \in [Writers -> {"idle", "read", "ask", "open", "write", "eol", "remove"}]
      /\ scEvent \in [Writers -> ScEvents] /\ scFd \in [Writers -> Nat]
      /\ scFiles \in Seq(Seq(ScEvents \cup {Eol})) /\ scFiles # <<>> /\ scFiles' = scFiles /\ scStamps' \in Nat
  BY DEF ScInv, ScType, Still
<1>4. scAt'[p] = "idle" /\ \A q \in Writers \ {p} : Same(q) BY <1>1, <1>3 DEF Same
<1>5. ScType'
  <2>1. /\ scAt' \in [Writers -> {"idle", "read", "ask", "open", "write", "eol", "remove"}]
        /\ scEvent' \in [Writers -> ScEvents] /\ scFd' \in [Writers -> Nat]
    BY <1>1, <1>2, <1>3
  <2>2. ASSUME NEW q \in Writers
        PROVE  /\ scAt'[q] \in {"write", "eol"} => scFd'[q] \in DOMAIN scFiles'
               /\ scAt'[q] = "read" => scEvent'[q].kind = "pr"
               /\ scAt'[q] = "ask" => scEvent'[q].kind = "check"
    BY <1>3, <1>4 DEF Same, ScInv, ScType
  <2> QED BY <1>3, <2>1, <2>2 DEF ScType
<1>6. ~ Busy(p)' /\ WriterInv(p)' BY <1>4 DEF Busy, WriterInv, Ready, Counting, Copied
<1> QED BY <1>4, <1>5, <1>6, MovesKeep

LEMMA DiesKeeps == ASSUME ScInv, NEW p \in Writers, ScCrash(p) PROVE ScInv'
<1>1. Still /\ ScOver(p) /\ scEvent[p].at \in scHurt' BY DEF ScCrash, Still, scFileVars
<1> QED BY <1>1, StopKeeps

\* A close counts what is open when it reads.
LEMMA ReadKeeps == ASSUME ScInv, NEW p \in Writers, ReadOpenTurns(p) PROVE ScInv'
<1> DEFINE open == {t.at : t \in OpenTurns(scEvent[p].branch)}
<1>1. scAt[p] = "read" /\ UNCHANGED <<scFiles, scBackups, scStamps, scHurt>> BY DEF ReadOpenTurns, scFileVars
<1>2. Still BY <1>1 DEF Still
<1>3. CASE open = {} BY <1>1, <1>2, <1>3, StopKeeps DEF ReadOpenTurns
<1>4. CASE open # {}
  <2>1. /\ scAt' = [scAt EXCEPT ![p] = "open"] /\ scEvent' = [scEvent EXCEPT ![p].about = open] /\ scFd' = scFd
    BY <1>4 DEF ReadOpenTurns, ScGoto
  <2>2. /\ scAt \in [Writers -> {"idle", "read", "ask", "open", "write", "eol", "remove"}]
        /\ scEvent \in [Writers -> ScEvents] /\ scEvent[p].kind = "pr"
    BY <1>1 DEF ScInv, ScType
  <2>3. open = OpenAt(Ledger, Len(Ledger), scEvent[p].branch) BY OpenTurnsAreOpen DEF ScInv
  <2>4. open \subseteq Nat
    <3>1. Events \subseteq ScEvents
      BY LedgerIsFile, EventsAreRead DEF ScInv, Events, IsRead
    <3> QED BY <3>1 DEF OpenTurns, Of, ScEvents
  <2> HIDE DEF open
  <2>5. /\ scAt'[p] = "open" /\ scEvent'[p] = [scEvent[p] EXCEPT !.about = open]
        /\ \A q \in Writers \ {p} : Same(q)
    BY <2>1, <2>2 DEF Same
  <2>6. /\ scEvent'[p] \in ScEvents /\ scEvent'[p].at = scEvent[p].at /\ scEvent'[p].about = open
        /\ scEvent'[p].kind = "pr" /\ scEvent'[p].branch = scEvent[p].branch
    BY <2>2, <2>4, <2>5 DEF ScEvents
  <2>7. ScType'
    <3>1. /\ scAt' \in [Writers -> {"idle", "read", "ask", "open", "write", "eol", "remove"}]
          /\ scEvent' \in [Writers -> ScEvents]
      BY <2>1, <2>2, <2>6
    <3>2. ASSUME NEW q \in Writers
          PROVE  /\ scAt'[q] \in {"write", "eol"} => scFd'[q] \in DOMAIN scFiles'
                 /\ scAt'[q] = "read" => scEvent'[q].kind = "pr"
                 /\ scAt'[q] = "ask" => scEvent'[q].kind = "check"
      BY <1>1, <2>5 DEF Same, ScInv, ScType
    <3> QED BY <1>1, <2>1, <3>1, <3>2 DEF ScInv, ScType
  <2>8. Ready(p)'
    <3>1. Ready(p) /\ Busy(p) /\ scAt[p] # "eol" BY <1>1 DEF ScInv, WriterInv, Busy
    <3>2. ASSUME NEW i \in Nat, NEW k \in Nat, EventAt(i, k)'
          PROVE  /\ scFiles'[i][k].at # scEvent'[p].at
                 /\ Sound(scFiles[i][k])' \/ Sound(scEvent[p])' => scFiles'[i][k].at < scEvent'[p].at
      BY <1>1, <2>6, <3>1, <3>2 DEF Ready, Sound, EventAt
    <3> QED BY <1>1, <2>6, <3>1, <3>2 DEF Ready
  <2>9. Counting(p)' BY <1>1, <2>3, <2>5, <2>6 DEF Counting, Ledger
  <2>10. Copied(p)' BY <2>5 DEF Copied
  <2>11. Busy(p) /\ scAt[p] # "eol" BY <1>1 DEF Busy
  <2> QED BY <1>2, <2>5, <2>6, <2>7, <2>8, <2>9, <2>10, <2>11, MovesKeep DEF WriterInv
<1> QED BY <1>3, <1>4

\* The answer of GitHub, and the ledger that is opened: the event stays as it is.
LEMMA GoesKeep ==
    ASSUME ScInv, NEW p \in Writers, UNCHANGED <<scFiles, scBackups, scStamps, scEvent, scHurt>>,
           \/ scAt[p] = "ask" /\ scAt' = [scAt EXCEPT ![p] = "open"] /\ scFd' = scFd
           \/ scAt[p] = "open" /\ scAt' = [scAt EXCEPT ![p] = "write"] /\ scFd' = [scFd EXCEPT ![p] = Len(scFiles)]
    PROVE  ScInv'
<1>1. Still BY DEF Still
<1>2. /\ scAt \in [Writers -> {"idle", "read", "ask", "open", "write", "eol", "remove"}]
      /\ scFd \in [Writers -> Nat] /\ Len(scFiles) \in Nat /\ Len(scFiles) \in DOMAIN scFiles
  BY LedgerIsFile DEF ScInv, ScType
<1>3. /\ scAt'[p] \in {"open", "write"} /\ (scAt[p] = "ask" => scAt'[p] = "open") /\ (scAt[p] # "ask" => scAt[p] = "open")
      /\ scAt'[p] = "write" => scFd'[p] = Len(scFiles)
      /\ \A q \in Writers \ {p} : Same(q)
  BY <1>2 DEF Same
<1>4. ScType'
  <2>1. scAt' \in [Writers -> {"idle", "read", "ask", "open", "write", "eol", "remove"}] /\ scFd' \in [Writers -> Nat]
    BY <1>2
  <2>2. ASSUME NEW q \in Writers
        PROVE  /\ scAt'[q] \in {"write", "eol"} => scFd'[q] \in DOMAIN scFiles'
               /\ scAt'[q] = "read" => scEvent'[q].kind = "pr"
               /\ scAt'[q] = "ask" => scEvent'[q].kind = "check"
    BY <1>2, <1>3 DEF Same, ScInv, ScType
  <2> QED BY <2>1, <2>2 DEF ScInv, ScType
<1>5. Ready(p)'
  <2>1. Ready(p) /\ Busy(p) /\ scAt[p] # "eol" BY <1>3 DEF ScInv, WriterInv, Busy
  <2>2. ASSUME NEW i \in Nat, NEW k \in Nat, EventAt(i, k)'
        PROVE  /\ scFiles'[i][k].at # scEvent'[p].at
               /\ Sound(scFiles[i][k])' \/ Sound(scEvent[p])' => scFiles'[i][k].at < scEvent'[p].at
    BY <2>1, <2>2 DEF Ready, Sound, EventAt
  <2> QED BY <2>1, <2>2 DEF Ready
<1>6. Counting(p)'
  <2>1. scAt[p] = "ask" => scEvent[p].kind # "pr" BY DEF ScInv, ScType
  <2>2. Counting(p) BY DEF ScInv, WriterInv
  <2> QED BY <1>3, <2>1, <2>2 DEF Counting, Sound, Ledger
<1>7. Copied(p)' BY <1>3 DEF Copied
<1>8. Busy(p) /\ scAt[p] # "eol" BY <1>3 DEF Busy
<1> QED BY <1>1, <1>3, <1>4, <1>5, <1>6, <1>7, <1>8, MovesKeep DEF WriterInv

\* A line is put at the end of the ledger that a process has opened.
LEMMA LineAppended ==
    ASSUME ScType, NEW fd \in DOMAIN scFiles, NEW n, n = Len(scFiles[fd]), NEW line \in ScEvents \cup {Eol},
           scFiles' = [scFiles EXCEPT ![fd] = Append(@, line)]
    PROVE  /\ n \in Nat /\ fd \in Nat /\ scFiles' \in Seq(Seq(ScEvents \cup {Eol})) /\ scFiles' # <<>>
           /\ Len(scFiles') = Len(scFiles) /\ DOMAIN scFiles' = DOMAIN scFiles
           /\ \A i \in DOMAIN scFiles \ {fd} : scFiles'[i] = scFiles[i]
           /\ scFiles'[fd] = Append(scFiles[fd], line) /\ Len(scFiles'[fd]) = n + 1 /\ scFiles'[fd][n + 1] = line
           /\ DOMAIN scFiles'[fd] = 1..(n + 1) /\ DOMAIN scFiles[fd] = 1..n
           /\ \A i, k \in Nat : i \in DOMAIN scFiles /\ k \in DOMAIN scFiles[i] => scFiles'[i][k] = scFiles[i][k]
           /\ \A i, k \in Nat : EventAt(i, k)' <=> EventAt(i, k) \/ (i = fd /\ k = n + 1 /\ line # Eol)
<1> DEFINE f == scFiles[fd]
           L == Seq(ScEvents \cup {Eol})
<1>1. scFiles \in Seq(L) /\ scFiles # <<>> BY DEF ScType
<1>2. Len(scFiles) \in Nat /\ DOMAIN scFiles = 1..Len(scFiles) /\ fd \in Nat /\ f \in L BY <1>1
<1>3. /\ Append(f, line) \in L /\ Len(Append(f, line)) = n + 1 /\ Append(f, line)[n + 1] = line /\ n \in Nat
      /\ DOMAIN f = 1..n /\ DOMAIN Append(f, line) = 1..(n + 1) /\ \A k \in 1..n : Append(f, line)[k] = f[k]
  <2>1. n = Len(f) OBVIOUS
  <2> HIDE DEF f
  <2> QED BY <1>2, <2>1
<1>4. /\ scFiles' \in Seq(L) /\ Len(scFiles') = Len(scFiles) /\ DOMAIN scFiles' = DOMAIN scFiles
      /\ scFiles'[fd] = Append(f, line) /\ \A i \in DOMAIN scFiles \ {fd} : scFiles'[i] = scFiles[i]
  <2> HIDE DEF L
  <2> QED BY <1>1, <1>2, <1>3
<1>5. scFiles' # <<>> BY <1>1, <1>2, <1>4
<1>6. ASSUME NEW i \in Nat, NEW k \in Nat, i \in DOMAIN scFiles, k \in DOMAIN scFiles[i]
      PROVE  scFiles'[i][k] = scFiles[i][k]
  <2>1. CASE i = fd BY <1>3, <1>4, <1>6, <2>1
  <2>2. CASE i # fd BY <1>4, <1>6, <2>2
  <2> QED BY <2>1, <2>2
<1>7. ASSUME NEW i \in Nat, NEW k \in Nat
      PROVE  EventAt(i, k)' <=> EventAt(i, k) \/ (i = fd /\ k = n + 1 /\ line # Eol)
  <2>1. CASE i = fd
    <3>1. k \in DOMAIN scFiles'[fd] <=> k \in DOMAIN f \/ k = n + 1
      <4>1. DOMAIN scFiles'[fd] = 1..(n + 1) /\ DOMAIN f = 1..n /\ n \in Nat BY <1>3, <1>4
      <4> HIDE DEF f
      <4> QED BY <4>1
    <3>2. n + 1 \notin DOMAIN f BY <1>3
    <3> QED BY <1>3, <1>4, <1>6, <2>1, <3>1, <3>2 DEF EventAt
  <2>2. CASE i # fd BY <1>4, <1>6, <2>2 DEF EventAt
  <2> QED BY <2>1, <2>2
<1> QED BY <1>2, <1>3, <1>4, <1>5, <1>6, <1>7

\* What closes counted is as it was when a line is added.
LEMMA CountsStay ==
    ASSUME ScInv, NEW fd \in DOMAIN scFiles, NEW line \in ScEvents \cup {Eol},
           scFiles' = [scFiles EXCEPT ![fd] = Append(@, line)], NEW i \in Nat, NEW k \in Nat, EventAt(i, k)
    PROVE  \A branch : OpenAt(scFiles'[i], k - 1, branch) = OpenAt(scFiles[i], k - 1, branch)
<1>1. i \in DOMAIN scFiles /\ k \in DOMAIN scFiles[i] BY DEF EventAt
<1>2. scFiles[i] \in Seq(ScEvents \cup {Eol}) /\ DOMAIN scFiles[i] = 1..Len(scFiles[i])
  BY <1>1, LedgerIsFile DEF ScInv
<1>3. k - 1 \in 0..Len(scFiles[i])
  <2>1. Len(scFiles[i]) \in Nat BY <1>2
  <2> QED BY <1>1, <1>2, <2>1
<1>4. CASE i = fd
  <2>1. scFiles'[i] = Append(scFiles[i], line) BY <1>4, LineAppended DEF ScInv
  <2> QED BY <1>2, <1>3, <2>1, ReadsBegin
<1>5. CASE i # fd
  <2>1. scFiles'[i] = scFiles[i] BY <1>1, <1>5, LineAppended DEF ScInv
  <2> QED BY <2>1
<1> QED BY <1>4, <1>5

\* An event is written after all that is not hurt, and on a line of its own unless it is hurt.
LEMMA WrittenKeeps == ASSUME ScInv, NEW p \in Writers, WriteEvent(p) PROVE ScInv'
<1> DEFINE fd == scFd[p]
           f == scFiles[fd]
           n == Len(f)
           e == scEvent[p]
           States == {"idle", "read", "ask", "open", "write", "eol", "remove"}
<1>1. /\ scAt[p] = "write" /\ scAt' = [scAt EXCEPT ![p] = "eol"]
      /\ scFiles' = [scFiles EXCEPT ![fd] = Append(@, e)]
      /\ scBackups' = scBackups /\ scStamps' = scStamps /\ scEvent' = scEvent /\ scFd' = scFd
      /\ scHurt \subseteq scHurt'
      /\ f # <<>> /\ Last(f) # Eol => e.at \in scHurt'
  BY DEF WriteEvent, ScGoto
<1>2. /\ ScType /\ scAt \in [Writers -> States] /\ scEvent \in [Writers -> ScEvents] /\ scFd \in [Writers -> Nat]
      /\ fd \in DOMAIN scFiles /\ scStamps \in Nat
  BY <1>1 DEF ScInv, ScType
<1>3. e \in ScEvents /\ e # Eol BY <1>2, ScAssumption
<1>4. /\ n \in Nat /\ fd \in Nat /\ scFiles' \in Seq(Seq(ScEvents \cup {Eol})) /\ scFiles' # <<>>
      /\ Len(scFiles') = Len(scFiles) /\ DOMAIN scFiles' = DOMAIN scFiles
      /\ \A i \in DOMAIN scFiles \ {fd} : scFiles'[i] = scFiles[i]
      /\ scFiles'[fd] = Append(f, e) /\ Len(scFiles'[fd]) = n + 1 /\ scFiles'[fd][n + 1] = e
      /\ DOMAIN scFiles'[fd] = 1..(n + 1) /\ DOMAIN f = 1..n
      /\ \A i, k \in Nat : i \in DOMAIN scFiles /\ k \in DOMAIN scFiles[i] => scFiles'[i][k] = scFiles[i][k]
      /\ \A i, k \in Nat : EventAt(i, k)' <=> EventAt(i, k) \/ (i = fd /\ k = n + 1)
  <2>1. /\ ScType /\ fd \in DOMAIN scFiles /\ e \in ScEvents \cup {Eol} /\ n = Len(scFiles[fd])
        /\ scFiles' = [scFiles EXCEPT ![fd] = Append(@, e)]
    BY <1>1, <1>2, <1>3
  <2> HIDE DEF e, fd, n
  <2>2. /\ n \in Nat /\ fd \in Nat /\ Len(scFiles') = Len(scFiles) /\ DOMAIN scFiles' = DOMAIN scFiles
        /\ scFiles' \in Seq(Seq(ScEvents \cup {Eol})) /\ scFiles' # <<>>
    <3>1. n \in Nat BY ONLY <2>1, LineAppended
    <3>2. fd \in Nat BY ONLY <2>1, LineAppended
    <3>3. Len(scFiles') = Len(scFiles) BY ONLY <2>1, LineAppended
    <3>4. DOMAIN scFiles' = DOMAIN scFiles BY ONLY <2>1, LineAppended
    <3>5. scFiles' \in Seq(Seq(ScEvents \cup {Eol})) BY ONLY <2>1, LineAppended
    <3>6. scFiles' # <<>> BY ONLY <2>1, LineAppended
    <3> QED BY <3>1, <3>2, <3>3, <3>4, <3>5, <3>6
  <2>5. \A i \in DOMAIN scFiles \ {fd} : scFiles'[i] = scFiles[i] BY ONLY <2>1, LineAppended
  <2>6. scFiles'[fd] = Append(scFiles[fd], e) BY ONLY <2>1, LineAppended
  <2>7. Len(scFiles'[fd]) = n + 1 BY ONLY <2>1, LineAppended
  <2>8. scFiles'[fd][n + 1] = e BY ONLY <2>1, LineAppended
  <2>9. DOMAIN scFiles'[fd] = 1..(n + 1) BY ONLY <2>1, LineAppended
  <2>10. DOMAIN scFiles[fd] = 1..n BY ONLY <2>1, LineAppended
  <2>3. \A i, k \in Nat : i \in DOMAIN scFiles /\ k \in DOMAIN scFiles[i] => scFiles'[i][k] = scFiles[i][k]
    BY ONLY <2>1, LineAppended
  <2>4. \A i, k \in Nat : EventAt(i, k)' <=> EventAt(i, k) \/ (i = fd /\ k = n + 1)
    BY ONLY <1>3, <2>1, LineAppended DEF EventAt
  <2> QED BY <2>2, <2>3, <2>4, <2>5, <2>6, <2>7, <2>8, <2>9, <2>10
<1>5. /\ scFiles \in Seq(Seq(ScEvents \cup {Eol})) /\ f \in Seq(ScEvents \cup {Eol})
      /\ Len(scFiles) \in Nat \ {0} /\ DOMAIN scFiles = 1..Len(scFiles) /\ Ledger = scFiles[Len(scFiles)]
      /\ \A i, k \in Nat : EventAt(i, k) => scFiles[i][k] \in ScEvents
      /\ \A i \in DOMAIN scFiles : DOMAIN scFiles[i] = 1..Len(scFiles[i])
  BY <1>2, LedgerIsFile DEF ScType
<1>6. /\ \A i, k \in Nat : EventAt(i, k) => i \in DOMAIN scFiles /\ k \in DOMAIN scFiles[i] /\ scFiles'[i][k] = scFiles[i][k]
      /\ ~ EventAt(fd, n + 1)
  BY <1>4 DEF EventAt
<1>7. Busy(p) /\ WriterInv(p) /\ Ready(p) /\ Counting(p) BY <1>1 DEF ScInv, Busy, WriterInv
<1>8. scAt'[p] = "eol" /\ \A q \in Writers \ {p} : scAt'[q] = scAt[q] BY <1>1, <1>2
<1>9. \A q \in Writers : Busy(q)' <=> Busy(q) BY <1>1, <1>8 DEF Busy
<1>10. ASSUME NEW q \in Writers \ {p}, Busy(q)
       PROVE  /\ ~ Sound(e) /\ ~ Sound(scEvent[q]) /\ scEvent[q].at # e.at
              /\ e.at \in scHurt' /\ scEvent[q].at \in scHurt'
  BY <1>1, <1>7, <1>10 DEF ScInv, Alone, Sound
<1>11. Sound(e) => fd = Len(scFiles) /\ f = Ledger BY <1>1, <1>5, <1>7 DEF Counting
<1>12. \A x : x.at \notin scHurt' => Sound(x) BY <1>1 DEF Sound
<1> HIDE DEF f, n, e, fd
<1>13. ScType'
  <2>1. scAt' \in [Writers -> States] BY <1>1, <1>2
  <2>2. ASSUME NEW q \in Writers
        PROVE  /\ scAt'[q] \in {"write", "eol"} => scFd'[q] \in DOMAIN scFiles'
               /\ scAt'[q] = "read" => scEvent'[q].kind = "pr"
               /\ scAt'[q] = "ask" => scEvent'[q].kind = "check"
    <3>1. CASE q = p BY <1>1, <1>2, <1>4, <1>8, <3>1 DEF fd
    <3>2. CASE q # p BY <1>1, <1>2, <1>4, <1>8, <3>2 DEF ScType
    <3> QED BY <3>1, <3>2
  <2> QED BY <1>1, <1>2, <1>4, <2>1, <2>2 DEF ScType
<1>14. Alone'
  <2> SUFFICES ASSUME NEW q \in Writers, NEW r \in Writers, Busy(q)', Busy(r)', q # r
               PROVE  scEvent'[q].at \in scHurt' /\ scEvent'[q].at # scEvent'[r].at
    BY DEF Alone, Sound
  <2> QED BY <1>1, <1>9 DEF ScInv, Alone, Sound
<1>15. StampsPast'
  <2> SUFFICES ASSUME NEW i \in Nat, NEW k \in Nat, EventAt(i, k)' PROVE scFiles'[i][k].at <= scStamps'
    BY DEF StampsPast
  <2>1. CASE EventAt(i, k) BY <1>1, <1>6, <2>1 DEF ScInv, LedgersInv, StampsPast
  <2>2. CASE i = fd /\ k = n + 1 BY <1>1, <1>2, <1>4, <1>7, <2>2 DEF Ready, e
  <2> QED BY <1>4, <2>1, <2>2
<1>16. LinesInOrder'
  <2> SUFFICES ASSUME NEW i \in Nat, NEW k \in Nat, NEW l \in Nat, EventAt(i, k)', EventAt(i, l)', k < l
               PROVE  /\ scFiles'[i][k].at # scFiles'[i][l].at
                      /\ scFiles'[i][k].at \notin scHurt' \/ scFiles'[i][l].at \notin scHurt'
                            => scFiles'[i][k].at < scFiles'[i][l].at
    BY DEF LinesInOrder, Sound
  <2>1. EventAt(i, k)
    <3> SUFFICES ASSUME i = fd, k = n + 1 PROVE FALSE BY <1>4
    <3>1. l \in DOMAIN scFiles'[fd] BY DEF EventAt
    <3> QED BY <1>4, <3>1
  <2>2. CASE EventAt(i, l) BY <1>6, <1>12, <2>1, <2>2 DEF ScInv, LedgersInv, LinesInOrder
  <2>3. CASE i = fd /\ l = n + 1
    <3>1. scFiles'[i][l] = e /\ scFiles'[i][k] = scFiles[i][k] BY <1>4, <1>6, <2>1, <2>3
    <3> QED BY <1>1, <1>7, <1>12, <2>1, <3>1 DEF Ready, e
  <2> QED BY <1>4, <2>2, <2>3
<1>17. ClosesCount'
  <2> SUFFICES ASSUME NEW i \in Nat, NEW k \in Nat, EventAt(i, k)', scFiles'[i][k].at \notin scHurt', scFiles'[i][k].kind = "pr"
               PROVE  scFiles'[i][k].about = OpenAt(scFiles'[i], k - 1, scFiles'[i][k].branch)
    BY DEF ClosesCount, Sound
  <2>1. CASE EventAt(i, k)
    <3>1. Sound(scFiles[i][k]) /\ scFiles'[i][k] = scFiles[i][k] BY <1>6, <1>12, <2>1
    <3>2. scFiles[i][k].about = OpenAt(scFiles[i], k - 1, scFiles[i][k].branch)
      BY <2>1, <3>1 DEF ScInv, LedgersInv, ClosesCount
    <3>3. \A branch : OpenAt(scFiles'[i], k - 1, branch) = OpenAt(scFiles[i], k - 1, branch)
      BY <1>1, <1>2, <1>3, <2>1, CountsStay
    <3> QED BY <3>1, <3>2, <3>3
  <2>2. CASE i = fd /\ k = n + 1
    <3>1. scFiles'[i][k] = e /\ scFiles'[i] = Append(f, e) /\ k - 1 = n BY <1>4, <2>2 DEF f
    <3>2. Sound(e) BY <1>12, <3>1
    <3>3. e.about = OpenAt(f, n, e.branch) BY <1>1, <1>7, <1>11, <3>1, <3>2 DEF Counting, e, n
    <3>4. n \in 0..Len(f) BY <1>4 DEF n
    <3>5. \A branch : OpenAt(Append(f, e), n, branch) = OpenAt(f, n, branch)
      BY <1>3, <1>5, <3>4, ReadsBegin
    <3> QED BY <3>1, <3>3, <3>5
  <2> QED BY <1>4, <2>1, <2>2
<1>18. RemovedIsCopied'
  <2> SUFFICES ASSUME NEW i \in Nat, NEW k \in Nat, EventAt(i, k)', i < Len(scFiles'), scFiles'[i][k].at \notin scHurt'
               PROVE  BackedUp(scFiles[i][k])'
    BY DEF RemovedIsCopied, Sound
  <2>1. CASE EventAt(i, k)
    <3>1. Sound(scFiles[i][k]) /\ scFiles'[i][k] = scFiles[i][k] BY <1>6, <1>12, <2>1
    <3> QED BY <1>1, <1>4, <2>1, <3>1 DEF ScInv, LedgersInv, RemovedIsCopied, BackedUp
  <2>2. CASE i = fd /\ k = n + 1 BY <1>4, <1>5, <1>11, <1>12, <2>2
  <2> QED BY <1>4, <2>1, <2>2
<1>19. OwnLine'
  <2> SUFFICES ASSUME NEW i \in Nat, NEW k \in Nat, EventAt(i, k)', scFiles'[i][k].at \notin scHurt'
               PROVE  /\ k = 1 \/ scFiles'[i][k - 1] = Eol
                      /\ IF k = Len(scFiles'[i])
                         THEN \E q \in Writers : scAt'[q] = "eol" /\ scEvent'[q] = scFiles'[i][k] /\ scFd'[q] = i
                         ELSE scFiles'[i][k + 1] = Eol
    BY DEF OwnLine, Sound
  <2>1. CASE i = fd /\ k = n + 1
    <3>1. scFiles'[i][k] = e /\ k = Len(scFiles'[i]) BY <1>4, <2>1
    <3>2. f = <<>> \/ Last(f) = Eol BY <1>1, <3>1 DEF f, e, fd
    <3>3. k # 1 => f[n] = Eol BY <1>4, <1>5, <2>1, <3>2 DEF Last, n
    <3>4. k # 1 => k - 1 = n /\ n \in DOMAIN f /\ n \in Nat BY <1>4, <2>1 DEF f
    <3>5. k # 1 => scFiles'[i][k - 1] = Eol BY <1>2, <1>4, <2>1, <3>3, <3>4 DEF f
    <3> QED BY <1>1, <1>8, <2>1, <3>1, <3>5 DEF e, fd
  <2>2. CASE EventAt(i, k)
    <3>1. Sound(scFiles[i][k]) /\ scFiles'[i][k] = scFiles[i][k] /\ i \in DOMAIN scFiles /\ k \in 1..Len(scFiles[i])
      BY <1>5, <1>6, <1>12, <2>2
    <3>2. /\ k = 1 \/ scFiles[i][k - 1] = Eol
          /\ IF k = Len(scFiles[i]) THEN \E q \in Writers : scAt[q] = "eol" /\ scEvent[q] = scFiles[i][k] /\ scFd[q] = i
             ELSE scFiles[i][k + 1] = Eol
      BY <2>2, <3>1 DEF ScInv, OwnLine
    <3>3. k = 1 \/ scFiles'[i][k - 1] = Eol
      <4>1. k # 1 => k - 1 \in DOMAIN scFiles[i] /\ k - 1 \in Nat BY <1>5, <3>1
      <4> QED BY <1>4, <3>1, <3>2, <4>1
    <3>4. CASE k # Len(scFiles[i])
      <4>1. k + 1 \in DOMAIN scFiles[i] BY <1>5, <3>1, <3>4
      <4>2. scFiles'[i][k + 1] = Eol BY <1>4, <3>1, <3>2, <3>4, <4>1
      <4>3. k # Len(scFiles'[i])
        <5>1. CASE i = fd BY <1>4, <3>1, <5>1 DEF n, f
        <5>2. CASE i # fd BY <1>4, <3>1, <3>4, <5>2
        <5> QED BY <5>1, <5>2
      <4> QED BY <3>3, <4>2, <4>3
    <3>5. CASE k = Len(scFiles[i])
      <4>1. PICK q \in Writers : scAt[q] = "eol" /\ scEvent[q] = scFiles[i][k] /\ scFd[q] = i BY <3>2, <3>5
      <4>2. q # p /\ Busy(q) BY <1>1, <4>1 DEF Busy
      <4>3. FALSE BY <1>10, <3>1, <4>1, <4>2
      <4> QED BY <4>3
    <3> QED BY <3>4, <3>5
  <2> QED BY <1>4, <2>1, <2>2
<1>20. ASSUME NEW q \in Writers PROVE WriterInv(q)'
  <2>1. Ready(q) /\ Counting(q) /\ Copied(q) BY DEF ScInv, WriterInv
  <2>2. CASE q = p
    <3>1. Ready(q)' BY <1>1, <1>7, <1>8, <2>2 DEF Ready
    <3>2. Counting(q)'
      <4>1. scEvent'[p].at \notin scHurt' => scFd'[p] = Len(scFiles') BY <1>1, <1>4, <1>11, <1>12 DEF e, fd
      <4> QED BY <1>8, <2>2, <4>1 DEF Counting, Sound
    <3>3. Copied(q)' BY <1>8, <2>2 DEF Copied
    <3> QED BY <3>1, <3>2, <3>3 DEF WriterInv
  <2>3. CASE q # p
    <3>1. scAt'[q] = scAt[q] /\ scEvent'[q] = scEvent[q] /\ scFd'[q] = scFd[q] BY <1>1, <1>8, <2>3
    <3>2. Busy(q) => /\ ~ Sound(e) /\ ~ Sound(scEvent[q]) /\ scEvent[q].at # e.at
                     /\ e.at \in scHurt' /\ scEvent[q].at \in scHurt'
      BY <1>10, <2>3
    <3>3. Ready(q)'
      <4>1. ASSUME Busy(q), scAt[q] # "eol", NEW i \in Nat, NEW k \in Nat, EventAt(i, k)'
            PROVE  /\ scFiles'[i][k].at # scEvent'[q].at
                   /\ scFiles'[i][k].at \notin scHurt' \/ scEvent'[q].at \notin scHurt' => scFiles'[i][k].at < scEvent'[q].at
        <5>1. CASE EventAt(i, k) BY <1>6, <1>12, <2>1, <3>1, <4>1, <5>1 DEF Ready
        <5>2. CASE i = fd /\ k = n + 1 BY <1>4, <3>1, <3>2, <4>1, <5>2
        <5> QED BY <1>4, <4>1, <5>1, <5>2
      <4>2. Busy(q) => scEvent'[q].at \in 1..scStamps' BY <1>1, <2>1, <3>1 DEF Ready
      <4> QED BY <1>9, <3>1, <4>1, <4>2 DEF Ready, Sound
    <3>4. Counting(q)'
      <4>1. scAt[q] \in {"open", "write", "eol"} => Busy(q) BY DEF Busy
      <4> QED BY <3>1, <3>2, <4>1 DEF Counting, Sound
    <3>5. Copied(q)'
      <4> SUFFICES ASSUME scAt[q] = "remove", NEW k \in Nat, EventAt(Len(scFiles), k)', Ledger'[k].at \notin scHurt'
                   PROVE  BackedUp(Ledger[k])'
        BY <3>1 DEF Copied, Sound
      <4>1. Ledger' = scFiles'[Len(scFiles)] BY <1>4 DEF Ledger, Last
      <4>2. Busy(q) BY DEF Busy
      <4>3. EventAt(Len(scFiles), k)
        <5> SUFFICES ASSUME Len(scFiles) = fd, k = n + 1 PROVE FALSE BY <1>4, <1>5
        <5> QED BY <1>4, <3>2, <4>1, <4>2
      <4>4. Ledger'[k] = Ledger[k] /\ Sound(Ledger[k]) BY <1>5, <1>6, <1>12, <4>1, <4>3
      <4> QED BY <1>1, <2>1, <4>3, <4>4 DEF Copied, BackedUp
    <3> QED BY <3>3, <3>4, <3>5 DEF WriterInv
  <2> QED BY <2>2, <2>3
<1> QED BY <1>13, <1>14, <1>15, <1>16, <1>17, <1>18, <1>19, <1>20 DEF ScInv, LedgersInv

\* An end of line adds no event, and only the one whose event it ends can read what it did.
LEMMA EndedKeeps == ASSUME ScInv, NEW p \in Writers, WriteEol(p) PROVE ScInv'
<1> DEFINE fd == scFd[p]
           n == Len(scFiles[fd])
           States == {"idle", "read", "ask", "open", "write", "eol", "remove"}
<1>1. /\ scAt[p] = "eol" /\ scAt' = [scAt EXCEPT ![p] = "idle"] /\ scEvent' = [scEvent EXCEPT ![p] = NoEvent]
      /\ scFd' = [scFd EXCEPT ![p] = 0]
      /\ scFiles' = [scFiles EXCEPT ![fd] = Append(@, Eol)]
      /\ scBackups' = scBackups /\ scStamps' = scStamps /\ scHurt' = scHurt
  BY DEF WriteEol, ScOver
<1>2. /\ ScType /\ scAt \in [Writers -> States] /\ scEvent \in [Writers -> ScEvents] /\ scFd \in [Writers -> Nat]
      /\ fd \in DOMAIN scFiles /\ scStamps \in Nat
  BY <1>1 DEF ScInv, ScType
<1>3. /\ fd \in Nat /\ scFiles' \in Seq(Seq(ScEvents \cup {Eol})) /\ scFiles' # <<>>
      /\ Len(scFiles') = Len(scFiles) /\ DOMAIN scFiles' = DOMAIN scFiles
      /\ \A i \in DOMAIN scFiles \ {fd} : scFiles'[i] = scFiles[i]
      /\ n \in Nat /\ Len(scFiles'[fd]) = n + 1 /\ scFiles'[fd][n + 1] = Eol
      /\ \A i, k \in Nat : i \in DOMAIN scFiles /\ k \in DOMAIN scFiles[i] => scFiles'[i][k] = scFiles[i][k]
      /\ \A i, k \in Nat : EventAt(i, k)' <=> EventAt(i, k)
  <2>1. /\ ScType /\ fd \in DOMAIN scFiles /\ n = Len(scFiles[fd]) /\ Eol \in ScEvents \cup {Eol}
        /\ scFiles' = [scFiles EXCEPT ![fd] = Append(@, Eol)]
    BY <1>1, <1>2
  <2> HIDE DEF fd, n
  <2>2. fd \in Nat /\ Len(scFiles') = Len(scFiles) /\ DOMAIN scFiles' = DOMAIN scFiles
    BY ONLY <2>1, LineAppended
  <2>3. scFiles' \in Seq(Seq(ScEvents \cup {Eol})) BY ONLY <2>1, LineAppended
  <2>4. scFiles' # <<>> BY ONLY <2>1, LineAppended
  <2>5. \A i \in DOMAIN scFiles \ {fd} : scFiles'[i] = scFiles[i] BY ONLY <2>1, LineAppended
  <2>6. n \in Nat /\ Len(scFiles'[fd]) = n + 1 BY ONLY <2>1, LineAppended
  <2>7. scFiles'[fd][n + 1] = Eol BY ONLY <2>1, LineAppended
  <2>8. \A i, k \in Nat : i \in DOMAIN scFiles /\ k \in DOMAIN scFiles[i] => scFiles'[i][k] = scFiles[i][k]
    BY ONLY <2>1, LineAppended
  <2>9. \A i, k \in Nat : EventAt(i, k)' <=> EventAt(i, k)
    BY ONLY <2>1, LineAppended DEF EventAt
  <2> QED BY <2>2, <2>3, <2>4, <2>5, <2>6, <2>7, <2>8, <2>9
<1>4. /\ DOMAIN scFiles = 1..Len(scFiles) /\ Len(scFiles) \in Nat \ {0} /\ Ledger = scFiles[Len(scFiles)]
      /\ \A i \in DOMAIN scFiles : DOMAIN scFiles[i] = 1..Len(scFiles[i])
  BY <1>2, LedgerIsFile
<1>5. \A i, k \in Nat : EventAt(i, k) => i \in DOMAIN scFiles /\ k \in DOMAIN scFiles[i] /\ scFiles'[i][k] = scFiles[i][k]
  BY <1>3 DEF EventAt
<1>6. scAt'[p] = "idle" /\ \A q \in Writers \ {p} : Same(q) BY <1>1, <1>2 DEF Same
<1>7. Busy(p) /\ \A q \in Writers : Busy(q)' => q # p /\ Busy(q) /\ scEvent'[q] = scEvent[q]
  BY <1>1, <1>6 DEF Busy, Same
<1>8. \A q \in Writers \ {p} : Busy(q) => ~ Sound(scEvent[q]) BY <1>7 DEF ScInv, Alone
<1> HIDE DEF n, fd
<1>9. ScType'
  <2>1. NoEvent \in ScEvents BY ScAssumption DEF NoEvent, ScEvents
  <2>2. scAt' \in [Writers -> States] /\ scEvent' \in [Writers -> ScEvents] /\ scFd' \in [Writers -> Nat]
    BY <1>1, <1>2, <2>1
  <2>3. ASSUME NEW q \in Writers
        PROVE  /\ scAt'[q] \in {"write", "eol"} => scFd'[q] \in DOMAIN scFiles'
               /\ scAt'[q] = "read" => scEvent'[q].kind = "pr"
               /\ scAt'[q] = "ask" => scEvent'[q].kind = "check"
    BY <1>2, <1>3, <1>6 DEF Same, ScType
  <2> QED BY <1>1, <1>2, <1>3, <2>2, <2>3 DEF ScType
<1>10. Alone'
  <2> SUFFICES ASSUME NEW q \in Writers, NEW r \in Writers, Busy(q)', Busy(r)', q # r
               PROVE  scEvent'[q].at \in scHurt' /\ scEvent'[q].at # scEvent'[r].at
    BY DEF Alone, Sound
  <2> QED BY <1>1, <1>7 DEF ScInv, Alone, Sound
<1>11. LedgersInv'
  <2>1. StampsPast' BY <1>1, <1>3, <1>5 DEF ScInv, LedgersInv, StampsPast
  <2>2. LinesInOrder'
    <3> SUFFICES ASSUME NEW i \in Nat, NEW k \in Nat, NEW l \in Nat, EventAt(i, k)', EventAt(i, l)', k < l
                 PROVE  /\ scFiles'[i][k].at # scFiles'[i][l].at
                        /\ scFiles'[i][k].at \notin scHurt' \/ scFiles'[i][l].at \notin scHurt'
                              => scFiles'[i][k].at < scFiles'[i][l].at
      BY DEF LinesInOrder, Sound
    <3> QED BY <1>1, <1>3, <1>5 DEF ScInv, LedgersInv, LinesInOrder, Sound
  <2>3. ClosesCount'
    <3> SUFFICES ASSUME NEW i \in Nat, NEW k \in Nat, EventAt(i, k)', scFiles'[i][k].at \notin scHurt', scFiles'[i][k].kind = "pr"
                 PROVE  scFiles'[i][k].about = OpenAt(scFiles'[i], k - 1, scFiles'[i][k].branch)
      BY DEF ClosesCount, Sound
    <3>1. EventAt(i, k) /\ Sound(scFiles[i][k]) /\ scFiles'[i][k] = scFiles[i][k] BY <1>1, <1>3, <1>5 DEF Sound
    <3>2. scFiles[i][k].about = OpenAt(scFiles[i], k - 1, scFiles[i][k].branch)
      BY <3>1 DEF ScInv, LedgersInv, ClosesCount
    <3>3. \A branch : OpenAt(scFiles'[i], k - 1, branch) = OpenAt(scFiles[i], k - 1, branch)
      BY <1>1, <1>2, <3>1, CountsStay
    <3> QED BY <3>1, <3>2, <3>3
  <2>4. RemovedIsCopied'
    <3> SUFFICES ASSUME NEW i \in Nat, NEW k \in Nat, EventAt(i, k)', i < Len(scFiles'), scFiles'[i][k].at \notin scHurt'
                 PROVE  BackedUp(scFiles[i][k])'
      BY DEF RemovedIsCopied, Sound
    <3> QED BY <1>1, <1>3, <1>5 DEF ScInv, LedgersInv, RemovedIsCopied, BackedUp, Sound
  <2> QED BY <2>1, <2>2, <2>3, <2>4 DEF LedgersInv
<1>12. OwnLine'
  <2> SUFFICES ASSUME NEW i \in Nat, NEW k \in Nat, EventAt(i, k)', scFiles'[i][k].at \notin scHurt'
               PROVE  /\ k = 1 \/ scFiles'[i][k - 1] = Eol
                      /\ IF k = Len(scFiles'[i])
                         THEN \E q \in Writers : scAt'[q] = "eol" /\ scEvent'[q] = scFiles'[i][k] /\ scFd'[q] = i
                         ELSE scFiles'[i][k + 1] = Eol
    BY DEF OwnLine, Sound
  <2>1. /\ EventAt(i, k) /\ Sound(scFiles[i][k]) /\ scFiles'[i][k] = scFiles[i][k]
        /\ i \in DOMAIN scFiles /\ k \in 1..Len(scFiles[i])
    BY <1>1, <1>3, <1>4, <1>5 DEF Sound
  <2>2. /\ k = 1 \/ scFiles[i][k - 1] = Eol
        /\ IF k = Len(scFiles[i]) THEN \E q \in Writers : scAt[q] = "eol" /\ scEvent[q] = scFiles[i][k] /\ scFd[q] = i
           ELSE scFiles[i][k + 1] = Eol
    BY <2>1 DEF ScInv, OwnLine
  <2>3. k = 1 \/ scFiles'[i][k - 1] = Eol
    <3>1. k # 1 => k - 1 \in DOMAIN scFiles[i] /\ k - 1 \in Nat BY <1>4, <2>1
    <3> QED BY <1>3, <2>1, <2>2, <3>1
  <2>4. CASE k # Len(scFiles[i])
    <3>1. k + 1 \in DOMAIN scFiles[i] BY <1>4, <2>1, <2>4
    <3>2. scFiles'[i][k + 1] = Eol
      <4>1. scFiles[i][k + 1] = Eol BY <2>2, <2>4
      <4>2. k + 1 \in Nat OBVIOUS
      <4>3. scFiles'[i][k + 1] = scFiles[i][k + 1] BY <1>3, <2>1, <3>1, <4>2
      <4> QED BY <4>1, <4>3
    <3>3. k # Len(scFiles'[i])
      <4>1. CASE i = fd BY <1>3, <2>1, <4>1 DEF n
      <4>2. CASE i # fd BY <1>3, <2>1, <2>4, <4>2
      <4> QED BY <4>1, <4>2
    <3> QED BY <2>3, <3>2, <3>3
  <2>5. CASE k = Len(scFiles[i]) /\ i = fd
    <3>1. k = n /\ Len(scFiles'[i]) = n + 1 /\ scFiles'[i][n + 1] = Eol BY <1>3, <2>5 DEF n
    <3> QED BY <1>3, <2>3, <3>1
  <2>6. CASE k = Len(scFiles[i]) /\ i # fd
    <3>1. PICK q \in Writers : scAt[q] = "eol" /\ scEvent[q] = scFiles[i][k] /\ scFd[q] = i BY <2>2, <2>6
    <3>2. Same(q) BY <1>6, <2>6, <3>1 DEF fd
    <3>3. scFiles'[i] = scFiles[i] BY <1>3, <2>1, <2>6
    <3> QED BY <2>1, <2>3, <2>6, <3>1, <3>2, <3>3 DEF Same
  <2> QED BY <2>4, <2>5, <2>6
<1>13. ASSUME NEW q \in Writers PROVE WriterInv(q)'
  <2>1. Ready(q) /\ Counting(q) /\ Copied(q) BY DEF ScInv, WriterInv
  <2>2. CASE q = p BY <1>6, <2>2 DEF WriterInv, Ready, Counting, Copied, Busy
  <2>3. CASE q # p
    <3>1. scAt'[q] = scAt[q] /\ scEvent'[q] = scEvent[q] /\ scFd'[q] = scFd[q] BY <1>6, <2>3 DEF Same
    <3>2. Ready(q)'
      <4>1. ASSUME Busy(q), scAt[q] # "eol", NEW i \in Nat, NEW k \in Nat, EventAt(i, k)'
            PROVE  /\ scFiles'[i][k].at # scEvent'[q].at
                   /\ scFiles'[i][k].at \notin scHurt' \/ scEvent'[q].at \notin scHurt' => scFiles'[i][k].at < scEvent'[q].at
        BY <1>1, <1>3, <1>5, <2>1, <3>1, <4>1 DEF Ready, Sound
      <4>2. Busy(q) => scEvent'[q].at \in 1..scStamps' BY <1>1, <2>1, <3>1 DEF Ready
      <4> QED BY <1>7, <3>1, <4>1, <4>2 DEF Ready, Sound
    <3>3. Counting(q)'
      <4>1. scAt[q] \in {"open", "write", "eol"} => ~ Sound(scEvent[q]) BY <1>8, <2>3 DEF Busy
      <4> QED BY <1>1, <3>1, <4>1 DEF Counting, Sound
    <3>4. Copied(q)'
      <4> SUFFICES ASSUME scAt[q] = "remove", NEW k \in Nat, EventAt(Len(scFiles), k)', Ledger'[k].at \notin scHurt'
                   PROVE  BackedUp(Ledger[k])'
        BY <1>3, <3>1 DEF Copied, Sound
      <4>1. Ledger' = scFiles'[Len(scFiles)] BY <1>3 DEF Ledger, Last
      <4>2. EventAt(Len(scFiles), k) /\ Ledger'[k] = Ledger[k] BY <1>3, <1>4, <1>5, <4>1
      <4> QED BY <1>1, <2>1, <4>2 DEF Copied, BackedUp, Sound
    <3> QED BY <3>2, <3>3, <3>4 DEF WriterInv
  <2> QED BY <2>2, <2>3
<1> QED BY <1>9, <1>10, <1>11, <1>12, <1>13 DEF ScInv

\* What is removed was copied, and a new ledger has no line.
LEMMA RemovedKeeps == ASSUME ScInv, NEW p \in Writers, RemoveLedger(p) PROVE ScInv'
<1> DEFINE n == Len(scFiles)
           States == {"idle", "read", "ask", "open", "write", "eol", "remove"}
<1>1. /\ scAt[p] = "remove" /\ scAt' = [scAt EXCEPT ![p] = "idle"] /\ scEvent' = [scEvent EXCEPT ![p] = NoEvent]
      /\ scFd' = [scFd EXCEPT ![p] = 0]
      /\ scFiles' = Append(scFiles, <<>>)
      /\ scBackups' = scBackups /\ scStamps' = scStamps /\ scHurt' = scHurt
  BY DEF RemoveLedger, ScOver
<1>2. /\ ScType /\ scAt \in [Writers -> States] /\ scEvent \in [Writers -> ScEvents] /\ scFd \in [Writers -> Nat]
      /\ scFiles \in Seq(Seq(ScEvents \cup {Eol})) /\ scStamps \in Nat
  BY <1>1 DEF ScInv, ScType
<1>3. /\ DOMAIN scFiles = 1..n /\ n \in Nat \ {0} /\ Ledger = scFiles[n]
      /\ \A i \in DOMAIN scFiles : DOMAIN scFiles[i] = 1..Len(scFiles[i])
  BY <1>2, LedgerIsFile
<1>4. /\ scFiles' \in Seq(Seq(ScEvents \cup {Eol})) /\ Len(scFiles') = n + 1 /\ scFiles'[n + 1] = <<>>
      /\ DOMAIN scFiles' = 1..(n + 1) /\ \A i \in DOMAIN scFiles : scFiles'[i] = scFiles[i]
  <2>1. <<>> \in Seq(ScEvents \cup {Eol}) OBVIOUS
  <2> DEFINE L == Seq(ScEvents \cup {Eol})
  <2> HIDE DEF L
  <2>2. scFiles \in Seq(L) /\ <<>> \in L BY <1>2, <2>1 DEF L
  <2>3. scFiles' \in Seq(L) /\ Len(scFiles') = n + 1 /\ scFiles'[n + 1] = <<>> BY <1>1, <2>2
  <2>4. DOMAIN scFiles' = 1..(n + 1) /\ \A i \in 1..n : scFiles'[i] = scFiles[i] BY <1>1, <2>2, <2>3
  <2> QED BY <1>3, <2>3, <2>4 DEF L
<1>5. scFiles' # <<>> /\ DOMAIN scFiles \subseteq DOMAIN scFiles' BY <1>3, <1>4
<1>6. \A i, k \in Nat : EventAt(i, k)' <=> EventAt(i, k)
  <2> TAKE i, k \in Nat
  <2>1. CASE i \in DOMAIN scFiles BY <1>4, <1>5, <2>1 DEF EventAt
  <2>2. CASE i \notin DOMAIN scFiles
    <3>1. i \in DOMAIN scFiles' => scFiles'[i] = <<>> BY <1>3, <1>4, <2>2
    <3>2. DOMAIN <<>> = {} OBVIOUS
    <3>3. ~ EventAt(i, k)' BY <3>1, <3>2 DEF EventAt
    <3> QED BY <2>2, <3>3 DEF EventAt
  <2> QED BY <2>1, <2>2
<1>7. \A i, k \in Nat : EventAt(i, k) => i \in DOMAIN scFiles /\ k \in DOMAIN scFiles[i] /\ scFiles'[i] = scFiles[i]
  BY <1>4 DEF EventAt
<1>8. scAt'[p] = "idle" /\ \A q \in Writers \ {p} : Same(q) BY <1>1, <1>2 DEF Same
<1>9. Busy(p) /\ \A q \in Writers : Busy(q)' => q # p /\ Busy(q) /\ scEvent'[q] = scEvent[q]
  BY <1>1, <1>8 DEF Busy, Same
<1>10. \A q \in Writers \ {p} : Busy(q) => ~ Sound(scEvent[q]) BY <1>9 DEF ScInv, Alone
<1> HIDE DEF n
<1>11. ScType'
  <2>1. NoEvent \in ScEvents BY ScAssumption DEF NoEvent, ScEvents
  <2>2. scAt' \in [Writers -> States] /\ scEvent' \in [Writers -> ScEvents] /\ scFd' \in [Writers -> Nat]
    BY <1>1, <1>2, <2>1
  <2>3. ASSUME NEW q \in Writers
        PROVE  /\ scAt'[q] \in {"write", "eol"} => scFd'[q] \in DOMAIN scFiles'
               /\ scAt'[q] = "read" => scEvent'[q].kind = "pr"
               /\ scAt'[q] = "ask" => scEvent'[q].kind = "check"
    BY <1>2, <1>5, <1>8 DEF Same, ScType
  <2> QED BY <1>1, <1>2, <1>4, <1>5, <2>2, <2>3 DEF ScType
<1>12. Alone'
  <2> SUFFICES ASSUME NEW q \in Writers, NEW r \in Writers, Busy(q)', Busy(r)', q # r
               PROVE  scEvent'[q].at \in scHurt' /\ scEvent'[q].at # scEvent'[r].at
    BY DEF Alone, Sound
  <2> QED BY <1>1, <1>9 DEF ScInv, Alone, Sound
<1>13. LedgersInv'
  <2>1. StampsPast' BY <1>1, <1>6, <1>7 DEF ScInv, LedgersInv, StampsPast
  <2>2. LinesInOrder'
    <3> SUFFICES ASSUME NEW i \in Nat, NEW k \in Nat, NEW l \in Nat, EventAt(i, k)', EventAt(i, l)', k < l
                 PROVE  /\ scFiles'[i][k].at # scFiles'[i][l].at
                        /\ scFiles'[i][k].at \notin scHurt' \/ scFiles'[i][l].at \notin scHurt'
                              => scFiles'[i][k].at < scFiles'[i][l].at
      BY DEF LinesInOrder, Sound
    <3> QED BY <1>1, <1>6, <1>7 DEF ScInv, LedgersInv, LinesInOrder, Sound
  <2>3. ClosesCount'
    <3> SUFFICES ASSUME NEW i \in Nat, NEW k \in Nat, EventAt(i, k)', scFiles'[i][k].at \notin scHurt', scFiles'[i][k].kind = "pr"
                 PROVE  scFiles'[i][k].about = OpenAt(scFiles'[i], k - 1, scFiles'[i][k].branch)
      BY DEF ClosesCount, Sound
    <3> QED BY <1>1, <1>6, <1>7 DEF ScInv, LedgersInv, ClosesCount, Sound
  <2>4. RemovedIsCopied'
    <3> SUFFICES ASSUME NEW i \in Nat, NEW k \in Nat, EventAt(i, k)', i < Len(scFiles'), scFiles'[i][k].at \notin scHurt'
                 PROVE  BackedUp(scFiles[i][k])'
      BY DEF RemovedIsCopied, Sound
    <3>1. EventAt(i, k) /\ scFiles'[i] = scFiles[i] /\ Sound(scFiles[i][k]) BY <1>1, <1>6, <1>7 DEF Sound
    <3>2. CASE i = n BY <1>1, <1>3, <3>1, <3>2 DEF ScInv, WriterInv, Copied, BackedUp, n
    <3>3. CASE i < n BY <1>1, <3>1, <3>3 DEF ScInv, LedgersInv, RemovedIsCopied, BackedUp, n
    <3> QED BY <1>3, <1>4, <3>2, <3>3
  <2> QED BY <2>1, <2>2, <2>3, <2>4 DEF LedgersInv
<1>14. OwnLine'
  <2> SUFFICES ASSUME NEW i \in Nat, NEW k \in Nat, EventAt(i, k)', scFiles'[i][k].at \notin scHurt'
               PROVE  /\ k = 1 \/ scFiles'[i][k - 1] = Eol
                      /\ IF k = Len(scFiles'[i])
                         THEN \E q \in Writers : scAt'[q] = "eol" /\ scEvent'[q] = scFiles'[i][k] /\ scFd'[q] = i
                         ELSE scFiles'[i][k + 1] = Eol
    BY DEF OwnLine, Sound
  <2>1. EventAt(i, k) /\ scFiles'[i] = scFiles[i] /\ Sound(scFiles[i][k]) BY <1>1, <1>6, <1>7 DEF Sound
  <2>2. /\ k = 1 \/ scFiles[i][k - 1] = Eol
        /\ IF k = Len(scFiles[i]) THEN \E q \in Writers : scAt[q] = "eol" /\ scEvent[q] = scFiles[i][k] /\ scFd[q] = i
           ELSE scFiles[i][k + 1] = Eol
    BY <2>1 DEF ScInv, OwnLine
  <2>3. \A q \in Writers : scAt[q] = "eol" => Same(q) BY <1>1, <1>8
  <2> QED BY <2>1, <2>2, <2>3 DEF Same
<1>15. ASSUME NEW q \in Writers PROVE WriterInv(q)'
  <2>1. Ready(q) BY DEF ScInv, WriterInv
  <2>2. CASE q = p BY <1>8, <2>2 DEF WriterInv, Ready, Counting, Copied, Busy
  <2>3. CASE q # p
    <3>1. scAt'[q] = scAt[q] /\ scEvent'[q] = scEvent[q] /\ scFd'[q] = scFd[q] BY <1>8, <2>3 DEF Same
    <3>2. Ready(q)'
      <4>1. ASSUME Busy(q), scAt[q] # "eol", NEW i \in Nat, NEW k \in Nat, EventAt(i, k)'
            PROVE  /\ scFiles'[i][k].at # scEvent'[q].at
                   /\ scFiles'[i][k].at \notin scHurt' \/ scEvent'[q].at \notin scHurt' => scFiles'[i][k].at < scEvent'[q].at
        BY <1>1, <1>6, <1>7, <2>1, <3>1, <4>1 DEF Ready, Sound
      <4>2. Busy(q) => scEvent'[q].at \in 1..scStamps' BY <1>1, <2>1, <3>1 DEF Ready
      <4> QED BY <1>9, <3>1, <4>1, <4>2 DEF Ready, Sound
    <3>3. Counting(q)'
      <4>1. scAt[q] \in {"open", "write", "eol"} => ~ Sound(scEvent[q]) BY <1>10, <2>3 DEF Busy
      <4> QED BY <1>1, <3>1, <4>1 DEF Counting, Sound
    <3>4. Copied(q)'
      <4>1. \A k \in Nat : ~ EventAt(Len(scFiles), k)'
        <5> SUFFICES ASSUME NEW k \in Nat, k \in DOMAIN scFiles'[n + 1] PROVE FALSE BY <1>4 DEF EventAt
        <5>1. DOMAIN <<>> = {} OBVIOUS
        <5> QED BY <1>4, <5>1
      <4> QED BY <4>1 DEF Copied
    <3> QED BY <3>2, <3>3, <3>4 DEF WriterInv
  <2> QED BY <2>2, <2>3
<1> QED BY <1>11, <1>12, <1>13, <1>14, <1>15 DEF ScInv

-----------------------------------------------------------------------------

LEMMA ScorecardStarts == ASSUME ScInit PROVE ScInv
<1>1. /\ scFiles = <<<<>>>> /\ scBackups = {} /\ scStamps = 0
      /\ scAt = [p \in Writers |-> "idle"] /\ scEvent = [p \in Writers |-> NoEvent]
      /\ scFd = [p \in Writers |-> 0]
  BY DEF ScInit
<1>2. NoEvent \in ScEvents BY ScAssumption DEF NoEvent, ScEvents
<1>3. scFiles \in Seq(Seq(ScEvents \cup {Eol})) /\ scFiles # <<>>
  <2>1. <<>> \in Seq(ScEvents \cup {Eol}) OBVIOUS
  <2> DEFINE L == Seq(ScEvents \cup {Eol})
  <2> HIDE DEF L
  <2>2. <<>> \in L BY <2>1 DEF L
  <2>3. <<<<>>>> \in Seq(L) /\ <<<<>>>> # <<>> BY <2>2
  <2> QED BY <1>1, <2>3 DEF L
<1>4. ScType BY <1>1, <1>2, <1>3 DEF ScType
<1>5. \A i, k : ~ EventAt(i, k)
  <2>1. \A i \in DOMAIN scFiles : scFiles[i] = <<>> BY <1>1
  <2>2. DOMAIN <<>> = {} OBVIOUS
  <2> QED BY <2>1, <2>2 DEF EventAt
<1>6. \A p \in Writers : ~ Busy(p) /\ scAt[p] = "idle" BY <1>1 DEF Busy
<1>7. Alone BY <1>6 DEF Alone
<1>8. LedgersInv BY <1>5 DEF LedgersInv, StampsPast, LinesInOrder, ClosesCount, RemovedIsCopied
<1>9. OwnLine BY <1>5 DEF OwnLine
<1>10. \A p \in Writers : WriterInv(p) BY <1>6 DEF WriterInv, Ready, Counting, Copied
<1> QED BY <1>4, <1>7, <1>8, <1>9, <1>10 DEF ScInv

\* The operations that take a stamp.
LEMMA OperationsKeep ==
    ASSUME ScInv, NEW p \in Writers,
           \/ \E b \in Branches : RecordTurn(p, b) \/ ClosePr(p, b)
           \/ \E pr \in Events : Verify(p, pr)
           \/ CopyLedger(p)
    PROVE  ScInv'
<1>1. ASSUME NEW b \in Branches, RecordTurn(p, b) PROVE ScInv'
  BY <1>1, StampsKeep DEF RecordTurn, scFileVars
<1>2. ASSUME NEW b \in Branches, ClosePr(p, b) PROVE ScInv'
  BY <1>2, StampsKeep DEF ClosePr, scFileVars
<1>3. ASSUME NEW pr \in Events, Verify(p, pr) PROVE ScInv'
  <2>1. pr \in ScEvents BY LedgerIsFile, EventsAreRead DEF ScInv, Events, IsRead
  <2>2. pr.branch \in Branches /\ {pr.at} \in SUBSET Nat BY <2>1 DEF ScEvents
  <2> QED BY <1>3, <2>2, StampsKeep DEF Verify, scFileVars
<1>4. ASSUME CopyLedger(p) PROVE ScInv'
  <2>1. NoEvent.branch \in Branches BY ScAssumption DEF NoEvent
  <2> QED BY <1>4, <2>1, StampsKeep DEF CopyLedger
<1> QED BY <1>1, <1>2, <1>3, <1>4

LEMMA ScorecardSteps == ASSUME ScInv, [ScNext]_scVars PROVE ScInv'
<1>1. ASSUME NEW p \in Writers, Answered(p) PROVE ScInv'
  <2>1. scAt[p] = "ask" /\ UNCHANGED <<scFiles, scBackups, scStamps, scHurt>> BY <1>1 DEF Answered, scFileVars
  <2>2. CASE ScOver(p) BY <2>1, <2>2, StopKeeps DEF Still
  <2>3. CASE ScGoto(p, "ask", "open") /\ UNCHANGED <<scEvent, scFd>> BY <2>1, <2>3, GoesKeep DEF ScGoto
  <2> QED BY <1>1, <2>2, <2>3 DEF Answered
<1>2. ASSUME NEW p \in Writers, OpenLedger(p) PROVE ScInv'
  BY <1>2, GoesKeep DEF OpenLedger, ScGoto, scFileVars
<1>3. ASSUME UNCHANGED scVars PROVE ScInv'
  <2>1. Still /\ \A q \in Writers : Same(q) BY <1>3 DEF scVars, Still, Same
  <2>2. ScType' /\ Alone' BY <1>3 DEF ScInv, ScType, Alone, Busy, Sound, scVars
  <2> QED BY <2>1, <2>2, StillLedgers, StillOwnLine, StillWriter DEF ScInv
<1> QED BY <1>1, <1>2, <1>3, OperationsKeep, ReadKeeps, WrittenKeeps, EndedKeeps, RemovedKeeps, DiesKeeps DEF ScNext

\* For any number of processes, whatever they write, reset and crash: each turn is
\* counted by one close of its branch or is still open, and an event that was written is read or is in a
\* backup, unless its operation overlapped another.
THEOREM ScorecardAlwaysSound == ScSpec => []ScorecardSound
<1>1. ScInit => ScInv BY ScorecardStarts
<1>2. ScInv /\ [ScNext]_scVars => ScInv' BY ScorecardSteps
<1>3. ScInv => ScorecardSound BY CountsOnce, KeepsLedger DEF ScorecardSound
<1> QED BY <1>1, <1>2, <1>3, PTL DEF ScSpec

=============================================================================
