------------------------------ MODULE Startup ------------------------------
(***************************************************************************)
(* Replicas that start against one database: settings and their guards     *)
(* (core/settings.py), the engine (db/engine.py), the tables, API keys     *)
(* (core/auth.py), the demonstration runs (db/demo_seeder.py), the hooks   *)
(* and the shutdown (app/lifespan.py), and who is let in afterwards        *)
(* (core/auth.py, web/auth.py).                                            *)
(***************************************************************************)
EXTENDS Naturals, Sequences, FiniteSets, SequencesExt, FiniteSetsExt

CONSTANTS
    Replicas,
    Keys,        \* API keys
    DemoKeys,    \* dev-admin-key and its like, published in the repository
    AdminNamed,  \* keys with "admin" in them
    Friday,      \* FRIDAY_API_KEY, or none
    Configs,     \* the settings replicas start with
    Boots        \* bound: starts of replicas

\* The guards of validate_production_security, one name per clause.
Faults == {"wildcard origin", "mock mode", "mock model", "mock fallback", "demo key",
           "weak secret", "no llm key", "no inference key"}

Settings ==
    [env : {"production", "development", "staging"}, faults : SUBSET Faults,
     db : {"oracle", "sqlite", "postgres", "other", "none"},
     apiKeys : Seq(Keys), services : SUBSET Keys, secret : BOOLEAN, demo : BOOLEAN,
     worker : {"unset", "on", "off"}, loops : SUBSET {"news", "research"}]

\* What the parameters are; the instance that gives them assumes it.
StartupAssumption ==
    /\ DemoKeys \subseteq Keys /\ AdminNamed \subseteq Keys
    /\ Configs \subseteq Settings
    /\ Boots \in Nat

VARIABLES
    tables,  \* create_all has run
    keys,    \* rows of api_keys: [key -> [role, revoked]] over the keys stored
    demo,    \* demonstration runs stored, and "audit" for their audit records
    boot,    \* [Replicas -> [pc, conf, todo, adds]]
    starts,  \* how many replicas have started
    hooks,   \* [Replicas -> SUBSET {"worker", "news", "research"}], loops that run
    cookies, \* [key, signer] of the session cookies handed out
    answer,  \* the last request's answer: [key, status, late]
    revoked  \* history: keys an operator has revoked

startupVars == <<tables, keys, demo, boot, starts, hooks, cookies, answer, revoked>>

-----------------------------------------------------------------------------
(* The demonstrations: who rests on whom, by position *)

\* documents[i] is the source of document i, chunks[i] the document of chunk i, claims[i] the
\* document and chunk of claim i, evidence[i] the claim and the document of edge i, and
\* findings[i] the claims of finding i.
SodiumIonTexts == [sources |-> 4, documents |-> <<1, 2, 3>>, chunks |-> <<1, 2, 3>>]
SodiumIonClaims == [claims |-> <<1, 2, 3, 3>>,
                    evidence |-> <<<<1, 1>>, <<2, 2>>, <<3, 3>>, <<4, 3>>>>,
                    findings |-> <<{1}, {2}, {3, 4}>>]
SodiumIonFiles == [artifacts |-> 4, events |-> 7]
SolidStateTexts == [sources |-> 2, documents |-> <<1, 2>>, chunks |-> <<1, 2>>]
SolidStateClaims == [claims |-> <<1, 2>>, evidence |-> <<<<1, 1>>, <<2, 2>>>>,
                     findings |-> <<{1, 2}>>]
SolidStateFiles == [artifacts |-> 4, events |-> 0]
MultiAgentTexts == [sources |-> 1, documents |-> <<1>>, chunks |-> <<1>>]
MultiAgentClaims == [claims |-> <<1>>, evidence |-> <<<<1, 1>>>>, findings |-> <<{1}>>]
MultiAgentFiles == [artifacts |-> 4, events |-> 0]
QuantumTexts == [sources |-> 2, documents |-> <<1, 2>>, chunks |-> <<1, 2>>]
\* The second edge is the critic's: it sets the first document against the second claim, with
\* a span that ends before its quote does.
QuantumClaims == [claims |-> <<1, 2>>, evidence |-> <<<<1, 1>>, <<2, 1>>>>, findings |-> <<>>]
QuantumFiles == [artifacts |-> 4, events |-> 0]

Demonstrations == <<SodiumIonTexts @@ SodiumIonClaims @@ SodiumIonFiles,
                    SolidStateTexts @@ SolidStateClaims @@ SolidStateFiles,
                    MultiAgentTexts @@ MultiAgentClaims @@ MultiAgentFiles,
                    QuantumTexts @@ QuantumClaims @@ QuantumFiles>>

\* The rows of a run, flushed in this order, refer to rows flushed before.
RefersBack(d) ==
    /\ Range(d.documents) \subseteq 1 .. d.sources
    /\ Range(d.chunks) \subseteq DOMAIN d.documents
    /\ Range(d.claims) \subseteq DOMAIN d.chunks
    /\ \A e \in Range(d.evidence) : e[1] \in DOMAIN d.claims /\ e[2] \in DOMAIN d.documents
    /\ \A f \in Range(d.findings) : f \subseteq DOMAIN d.claims

Whole == DOMAIN Demonstrations \cup {0}

-----------------------------------------------------------------------------

Down == [pc |-> "down", conf |-> CHOOSE c \in Configs : TRUE, todo |-> {}, adds |-> {}]

Roles == [role : {"admin", "member"}, revoked : BOOLEAN]

TypeOK ==
    /\ tables \in BOOLEAN
    /\ DOMAIN keys \subseteq Keys /\ Range(keys) \subseteq Roles
    /\ demo \subseteq Whole
    /\ \A r \in Replicas :
         /\ boot[r].pc \in {"down", "tables", "create", "lookup", "store", "demo", "write",
                            "hooks", "serving", "stopping"}
         /\ boot[r].conf \in Configs
         /\ boot[r].todo \subseteq Keys
         /\ hooks[r] \subseteq {"worker", "news", "research"}
    /\ starts \in 0 .. Boots
    /\ revoked \subseteq Keys

Init ==
    /\ tables = FALSE
    /\ keys = <<>>
    /\ demo = {}
    /\ boot = [r \in Replicas |-> Down]
    /\ starts = 0
    /\ hooks = [r \in Replicas |-> {}]
    /\ cookies = {}
    /\ answer = [status |-> "none", late |-> FALSE]
    /\ revoked = {}

databaseVars == <<tables, keys, demo>>
sessionVars == <<cookies, answer>>

At(r, pc) == boot[r].pc = pc
GoTo(r, pc) == boot' = [boot EXCEPT ![r] = IF pc = "down" THEN Down ELSE [@ EXCEPT !.pc = pc]]

-----------------------------------------------------------------------------
(* Settings *)

Production(c) == c.env = "production"
Development(c) == c.env = "development"

\* Settings() itself refuses a DSN of SQLite or PostgreSQL, get_async_engine what is no
\* Oracle DSN.
DatabaseAccepted(c) == c.db = "oracle"

Secure(c) == Production(c) => c.faults = {} /\ c.db = "oracle"

\* Demonstration keys join the others in development and are struck off in production, all
\* but Friday's, which is appended once more.
Listed(c) ==
    LET given == Range(c.apiKeys) \cup c.services
    IN IF Production(c) THEN (given \ DemoKeys) \cup (c.services \cap {Friday})
       ELSE IF Development(c) THEN given \cup DemoKeys ELSE given

\* The first of the list administers, and so does a key that is named so; a service never.
RoleOf(c, k) ==
    IF k \notin c.services /\ (k \in AdminNamed \/ (c.apiKeys # <<>> /\ k = Head(c.apiKeys)))
    THEN "admin" ELSE "member"

\* Outside production cookies are signed with a secret of the process.
Signer(r) == IF boot[r].conf.secret THEN "shared" ELSE r

-----------------------------------------------------------------------------
(* Start *)

\* No cookie that the process' predecessor signed with a secret of its own holds any longer.
Start(r, c) ==
    /\ At(r, "down") /\ starts < Boots
    /\ boot' = [boot EXCEPT ![r] =
                   IF DatabaseAccepted(c) THEN [Down EXCEPT !.pc = "tables", !.conf = c] ELSE Down]
    /\ starts' = starts + 1
    /\ cookies' = {k \in cookies : k.signer # r}
    /\ UNCHANGED <<databaseVars, hooks, answer, revoked>>

\* create_all looks which tables are missing and creates those.
LookAtTables(r) ==
    /\ At(r, "tables")
    /\ GoTo(r, IF tables THEN "lookup" ELSE "create")
    /\ UNCHANGED <<databaseVars, hooks, sessionVars, revoked, starts>>

\* A table that has come into being meanwhile makes the statement fail, and the start.
CreateTables(r) ==
    /\ At(r, "create")
    /\ tables' = TRUE
    /\ GoTo(r, IF tables THEN "down" ELSE "lookup")
    /\ UNCHANGED <<keys, demo, hooks, sessionVars, revoked, starts>>

\* Settings unfit for production stop the start here, with the tables made.
BeginKeys(r) ==
    /\ At(r, "lookup") /\ boot[r].todo = {} /\ boot[r].adds = {}
    /\ IF Secure(boot[r].conf)
       THEN boot' = [boot EXCEPT ![r].todo = Listed(boot[r].conf), ![r].pc = "store"]
       ELSE GoTo(r, "down")
    /\ UNCHANGED <<databaseVars, hooks, sessionVars, revoked, starts>>

LookUpKey(r) ==
    /\ At(r, "store")
    /\ \E k \in boot[r].todo :
         boot' = [boot EXCEPT ![r].todo = @ \ {k},
                              ![r].adds = IF k \in DOMAIN keys THEN @ ELSE @ \cup {k}]
    /\ UNCHANGED <<databaseVars, hooks, sessionVars, revoked, starts>>

NewRows(r) == [k \in boot[r].adds |-> [role |-> RoleOf(boot[r].conf, k), revoked |-> FALSE]]

\* Mutant: rows that are missing by the lookup are merged into the table.
MergeKeys(r) ==
    /\ At(r, "store") /\ boot[r].todo = {}
    /\ keys' = NewRows(r) @@ keys
    /\ boot' = [boot EXCEPT ![r].adds = {}, ![r].pc = "demo"]
    /\ UNCHANGED <<tables, demo, hooks, sessionVars, revoked, starts>>

\* One transaction: a key that another replica has stored since the lookup fails it all,
\* and the start.
StoreKeys(r) ==
    /\ At(r, "store") /\ boot[r].todo = {}
    /\ IF boot[r].adds \cap DOMAIN keys = {}
       THEN /\ keys' = [k \in DOMAIN keys \cup boot[r].adds |->
                         IF k \in DOMAIN keys THEN keys[k] ELSE NewRows(r)[k]]
            /\ boot' = [boot EXCEPT ![r].adds = {}, ![r].pc = "demo"]
       ELSE GoTo(r, "down") /\ UNCHANGED keys
    /\ UNCHANGED <<tables, demo, hooks, sessionVars, revoked, starts>>

\* The first demonstration stands for all of them.
LookForDemo(r) ==
    /\ At(r, "demo")
    /\ GoTo(r, IF boot[r].conf.demo /\ 1 \notin demo THEN "write" ELSE "hooks")
    /\ UNCHANGED <<databaseVars, hooks, sessionVars, revoked, starts>>

\* Mutant: each demonstration is committed by itself.
WriteDemoByRun(r) ==
    /\ At(r, "write")
    /\ \E d \in Whole \ demo :
         /\ demo' = demo \cup {d}
         /\ GoTo(r, IF demo' = Whole THEN "hooks" ELSE "write")
    /\ UNCHANGED <<tables, keys, hooks, sessionVars, revoked, starts>>

\* Four runs and the audit records in one transaction; the primary key of a run another
\* replica has stored fails it.
WriteDemo(r) ==
    /\ At(r, "write")
    /\ IF demo = {} /\ \A d \in Range(Demonstrations) : RefersBack(d)
       THEN demo' = Whole /\ GoTo(r, "hooks")
       ELSE UNCHANGED demo /\ GoTo(r, "down")
    /\ UNCHANGED <<tables, keys, hooks, sessionVars, revoked, starts>>

EmbeddedWorker(c) == c.worker = "on" \/ (c.worker = "unset" /\ ~Production(c))

StartHooks(r) ==
    /\ At(r, "hooks")
    /\ hooks' = [hooks EXCEPT ![r] = boot[r].conf.loops
                                     \cup IF EmbeddedWorker(boot[r].conf) THEN {"worker"} ELSE {}]
    /\ GoTo(r, "serving")
    /\ UNCHANGED <<databaseVars, sessionVars, revoked, starts>>

-----------------------------------------------------------------------------
(* Shutdown *)

Terminate(r) ==
    /\ At(r, "serving")
    /\ GoTo(r, "stopping")
    /\ UNCHANGED <<databaseVars, hooks, sessionVars, revoked, starts>>

\* Research first, then news, then the worker.
StopHook(r) ==
    /\ At(r, "stopping") /\ hooks[r] # {}
    /\ LET h == IF "research" \in hooks[r] THEN "research"
                ELSE IF "news" \in hooks[r] THEN "news" ELSE "worker"
       IN hooks' = [hooks EXCEPT ![r] = @ \ {h}]
    /\ UNCHANGED <<databaseVars, boot, sessionVars, revoked, starts>>

\* All are stopped, or five seconds have passed and the rest ends with the process.
Exit(r) ==
    /\ At(r, "stopping")
    /\ hooks' = [hooks EXCEPT ![r] = {}]
    /\ GoTo(r, "down")
    /\ UNCHANGED <<databaseVars, sessionVars, revoked, starts>>

Crash(r) ==
    /\ ~At(r, "down")
    /\ GoTo(r, "down")
    /\ hooks' = [hooks EXCEPT ![r] = {}]
    /\ UNCHANGED <<databaseVars, sessionVars, revoked, starts>>

-----------------------------------------------------------------------------
(* Requests *)

\* The row is read for every request, by whatever means the key has come.
Judged(k, cookie) == IF k \in DOMAIN keys /\ ~keys[k].revoked THEN "ok" ELSE "401"

Reply(k, status) ==
    answer' = [status |-> status, late |-> status = "ok" /\ k \in revoked]

\* get_current_api_key and get_friday_api_key: the limiter, which works as the window in
\* Library does and here says what it likes, is asked before the table is read.
Request(r, k, cookie) ==
    /\ At(r, "serving")
    /\ cookie => [key |-> k, signer |-> Signer(r)] \in cookies
    /\ \E status \in {"429", Judged(k, cookie)} : Reply(k, status)
    /\ UNCHANGED <<databaseVars, boot, hooks, cookies, revoked, starts>>

\* get_web_user asks no limiter.
Browse(r, k) ==
    /\ At(r, "serving") /\ [key |-> k, signer |-> Signer(r)] \in cookies
    /\ Reply(k, Judged(k, TRUE))
    /\ UNCHANGED <<databaseVars, boot, hooks, cookies, revoked, starts>>

Login(r, k) ==
    /\ At(r, "serving") /\ Judged(k, FALSE) = "ok"
    /\ cookies' = cookies \cup {[key |-> k, signer |-> Signer(r)]}
    /\ UNCHANGED <<databaseVars, boot, hooks, answer, revoked, starts>>

\* The cookie's lifetime ends, or its user logs out.
EndSession ==
    /\ \E c \in cookies : cookies' = cookies \ {c}
    /\ UNCHANGED <<databaseVars, boot, hooks, answer, revoked, starts>>

\* An operator, at the database.
Revoke(k) ==
    /\ k \in DOMAIN keys /\ ~keys[k].revoked
    /\ keys' = [keys EXCEPT ![k].revoked = TRUE]
    /\ revoked' = revoked \cup {k}
    /\ UNCHANGED <<tables, demo, boot, hooks, sessionVars, starts>>

-----------------------------------------------------------------------------

Next ==
    \/ \E r \in Replicas :
         \/ \E c \in Configs : Start(r, c)
         \/ LookAtTables(r) \/ CreateTables(r)
         \/ BeginKeys(r) \/ LookUpKey(r) \/ StoreKeys(r)
         \/ LookForDemo(r) \/ WriteDemo(r) \/ StartHooks(r)
         \/ Terminate(r) \/ StopHook(r) \/ Exit(r) \/ Crash(r)
         \/ \E k \in Keys :
              \/ \E cookie \in BOOLEAN : Request(r, k, cookie)
              \/ Browse(r, k) \/ Login(r, k)
    \/ EndSession
    \/ \E k \in Keys : Revoke(k)

Spec == Init /\ [][Next]_startupVars

-----------------------------------------------------------------------------
(* Properties *)

\* A key that was revoked at the database stays revoked through every later start, races of
\* replicas included, and nobody is let in with it, be it by header or by a session cookie
\* handed out before (core/auth.py:372, :217; web/auth.py:84).
RevocationLasts ==
    /\ \A k \in revoked : keys[k].revoked
    /\ ~answer.late

\* A replica that serves finds every key of its settings in the table and the
\* demonstrations complete when it seeds them, though replicas start at once, lose the race
\* for a row or die half way (app/lifespan.py:153, db/demo_seeder.py:55).
ServingIsSeeded ==
    /\ \A r \in Replicas : At(r, "serving") =>
         /\ Listed(boot[r].conf) \subseteq DOMAIN keys
         /\ boot[r].conf.demo => demo = Whole
    /\ demo \in {{}, Whole}
=============================================================================
