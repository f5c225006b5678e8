---------------------------- MODULE OAuthManager ----------------------------
(***************************************************************************)
(* The credentials of one OAuth provider (internal/providers/oauthproxy):  *)
(* each gateway instance keeps a token file of its own, the instances      *)
(* share the database table.  An instance that starts merges the tokens of *)
(* its environment into the file, then attaches the table and copies the   *)
(* file into it; requests and logins read the table first and write only   *)
(* to it.  Refresh tokens rotate at the provider's will: a refresh may     *)
(* consume the token it is given.                                          *)
(*                                                                         *)
(* Tokens are numbered in the order the provider issued them, 0 is none.   *)
(* An access token is kept with its expiry.  A handler holds the mutex of  *)
(* its instance from its first read to its last write.                     *)
(***************************************************************************)
EXTENDS Naturals

CONSTANTS Instances,    \* gateway instances
          Handlers,     \* their requests, as the goroutines that run them
          home,         \* the instance a handler belongs to
          MaxToken,     \* bound: tokens the provider issues
          None,         \* no credentials are stored; no instance
          Torn          \* a token file that does not parse

ASSUME OAuthAssumption ==
    /\ home \in [Handlers -> Instances]
    /\ MaxToken \in Nat \ {0}

Token      == 0 .. MaxToken
Credential == [refresh : Token, access : Token]
Empty      == [refresh |-> 0, access |-> 0]

ASSUME ValueAssumption ==
    /\ None \notin Credential /\ Torn \notin Credential /\ None # Torn
    /\ None \notin Instances

VARIABLES issued,       \* provider: the last token issued
          valid,        \* provider: the refresh tokens it accepts
          live,         \* provider: the access tokens that have not expired
          env,          \* the tokens in the environment of every instance
          file,         \* each instance: its token file
          db,           \* the table
          phase,        \* each instance: how far it has started
          memory,       \* each instance: the manager's states map
          task          \* each handler: the call of the manager it makes

(* History. *)
VARIABLES session,      \* a login was reported as saved
          excuses,      \* what happened that may cost a session
          usedBy,       \* the instance that consumed a refresh token
          author        \* the instance that wrote the table last

providerVars == <<issued, valid, live>>
vars == <<providerVars, env, file, db, phase, memory, task, session, excuses, usedBy,
          author>>

Idle == [pc |-> "idle", op |-> "get", cred |-> Empty, read |-> None]

TypeOK ==
    /\ issued \in Token /\ valid \subseteq Token /\ live \subseteq Token
    /\ env \in Credential
    /\ file \in [Instances -> Credential \cup {None, Torn}]
    /\ db \in Credential \cup {None}
    /\ phase \in [Instances -> {"down", "constructed", "up"}]
    /\ memory \in [Instances -> Credential \cup {None}]
    /\ task \in [Handlers -> [pc : {"idle", "refresh", "persist"}, op : {"get", "login"},
                              cred : Credential, read : Credential \cup {None}]]
    /\ session \in BOOLEAN
    /\ excuses \subseteq {"lost", "raced", "reverted"}
    /\ usedBy \in [Token -> Instances \cup {None}]
    /\ author \in Instances \cup {None}

Init ==
    /\ env \in {Empty, [refresh |-> 1, access |-> 0], [refresh |-> 1, access |-> 1]}
    /\ issued = env.refresh
    /\ valid = {env.refresh} \ {0}
    /\ live = {env.access} \ {0}
    /\ file = [i \in Instances |-> None] /\ db = None
    /\ phase = [i \in Instances |-> "down"]
    /\ memory = [i \in Instances |-> None]
    /\ task = [h \in Handlers |-> Idle]
    /\ session = (env.refresh # 0)
    /\ excuses = {}
    /\ usedBy = [t \in Token |-> None] /\ author = None

-----------------------------------------------------------------------------
(* What the manager reads, under the mutex. *)

Attached(i) == phase[i] = "up"
FromDB(i)   == Attached(i) /\ db # None

Loadable(i) == FromDB(i) \/ file[i] # Torn

(* Mutant: the file is asked before the table. *)
FileFirst(i) == IF file[i] # None THEN file[i] ELSE IF FromDB(i) THEN db ELSE memory[i]

(* The table first, then the file, then what the map held before. *)
loadStateLocked(i) ==
    IF FromDB(i) THEN db ELSE IF file[i] # None THEN file[i] ELSE memory[i]

(* UpsertCredentials: a blank field keeps the one that is stored. *)
Merged(c, new) ==
    [refresh |-> IF new.refresh = 0 THEN c.refresh ELSE new.refresh,
     access  |-> IF new.access = 0 THEN c.access ELSE new.access]

Stored(c) == IF c = None THEN Empty ELSE c

(* Mutant: a call does not wait for the others of its instance. *)
UnlockedAlways(i) == TRUE

Unlocked(i) == \A h \in Handlers : home[h] = i => task[h].pc = "idle"

(* An older refresh token takes the place of a newer one. *)
Reverts(old, new) == old \in Credential /\ new.refresh < old.refresh

-----------------------------------------------------------------------------
(* An instance starts and stops. *)

Down(i) ==
    /\ phase' = [phase EXCEPT ![i] = "down"]
    /\ memory' = [memory EXCEPT ![i] = None]
    /\ task' = [h \in Handlers |-> IF home[h] = i THEN Idle ELSE task[h]]

(* A rotated token that is not stored yet is gone with the process. *)
DropsRotated(i) == \E h \in Handlers :
    home[h] = i /\ task[h].pc = "persist" /\ task[h].op = "get"

(* NewManager and SetInitial: the file is read, the environment merged into *)
(* it and the result saved, whether or not that works.                      *)
Construct(i) ==
    /\ phase[i] = "down"
    /\ phase' = [phase EXCEPT ![i] = "constructed"]
    /\ \/ file[i] = Torn /\ UNCHANGED <<file, memory, excuses>>
       \/ /\ file[i] # Torn
          /\ LET c == Merged(Stored(file[i]), env)
             IN  /\ memory' = [memory EXCEPT ![i] = c]
                 /\ \/ /\ file' = [file EXCEPT ![i] = c]
                       /\ excuses' = excuses \cup
                             (IF Reverts(file[i], c) THEN {"reverted"} ELSE {})
                    \/ UNCHANGED <<file, excuses>>
    /\ UNCHANGED <<providerVars, env, db, task, session, usedBy, author>>

(* os.WriteFile truncates the file first. *)
ConstructCrashes(i) ==
    /\ phase[i] = "down"
    /\ file' = [file EXCEPT ![i] = Torn]
    /\ excuses' = excuses \cup {"lost"}
    /\ UNCHANGED <<providerVars, env, db, phase, memory, task, session, usedBy, author>>

(* Mutant: a file that does not parse is copied all the same. *)
UseStoreUnparsed(i) ==
    /\ phase[i] = "constructed" /\ Unlocked(i)
    /\ memory' = [memory EXCEPT ![i] = loadStateLocked(i)]
    /\ phase' = [phase EXCEPT ![i] = "up"]
    /\ UNCHANGED <<providerVars, env, file, db, task, session, excuses, usedBy, author>>

(* The table is attached and the file copied into it. *)
UseStore(i) ==
    /\ phase[i] = "constructed" /\ Unlocked(i) /\ file[i] # Torn
    /\ LET c == loadStateLocked(i)
       IN  /\ memory' = [memory EXCEPT ![i] = c]
           /\ db' = IF c = None THEN db ELSE c
           /\ author' = IF c = None THEN author ELSE i
           /\ excuses' = excuses \cup
                 (IF c # None /\ Reverts(db, c) THEN {"reverted"} ELSE {})
    /\ phase' = [phase EXCEPT ![i] = "up"]
    /\ UNCHANGED <<providerVars, env, file, task, session, usedBy>>

(* The file does not parse or the table cannot be written: New fails. *)
UseStoreFails(i) ==
    /\ phase[i] = "constructed" /\ Unlocked(i)
    /\ Down(i)
    /\ UNCHANGED <<providerVars, env, file, db, session, excuses, usedBy, author>>

Crash(i) ==
    /\ phase[i] # "down"
    /\ file' \in {file} \cup
          (IF ~Attached(i) /\ DropsRotated(i) THEN {[file EXCEPT ![i] = Torn]} ELSE {})
    /\ excuses' = excuses \cup (IF DropsRotated(i) THEN {"lost"} ELSE {})
    /\ Down(i)
    /\ UNCHANGED <<providerVars, env, db, session, usedBy, author>>

-----------------------------------------------------------------------------
(* The provider. *)

Expire(t) ==
    /\ t \in live
    /\ live' = live \ {t}
    /\ UNCHANGED <<issued, valid, env, file, db, phase, memory, task, session, excuses,
                   usedBy, author>>

(* A refresh issues an access token and keeps the refresh token or rotates it. *)
Refreshed(r, new, i) ==
    /\ r \in valid
    /\ issued < MaxToken
    /\ issued' = issued + 1
    /\ live' = live \cup {issued'}
    /\ new.access = issued'
    /\ new.refresh \in {r, issued'}
    /\ valid' = (valid \ {r}) \cup {new.refresh}
    /\ usedBy' = IF new.refresh = r THEN usedBy ELSE [usedBy EXCEPT ![r] = i]

-----------------------------------------------------------------------------
(* GetAccessToken.  Requests run as soon as the providers are constructed: *)
(* the first listing of their models does not wait for the table.          *)

GetAccessToken(h) ==
    LET i == home[h]
        c == loadStateLocked(i)
    IN  /\ phase[i] # "down" /\ task[h].pc = "idle" /\ Unlocked(i) /\ Loadable(i)
        /\ memory' = [memory EXCEPT ![i] = c]
        /\ \/ /\ c = None \/ c.refresh = 0 \/ c.access \in live
              /\ UNCHANGED task
           \/ /\ c # None /\ c.refresh # 0 /\ c.access \notin live
              /\ task' = [task EXCEPT ![h] = [pc |-> "refresh", op |-> "get",
                                              cred |-> c, read |-> db]]
        /\ UNCHANGED <<providerVars, env, file, db, phase, session, excuses, usedBy, author>>

RefreshToken(h) ==
    /\ task[h].pc = "refresh"
    /\ \E new \in Credential :
          /\ Refreshed(task[h].cred.refresh, new, home[h])
          /\ task' = [task EXCEPT ![h].pc = "persist", ![h].cred = new]
          /\ memory' = [memory EXCEPT ![home[h]] = new]
    /\ UNCHANGED <<env, file, db, phase, session, excuses, author>>

(* The provider refuses the token or is not reached. *)
RefreshFails(h) ==
    /\ task[h].pc = "refresh"
    /\ task' = [task EXCEPT ![h] = Idle]
    /\ UNCHANGED <<providerVars, env, file, db, phase, memory, session, excuses, usedBy, author>>

(* The provider has rotated the token and its answer is lost. *)
RefreshLost(h) ==
    /\ task[h].pc = "refresh"
    /\ \E new \in Credential : Refreshed(task[h].cred.refresh, new, home[h])
    /\ task' = [task EXCEPT ![h] = Idle]
    /\ excuses' = excuses \cup {"lost"}
    /\ UNCHANGED <<env, file, db, phase, memory, session, author>>

-----------------------------------------------------------------------------
(* UpsertCredentials, after a login or with a pasted refresh token. *)

UpsertCredentials(h) ==
    LET i == home[h]
    IN  /\ Attached(i) /\ task[h].pc = "idle" /\ Unlocked(i) /\ Loadable(i)
        /\ issued < MaxToken
        /\ issued' = issued + 1
        /\ valid' = valid \cup {issued'}
        /\ \E access \in {0, issued'} :
              LET c == Merged(Stored(loadStateLocked(i)),
                              [refresh |-> issued', access |-> access])
              IN  /\ live' = live \cup ({access} \ {0})
                  /\ memory' = [memory EXCEPT ![i] = c]
                  /\ task' = [task EXCEPT ![h] = [pc |-> "persist", op |-> "login",
                                                  cred |-> c, read |-> db]]
    /\ UNCHANGED <<env, file, db, phase, session, excuses, usedBy, author>>

(* persistStateLocked: the table when there is one, else the file. *)
Persist(h) ==
    LET i == home[h]
    IN  /\ task[h].pc = "persist"
        /\ \/ /\ Attached(i)
              /\ db' = task[h].cred /\ author' = i
              /\ UNCHANGED file
           \/ /\ ~Attached(i)
              /\ file' = [file EXCEPT ![i] = task[h].cred]
              /\ UNCHANGED <<db, author>>
        /\ excuses' = excuses \cup
              (IF Attached(i) /\ db # task[h].read THEN {"raced"} ELSE {})
        /\ session' = TRUE
        /\ task' = [task EXCEPT ![h] = Idle]
        /\ UNCHANGED <<providerVars, env, phase, memory, usedBy>>

(* Mutant: the token is used although it was not stored. *)
PersistFailsSilently(h) ==
    /\ task[h].pc = "persist"
    /\ task' = [task EXCEPT ![h] = Idle]
    /\ session' = TRUE
    /\ UNCHANGED <<providerVars, env, file, db, phase, memory, excuses, usedBy, author>>

(* The caller is told; a rotated token is lost when the file takes over. *)
PersistFails(h) ==
    LET i == home[h]
    IN  /\ task[h].pc = "persist"
        /\ file' \in {file} \cup
              (IF Attached(i) THEN {} ELSE {[file EXCEPT ![i] = Torn]})
        /\ excuses' = excuses \cup
              (IF task[h].op = "get" \/ file' # file THEN {"lost"} ELSE {})
        /\ task' = [task EXCEPT ![h] = Idle]
        /\ UNCHANGED <<providerVars, env, db, phase, memory, session, usedBy, author>>

-----------------------------------------------------------------------------
Next ==
    \/ \E i \in Instances : 
          \/ Construct(i) \/ ConstructCrashes(i) \/ UseStore(i) \/ UseStoreFails(i)
          \/ Crash(i)
    \/ \E h \in Handlers :
          \/ GetAccessToken(h) \/ RefreshToken(h) \/ RefreshFails(h) \/ RefreshLost(h)
          \/ UpsertCredentials(h) \/ Persist(h) \/ PersistFails(h)
    \/ \E t \in Token : Expire(t)

Spec == Init /\ [][Next]_vars

-----------------------------------------------------------------------------
(* A handler about to write the table has read what its own instance wrote *)
(* there last: the mutex spans the call of the provider, so a login cannot *)
(* slip in between and be undone by the rotation of the session before it. *)
(* "raced" then only means that two instances wrote at once.               *)
OwnWritesRead ==
    \A h \in Handlers :
        task[h].pc # "idle" /\ Attached(home[h]) /\ author = home[h]
            => task[h].read = db

(* A refresh token the provider accepts is kept somewhere, once there is a *)
(* session, unless a fault took it, two instances wrote at once, or an     *)
(* instance that started put an older one in its place.                    *)
Kept == {env} \cup {db} \cup {file[i] : i \in Instances}
              \cup {task[h].cred : h \in {g \in Handlers : task[g].pc = "persist"}}
Held == \E c \in Kept \cap Credential : c.refresh \in valid
SessionHeld == session /\ excuses = {} => Held

(* An instance does not present a refresh token it has itself consumed:    *)
(* providers answer that by revoking the session.                          *)
NotReplayed ==
    \A h \in Handlers :
        task[h].pc = "refresh" /\ Attached(home[h]) /\ excuses = {}
            => usedBy[task[h].cred.refresh] # home[h]

(* A session survives restarts: what a login saved and what a refresh      *)
(* rotated is not given up for an older token of the file or environment.  *)
SessionSurvivesRestart == session /\ excuses \subseteq {"reverted"} => Held
=============================================================================
