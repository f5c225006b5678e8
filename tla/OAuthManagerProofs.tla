------------------------- MODULE OAuthManagerProofs -------------------------
(***************************************************************************)
(* For any number of instances and of requests at each: the mutex of an    *)
(* instance keeps its handlers apart, so what one of them is about to      *)
(* write is made of what its instance wrote last (NoLostUpdate).  As long  *)
(* as nothing has cost the session, the newest refresh token that is       *)
(* stored is one the provider accepts (SessionKept), and an instance does  *)
(* not present a token again that it has consumed (NoReplay).              *)
(***************************************************************************)
EXTENDS OAuthManager, TLAPS

(* One handler of an instance at a time is in a call. *)
Mutex ==
    \A h, g \in Handlers :
        task[h].pc # "idle" /\ task[g].pc # "idle" /\ home[h] = home[g] => h = g

OInv == TypeOK /\ Mutex /\ OwnWritesRead

Task == [pc : {"idle", "refresh", "persist"}, op : {"get", "login"},
         cred : Credential, read : Credential \cup {None}]

LEMMA Types ==
    /\ 0 \in Token /\ Empty \in Credential /\ Idle \in Task
    /\ \A c \in Credential : c.refresh \in Token /\ c.access \in Token
    /\ \A h \in Handlers : home[h] \in Instances
    /\ None \notin Credential /\ Torn \notin Credential /\ None # Torn
  BY OAuthAssumption, ValueAssumption DEF Token, Credential, Empty, Idle, Task

LEMMA MergedType ==
    ASSUME NEW c \in Credential, NEW new \in Credential
    PROVE  Merged(c, new) \in Credential
  BY DEF Merged, Credential

LEMMA StoredType ==
    ASSUME NEW c \in Credential \cup {None}
    PROVE  Stored(c) \in Credential
  BY Types DEF Stored

(* What the manager loads is a credential, or none, if the file parses. *)
LEMMA LoadType ==
    ASSUME TypeOK, NEW i \in Instances, Loadable(i)
    PROVE  loadStateLocked(i) \in Credential \cup {None}
  <1>1. file[i] \in Credential \cup {None, Torn} /\ memory[i] \in Credential \cup {None}
        /\ db \in Credential \cup {None}
    BY DEF TypeOK
  <1>2. QED
    BY <1>1 DEF loadStateLocked, Loadable, FromDB

LEMMA InitOInv == Init => OInv
  <1> SUFFICES ASSUME Init PROVE OInv
    OBVIOUS
  <1>1. 1 \in Token
    BY OAuthAssumption DEF Token
  <1>2. env \in Credential
    BY <1>1, Types DEF Init, Credential, Empty
  <1>3. TypeOK
    BY <1>2, Types DEF Init, TypeOK, Task
  <1>4. \A h \in Handlers : task[h].pc = "idle"
    BY DEF Init, Idle
  <1>5. QED
    BY <1>3, <1>4 DEF OInv, Mutex, OwnWritesRead

-----------------------------------------------------------------------------
LEMMA TaskType == TypeOK => task \in [Handlers -> Task]
  BY DEF TypeOK, Task

LEMMA IssueType ==
    ASSUME TypeOK, issued < MaxToken
    PROVE  issued + 1 \in Token
  BY OAuthAssumption DEF TypeOK, Token

LEMMA RefreshedType ==
    ASSUME TypeOK, NEW r \in Token, NEW new \in Credential, NEW i \in Instances,
           Refreshed(r, new, i)
    PROVE  /\ issued' \in Token /\ live' \subseteq Token /\ valid' \subseteq Token
           /\ usedBy' \in [Token -> Instances \cup {None}]
  <1>1. issued' \in Token
    BY IssueType DEF Refreshed
  <1>2. valid' \subseteq Token /\ live' \subseteq Token
    BY <1>1, Types DEF Refreshed, TypeOK
  <1>3. usedBy' \in [Token -> Instances \cup {None}]
    BY DEF Refreshed, TypeOK
  <1>4. QED
    BY <1>1, <1>2, <1>3

LEMMA NextTypeOK ==
    ASSUME TypeOK, [Next]_vars
    PROVE  TypeOK'
  <1> USE Types, TaskType
  <1>1. ASSUME NEW i \in Instances, Construct(i)
        PROVE  TypeOK'
    <2>1. CASE file[i] = Torn /\ UNCHANGED <<file, memory, excuses>>
      BY <1>1, <2>1 DEF Construct, TypeOK, providerVars
    <2>2. CASE file[i] # Torn
      <3> DEFINE c == Merged(Stored(file[i]), env)
      <3>1. c \in Credential
        BY <2>2, StoredType, MergedType DEF TypeOK
      <3>2. file' \in [Instances -> Credential \cup {None, Torn}]
            /\ memory' \in [Instances -> Credential \cup {None}]
            /\ excuses' \subseteq {"lost", "raced", "reverted"}
        <4> HIDE DEF c
        <4>1. /\ memory' = [memory EXCEPT ![i] = c] \/ UNCHANGED memory
              /\ file' = [file EXCEPT ![i] = c] \/ UNCHANGED file
          BY <1>1 DEF Construct, c
        <4>2. excuses' \subseteq {"lost", "raced", "reverted"}
          BY <1>1 DEF Construct, TypeOK
        <4>3. QED
          BY <3>1, <4>1, <4>2 DEF TypeOK
      <3>3. phase' \in [Instances -> {"down", "constructed", "up"}]
        BY <1>1 DEF Construct, TypeOK
      <3>4. QED
        BY <1>1, <3>2, <3>3 DEF Construct, TypeOK, providerVars
    <2>3. QED
      BY <1>1, <2>1, <2>2 DEF Construct
  <1>2. ASSUME NEW i \in Instances, ConstructCrashes(i)
        PROVE  TypeOK'
    BY <1>2 DEF ConstructCrashes, TypeOK, providerVars
  <1>3. ASSUME NEW i \in Instances, UseStore(i)
        PROVE  TypeOK'
    <2> DEFINE c == loadStateLocked(i)
    <2>1. c \in Credential \cup {None}
      BY <1>3, LoadType DEF UseStore, Loadable
    <2>2. memory' \in [Instances -> Credential \cup {None}]
      BY <1>3, <2>1 DEF UseStore, TypeOK
    <2>3. db' \in Credential \cup {None} /\ author' \in Instances \cup {None}
      BY <1>3, <2>1 DEF UseStore, TypeOK
    <2>4. excuses' \subseteq {"lost", "raced", "reverted"}
      BY <1>3 DEF UseStore, TypeOK
    <2>5. phase' \in [Instances -> {"down", "constructed", "up"}]
      BY <1>3 DEF UseStore, TypeOK
    <2>6. QED
      BY <1>3, <2>2, <2>3, <2>4, <2>5 DEF UseStore, TypeOK, providerVars
  <1>4. ASSUME NEW i \in Instances, Down(i)
        PROVE  /\ phase' \in [Instances -> {"down", "constructed", "up"}]
               /\ memory' \in [Instances -> Credential \cup {None}]
               /\ task' \in [Handlers -> Task]
    BY <1>4 DEF Down, TypeOK
  <1>5. ASSUME NEW i \in Instances, UseStoreFails(i)
        PROVE  TypeOK'
    BY <1>4, <1>5 DEF UseStoreFails, TypeOK, providerVars, Task
  <1>6. ASSUME NEW i \in Instances, Crash(i)
        PROVE  TypeOK'
    <2>1. file' \in [Instances -> Credential \cup {None, Torn}]
      BY <1>6 DEF Crash, TypeOK
    <2>2. excuses' \subseteq {"lost", "raced", "reverted"}
      BY <1>6 DEF Crash, TypeOK
    <2>3. QED
      BY <1>4, <1>6, <2>1, <2>2 DEF Crash, TypeOK, providerVars, Task
  <1>7. ASSUME NEW h \in Handlers, GetAccessToken(h)
        PROVE  TypeOK'
    <2> DEFINE c == loadStateLocked(home[h])
    <2>1. c \in Credential \cup {None}
      BY <1>7, LoadType DEF GetAccessToken
    <2>2. memory' \in [Instances -> Credential \cup {None}]
      BY <1>7, <2>1 DEF GetAccessToken, TypeOK
    <2>3. task' \in [Handlers -> Task]
      <3>1. CASE UNCHANGED task
        BY <3>1
      <3>2. CASE c # None /\ task' = [task EXCEPT ![h] = [pc |-> "refresh", op |-> "get",
                                                          cred |-> c, read |-> db]]
        <4>1. [pc |-> "refresh", op |-> "get", cred |-> c, read |-> db] \in Task
          BY <2>1, <3>2 DEF Task, TypeOK
        <4>2. QED
          BY <3>2, <4>1
      <3>3. QED
        BY <1>7, <3>1, <3>2 DEF GetAccessToken
    <2>4. QED
      BY <1>7, <2>2, <2>3 DEF GetAccessToken, TypeOK, providerVars, Task
  <1>8. ASSUME NEW h \in Handlers, RefreshToken(h)
        PROVE  TypeOK'
    <2>1. PICK new \in Credential :
            /\ Refreshed(task[h].cred.refresh, new, home[h])
            /\ task' = [task EXCEPT ![h].pc = "persist", ![h].cred = new]
            /\ memory' = [memory EXCEPT ![home[h]] = new]
      BY <1>8 DEF RefreshToken
    <2>2. task[h].cred.refresh \in Token
      BY DEF Task
    <2>3. issued' \in Token /\ live' \subseteq Token /\ valid' \subseteq Token
          /\ usedBy' \in [Token -> Instances \cup {None}]
      BY <2>1, <2>2, RefreshedType
    <2>4. task' \in [Handlers -> Task]
      BY <2>1 DEF Task
    <2>5. memory' \in [Instances -> Credential \cup {None}]
      BY <2>1 DEF TypeOK
    <2>6. QED
      BY <1>8, <2>3, <2>4, <2>5 DEF RefreshToken, TypeOK, Task
  <1>9. ASSUME NEW h \in Handlers, RefreshFails(h)
        PROVE  TypeOK'
    <2>1. task' \in [Handlers -> Task]
      BY <1>9 DEF RefreshFails
    <2>2. QED
      BY <1>9, <2>1 DEF RefreshFails, TypeOK, providerVars, Task
  <1>10. ASSUME NEW h \in Handlers, RefreshLost(h)
         PROVE  TypeOK'
    <2>1. PICK new \in Credential : Refreshed(task[h].cred.refresh, new, home[h])
      BY <1>10 DEF RefreshLost
    <2>2. task[h].cred.refresh \in Token
      BY DEF Task
    <2>3. issued' \in Token /\ live' \subseteq Token /\ valid' \subseteq Token
          /\ usedBy' \in [Token -> Instances \cup {None}]
      BY <2>1, <2>2, RefreshedType
    <2>4. task' \in [Handlers -> Task] /\ excuses' \subseteq {"lost", "raced", "reverted"}
      BY <1>10 DEF RefreshLost, TypeOK
    <2>5. QED
      BY <1>10, <2>3, <2>4 DEF RefreshLost, TypeOK, Task
  <1>11. ASSUME NEW h \in Handlers, UpsertCredentials(h)
         PROVE  TypeOK'
    <2>1. issued' \in Token /\ valid' \subseteq Token
      BY <1>11, IssueType DEF UpsertCredentials, TypeOK
    <2>2. PICK access \in {0, issued'} :
            LET c == Merged(Stored(loadStateLocked(home[h])),
                            [refresh |-> issued', access |-> access])
            IN  /\ live' = live \cup ({access} \ {0})
                /\ memory' = [memory EXCEPT ![home[h]] = c]
                /\ task' = [task EXCEPT ![h] = [pc |-> "persist", op |-> "login",
                                                cred |-> c, read |-> db]]
      BY <1>11 DEF UpsertCredentials
    <2> DEFINE c == Merged(Stored(loadStateLocked(home[h])),
                           [refresh |-> issued', access |-> access])
    <2>3. c \in Credential
      <3>1. loadStateLocked(home[h]) \in Credential \cup {None}
        BY <1>11, LoadType DEF UpsertCredentials
      <3>2. [refresh |-> issued', access |-> access] \in Credential
        BY <2>1 DEF Credential
      <3>3. QED
        BY <3>1, <3>2, StoredType, MergedType
    <2>4. live' \subseteq Token
      BY <2>1, <2>2 DEF TypeOK
    <2> HIDE DEF c
    <2>5. memory' \in [Instances -> Credential \cup {None}] /\ task' \in [Handlers -> Task]
      <3>1. [pc |-> "persist", op |-> "login", cred |-> c, read |-> db] \in Task
        BY <2>3 DEF Task, TypeOK
      <3>2. /\ memory' = [memory EXCEPT ![home[h]] = c]
            /\ task' = [task EXCEPT ![h] = [pc |-> "persist", op |-> "login",
                                            cred |-> c, read |-> db]]
        BY <2>2 DEF c
      <3>3. QED
        BY <2>3, <3>1, <3>2 DEF TypeOK
    <2>6. QED
      BY <1>11, <2>1, <2>4, <2>5 DEF UpsertCredentials, TypeOK, Task
  <1>12. ASSUME NEW h \in Handlers, Persist(h)
         PROVE  TypeOK'
    <2>1. task[h].cred \in Credential
      BY DEF Task
    <2>2. /\ db' \in Credential \cup {None} /\ author' \in Instances \cup {None}
          /\ file' \in [Instances -> Credential \cup {None, Torn}]
      BY <1>12, <2>1 DEF Persist, TypeOK
    <2>3. task' \in [Handlers -> Task] /\ excuses' \subseteq {"lost", "raced", "reverted"}
          /\ session' \in BOOLEAN
      BY <1>12 DEF Persist, TypeOK
    <2>4. QED
      BY <1>12, <2>2, <2>3 DEF Persist, TypeOK, providerVars, Task
  <1>13. ASSUME NEW h \in Handlers, PersistFails(h)
         PROVE  TypeOK'
    <2>1. file' \in [Instances -> Credential \cup {None, Torn}]
      BY <1>13 DEF PersistFails, TypeOK
    <2>2. task' \in [Handlers -> Task] /\ excuses' \subseteq {"lost", "raced", "reverted"}
      BY <1>13 DEF PersistFails, TypeOK
    <2>3. QED
      BY <1>13, <2>1, <2>2 DEF PersistFails, TypeOK, providerVars, Task
  <1>14. ASSUME NEW t \in Token, Expire(t)
         PROVE  TypeOK'
    BY <1>14 DEF Expire, TypeOK
  <1>15. CASE UNCHANGED vars
    BY <1>15 DEF vars, providerVars, TypeOK
  <1>16. QED
    BY <1>1, <1>2, <1>3, <1>5, <1>6, <1>7, <1>8, <1>9, <1>10, <1>11, <1>12, <1>13, <1>14,
       <1>15 DEF Next

-----------------------------------------------------------------------------
(* What a step does to the handlers: one of them enters a call when its    *)
(* instance has none, goes on, or ends it; or an instance takes all of its *)
(* own down.                                                               *)
Enters(h) ==
    /\ Unlocked(home[h])
    /\ task'[h].read = db
    /\ \A g \in Handlers : g # h => task'[g] = task[g]

Continues(h) ==
    /\ task[h].pc # "idle"
    /\ task'[h].read = task[h].read
    /\ \A g \in Handlers : g # h => task'[g] = task[g]

Ends(h) ==
    /\ task'[h].pc = "idle"
    /\ \A g \in Handlers : g # h => task'[g] = task[g]

Drops(i) ==
    \A h \in Handlers : task'[h].pc = "idle" \/ (task'[h] = task[h] /\ home[h] # i)

LEMMA TaskSteps ==
    ASSUME TypeOK, [Next]_vars
    PROVE  \/ UNCHANGED task
           \/ \E h \in Handlers : Enters(h) \/ Continues(h) \/ Ends(h)
           \/ \E i \in Instances : Drops(i)
  <1> USE TaskType DEF Task
  <1>1. ASSUME NEW i \in Instances, Down(i)
        PROVE  Drops(i)
    BY <1>1 DEF Down, Drops, Idle
  <1>2. ASSUME NEW i \in Instances,
               UseStoreFails(i) \/ Crash(i)
        PROVE  Drops(i)
    BY <1>1, <1>2 DEF UseStoreFails, Crash
  <1>3. ASSUME NEW i \in Instances,
               Construct(i) \/ ConstructCrashes(i) \/ UseStore(i)
        PROVE  UNCHANGED task
    BY <1>3 DEF Construct, ConstructCrashes, UseStore
  <1>4. ASSUME NEW h \in Handlers, GetAccessToken(h) \/ UpsertCredentials(h)
        PROVE  UNCHANGED task \/ Enters(h)
    <2>1. CASE GetAccessToken(h)
      BY <2>1 DEF GetAccessToken, Enters
    <2>2. CASE UpsertCredentials(h)
      <3>1. PICK c : task' = [task EXCEPT ![h] = [pc |-> "persist", op |-> "login",
                                                  cred |-> c, read |-> db]]
        BY <2>2 DEF UpsertCredentials
      <3>2. QED
        BY <2>2, <3>1 DEF UpsertCredentials, Enters
    <2>3. QED
      BY <1>4, <2>1, <2>2
  <1>5. ASSUME NEW h \in Handlers, RefreshToken(h)
        PROVE  Continues(h)
    <2>1. PICK new \in Credential :
            task' = [task EXCEPT ![h].pc = "persist", ![h].cred = new]
      BY <1>5 DEF RefreshToken
    <2>2. QED
      BY <1>5, <2>1 DEF RefreshToken, Continues
  <1>6. ASSUME NEW h \in Handlers,
               RefreshFails(h) \/ RefreshLost(h) \/ Persist(h) \/ PersistFails(h)
        PROVE  Ends(h)
    BY <1>6 DEF RefreshFails, RefreshLost, Persist, PersistFails, Ends, Idle
  <1>7. ASSUME NEW t \in Token, Expire(t)
        PROVE  UNCHANGED task
    BY <1>7 DEF Expire
  <1>8. CASE UNCHANGED vars
    BY <1>8 DEF vars
  <1>9. QED
    BY <1>2, <1>3, <1>4, <1>5, <1>6, <1>7, <1>8 DEF Next

LEMMA NextMutex ==
    ASSUME OInv, [Next]_vars
    PROVE  Mutex'
  <1>1. TypeOK /\ Mutex
    BY DEF OInv
  <1>2. ASSUME NEW h \in Handlers, Enters(h)
        PROVE  Mutex'
    BY <1>1, <1>2 DEF Enters, Unlocked, Mutex
  <1>3. ASSUME NEW h \in Handlers, Continues(h) \/ Ends(h)
        PROVE  Mutex'
    BY <1>1, <1>3 DEF Continues, Ends, Mutex
  <1>4. ASSUME NEW i \in Instances, Drops(i)
        PROVE  Mutex'
    BY <1>1, <1>4 DEF Drops, Mutex
  <1>5. QED
    BY <1>1, <1>2, <1>3, <1>4, TaskSteps DEF Mutex

(* The table and its author change only while no other handler of the      *)
(* author is in a call.                                                    *)
LEMMA TableSteps ==
    ASSUME TypeOK, [Next]_vars
    PROVE  \/ UNCHANGED <<db, author>> /\ \A h \in Handlers : Attached(home[h])' => Attached(home[h])
           \/ \E i \in Instances : /\ Unlocked(i) /\ UNCHANGED task
                                   /\ author' = i \/ UNCHANGED <<db, author>>
                                   /\ \A j \in Instances : j # i => phase'[j] = phase[j]
           \/ \E h \in Handlers : Ends(h) /\ author' = home[h] /\ task[h].pc # "idle"
  <1> USE Types, TaskType DEF Task, Attached
  <1>1. ASSUME NEW i \in Instances, UseStore(i)
        PROVE  /\ Unlocked(i) /\ UNCHANGED task
               /\ author' = i \/ UNCHANGED <<db, author>>
               /\ \A j \in Instances : j # i => phase'[j] = phase[j]
    <2>1. Unlocked(i) /\ UNCHANGED task
      BY <1>1 DEF UseStore
    <2>2. author' = i \/ UNCHANGED <<db, author>>
      BY <1>1 DEF UseStore
    <2>3. \A j \in Instances : j # i => phase'[j] = phase[j]
      BY <1>1 DEF UseStore, TypeOK
    <2>4. QED
      BY <2>1, <2>2, <2>3
  <1>2. ASSUME NEW i \in Instances, UseStoreFails(i) \/ Crash(i) \/ Construct(i)
        PROVE  UNCHANGED <<db, author>> /\ \A h \in Handlers : Attached(home[h])' => Attached(home[h])
    BY <1>2 DEF UseStoreFails, Crash, Construct, Down, TypeOK
  <1>3. ASSUME NEW i \in Instances, ConstructCrashes(i)
        PROVE  UNCHANGED <<db, author, phase>>
    BY <1>3 DEF ConstructCrashes
  <1>4. ASSUME NEW h \in Handlers,
               GetAccessToken(h) \/ UpsertCredentials(h) \/ RefreshToken(h)
                 \/ RefreshFails(h) \/ RefreshLost(h) \/ PersistFails(h)
        PROVE  UNCHANGED <<db, author, phase>>
    BY <1>4 DEF GetAccessToken, UpsertCredentials, RefreshToken, RefreshFails, RefreshLost,
                PersistFails
  <1>5. ASSUME NEW h \in Handlers, Persist(h)
        PROVE  \/ UNCHANGED <<db, author, phase>>
               \/ Ends(h) /\ author' = home[h] /\ task[h].pc # "idle"
    BY <1>5 DEF Persist, Ends, Idle
  <1>6. ASSUME NEW t \in Token, Expire(t)
        PROVE  UNCHANGED <<db, author, phase>>
    BY <1>6 DEF Expire
  <1>7. CASE UNCHANGED vars
    BY <1>7 DEF vars
  <1>8. UNCHANGED <<db, author, phase>>
          => UNCHANGED <<db, author>> /\ \A h \in Handlers : Attached(home[h])' => Attached(home[h])
    OBVIOUS
  <1>9. QED
    BY <1>1, <1>2, <1>3, <1>4, <1>5, <1>6, <1>7, <1>8 DEF Next

LEMMA NextOwnWritesRead ==
    ASSUME OInv, [Next]_vars
    PROVE  OwnWritesRead'
  <1>1. TypeOK /\ Mutex /\ OwnWritesRead
    BY DEF OInv
  <1> SUFFICES ASSUME NEW h \in Handlers,
                      task'[h].pc # "idle", Attached(home[h])', author' = home[h]
               PROVE  task'[h].read = db'
    BY DEF OwnWritesRead
  (* The handler was in this call before, or has just read the table. *)
  <1>2. \/ task[h].pc # "idle" /\ task'[h].read = task[h].read
        \/ Unlocked(home[h]) /\ task'[h].read = db
    BY <1>1, TaskSteps DEF Enters, Continues, Ends, Drops
  <1>3. CASE UNCHANGED <<db, author>> /\ Attached(home[h])
    BY <1>1, <1>2, <1>3 DEF OwnWritesRead
  <1>4. ASSUME NEW i \in Instances, Unlocked(i), UNCHANGED task,
               author' = i \/ UNCHANGED <<db, author>>,
               \A j \in Instances : j # i => phase'[j] = phase[j]
        PROVE  task'[h].read = db'
    <2>1. home[h] # i
      BY <1>4 DEF Unlocked
    <2>2. UNCHANGED <<db, author>> /\ Attached(home[h])
      BY <1>4, <2>1, Types DEF Attached
    <2>3. QED
      BY <1>3, <2>2
  <1>5. ASSUME NEW g \in Handlers, Ends(g), author' = home[g], task[g].pc # "idle"
        PROVE  FALSE
    <2>1. g # h /\ task'[h] = task[h]
      BY <1>5 DEF Ends
    <2>2. QED
      BY <1>1, <1>5, <2>1 DEF Mutex
  <1>6. QED
    BY <1>1, <1>3, <1>4, <1>5, TableSteps

LEMMA OAuthInvariance == Spec => []OInv
  <1>1. OInv /\ [Next]_vars => OInv'
    BY NextTypeOK, NextMutex, NextOwnWritesRead DEF OInv
  <1>2. QED
    BY InitOInv, <1>1, PTL DEF Spec

(* Type correctness of the manager, the provider and the handlers. *)
THEOREM OAuthTypeOK == Spec => []TypeOK
  <1>1. OInv => TypeOK
    BY DEF OInv
  <1>2. QED
    BY OAuthInvariance, <1>1, PTL

(* What a handler is about to store was made of what its own instance      *)
(* stored last: no lost update within an instance.                         *)
THEOREM NoLostUpdate == Spec => []OwnWritesRead
  <1>1. OInv => OwnWritesRead
    BY DEF OInv
  <1>2. QED
    BY OAuthInvariance, <1>1, PTL

-----------------------------------------------------------------------------
(* Where a refresh token is, and how it compares with a reading x, which   *)
(* may be none or a file that does not parse.                              *)
AtMost(x, n) == x \in Credential => x.refresh <= n
Has(x, t)    == x \in Credential /\ x.refresh = t
Newer(x, t)  == x \in Credential /\ t < x.refresh

Writing(h, op) == task[h].pc = "persist" /\ task[h].op = op

(* Tokens are numbered as they are issued. *)
Counted ==
    /\ 0 \notin valid /\ \A t \in valid : t <= issued
    /\ AtMost(env, issued) /\ AtMost(db, issued)
    /\ \A i \in Instances : AtMost(file[i], issued) /\ AtMost(memory[i], issued)
    /\ \A h \in Handlers : AtMost(task[h].cred, issued)

(* No handler runs at an instance that is down. *)
Quiet == \A i \in Instances : phase[i] = "down" => Unlocked(i)

(* What a handler writes is no older than what it has read there. *)
OrderedAt(h) ==
    /\ task[h].pc = "persist" => task[h].cred.refresh # 0
    /\ task[h].op = "login" => task[h].pc = "persist" /\ Attached(home[h])
    /\ Attached(home[h]) => AtMost(task[h].read, task[h].cred.refresh)
    /\ ~Attached(home[h]) => AtMost(file[home[h]], task[h].cred.refresh)

Ordered == \A h \in Handlers : task[h].pc # "idle" => OrderedAt(h)

(* The token of a login that is being stored is not known to anyone else.  *)
Elsewhere(h, t) ==
    \/ Has(env, t) \/ Has(db, t)
    \/ \E i \in Instances : Has(file[i], t) \/ (i # home[h] /\ Has(memory[i], t))
    \/ \E g \in Handlers \ {h} : task[g].pc # "idle" /\ Has(task[g].cred, t)

SecretAt(h) ==
    task[h].cred.refresh \in valid /\ ~Elsewhere(h, task[h].cred.refresh)

Secret == \A h \in Handlers : Writing(h, "login") => SecretAt(h)

OSteady == OInv /\ Counted /\ Quiet /\ Ordered /\ Secret

LEMMA Numbers ==
    /\ Token \subseteq Nat /\ 0 \in Token
    /\ \A c \in Credential : c.refresh \in Nat
    /\ TypeOK => issued \in Nat
  BY OAuthAssumption DEF Token, Credential, TypeOK

LEMMA MergedRefresh ==
    ASSUME NEW x \in Credential \cup {None}, NEW new \in Credential
    PROVE  /\ Merged(Stored(x), new) \in Credential
           /\ Merged(Stored(x), new).refresh
                 = IF new.refresh = 0 THEN Stored(x).refresh ELSE new.refresh
           /\ x \in Credential => Stored(x) = x
           /\ x = None => Stored(x).refresh = 0
  BY StoredType, MergedType, ValueAssumption DEF Merged, Stored, Empty

(* A handler of an instance that is down, or that finds the mutex free. *)
LEMMA Alone ==
    ASSUME NEW i \in Instances, Unlocked(i), NEW h \in Handlers, task[h].pc # "idle"
    PROVE  home[h] # i
  BY DEF Unlocked

LEMMA InitSteady == Init => OSteady
  <1> SUFFICES ASSUME Init PROVE OSteady
    OBVIOUS
  <1>1. OInv
    BY InitOInv
  <1>2. \A h \in Handlers : task[h].pc = "idle" /\ task[h].cred = Empty
    BY DEF Init, Idle
  <1>3. env \in Credential /\ env.refresh = issued
    BY <1>1 DEF Init, OInv, TypeOK
  <1>4. Counted
    <2>1. 0 \notin valid /\ \A t \in valid : t <= issued
      BY <1>3, Numbers DEF Init
    <2>2. AtMost(env, issued)
      BY <1>3, Numbers DEF AtMost
    <2>3. /\ AtMost(db, issued)
          /\ \A i \in Instances : AtMost(file[i], issued) /\ AtMost(memory[i], issued)
      BY Types DEF AtMost, Init
    <2>4. \A h \in Handlers : AtMost(task[h].cred, issued)
      BY <1>2, <1>3, Numbers DEF AtMost, Empty
    <2>5. QED
      BY <2>1, <2>2, <2>3, <2>4 DEF Counted
  <1>5. Quiet /\ Ordered /\ Secret
    BY <1>2 DEF Quiet, Unlocked, Ordered, Secret, Writing
  <1>6. QED
    BY <1>1, <1>4, <1>5 DEF OSteady

-----------------------------------------------------------------------------
(* What the steps do, with what they store picked. *)

LEMMA ConstructEffect ==
    ASSUME TypeOK, NEW i \in Instances, Construct(i)
    PROVE  \E c \in Credential :
              /\ c.refresh = env.refresh \/ Has(file[i], c.refresh)
              /\ file[i] = None => c.refresh = env.refresh
              /\ memory' = memory \/ memory' = [memory EXCEPT ![i] = c]
              /\ file[i] = None => memory' = [memory EXCEPT ![i] = c]
              /\ \/ file' = file
                 \/ /\ file' = [file EXCEPT ![i] = c]
                    /\ excuses' = {} => AtMost(file[i], c.refresh)
  <1>0. env \in Credential /\ file[i] \in Credential \cup {None, Torn}
    BY DEF TypeOK
  <1>1. CASE file[i] = Torn
    BY <1>0, <1>1, Types DEF Construct
  <1>2. CASE file[i] # Torn
    <2> DEFINE c == Merged(Stored(file[i]), env)
    <2>1. c \in Credential /\ (c.refresh = env.refresh \/ Has(file[i], c.refresh))
          /\ (file[i] = None => c.refresh = env.refresh)
      BY <1>0, <1>2, MergedRefresh DEF Has
    <2>2. /\ memory' = [memory EXCEPT ![i] = c]
          /\ \/ /\ file' = [file EXCEPT ![i] = c]
                /\ excuses' = excuses \cup (IF Reverts(file[i], c) THEN {"reverted"} ELSE {})
             \/ UNCHANGED <<file, excuses>>
      BY <1>2 DEF Construct
    <2> HIDE DEF c
    <2>3. excuses' = excuses \cup (IF Reverts(file[i], c) THEN {"reverted"} ELSE {})
             /\ excuses' = {} => AtMost(file[i], c.refresh)
      BY <2>1, Numbers DEF Reverts, AtMost
    <2>4. QED
      BY <2>1, <2>2, <2>3
  <1>3. QED
    BY <1>1, <1>2

LEMMA UseStoreEffect ==
    ASSUME TypeOK, NEW i \in Instances, UseStore(i)
    PROVE  /\ file[i] # Torn
           /\ \E c \in Credential \cup {None} :
              /\ c = IF file[i] # None THEN file[i] ELSE memory[i]
              /\ memory' = [memory EXCEPT ![i] = c]
              /\ c = None => db' = db
              /\ c # None => db' = c
              /\ excuses' = {} /\ c # None => AtMost(db, c.refresh)
  <1> DEFINE c == loadStateLocked(i)
  <1>1. c \in Credential \cup {None} /\ file[i] # Torn
    BY LoadType DEF UseStore, Loadable
  <1>2. c = IF file[i] # None THEN file[i] ELSE memory[i]
    BY DEF UseStore, loadStateLocked, FromDB, Attached
  <1>3. /\ memory' = [memory EXCEPT ![i] = c]
        /\ db' = IF c = None THEN db ELSE c
        /\ excuses' = excuses \cup (IF c # None /\ Reverts(db, c) THEN {"reverted"} ELSE {})
    BY DEF UseStore
  <1> HIDE DEF c
  <1>4. excuses' = {} /\ c # None => AtMost(db, c.refresh)
    BY <1>1, <1>3, Numbers DEF Reverts, AtMost
  <1>5. QED
    BY <1>1, <1>2, <1>3, <1>4

LEMMA StopEffect ==
    ASSUME TypeOK, NEW i \in Instances, UseStoreFails(i) \/ Crash(i)
    PROVE  /\ UNCHANGED <<providerVars, env, db, session, usedBy, author>>
           /\ Down(i)
           /\ \A j \in Instances : file'[j] = file[j] \/ file'[j] = Torn
           /\ excuses' = {} =>
                 /\ excuses = {} /\ UNCHANGED file
                 /\ \A h \in Handlers : home[h] = i => ~Writing(h, "get")
  <1>1. CASE UseStoreFails(i)
    BY <1>1 DEF UseStoreFails, Unlocked, Writing
  <1>2. CASE Crash(i)
    BY <1>2 DEF Crash, DropsRotated, Writing, TypeOK
  <1>3. QED
    BY <1>1, <1>2

LEMMA GetEffect ==
    ASSUME TypeOK, NEW h \in Handlers, GetAccessToken(h)
    PROVE  \E c \in Credential \cup {None} :
              /\ c = loadStateLocked(home[h])
              /\ memory' = [memory EXCEPT ![home[h]] = c]
              /\ \/ UNCHANGED task
                 \/ /\ c \in Credential
                    /\ task' = [task EXCEPT ![h] = [pc |-> "refresh", op |-> "get",
                                                    cred |-> c, read |-> db]]
  <1> DEFINE c == loadStateLocked(home[h])
  <1>1. c \in Credential \cup {None}
    BY Types, LoadType DEF GetAccessToken
  <1>2. memory' = [memory EXCEPT ![home[h]] = c]
    BY DEF GetAccessToken
  <1>3. \/ UNCHANGED task
        \/ /\ c # None
           /\ task' = [task EXCEPT ![h] = [pc |-> "refresh", op |-> "get",
                                           cred |-> c, read |-> db]]
    BY DEF GetAccessToken
  <1> HIDE DEF c
  <1>4. QED
    BY <1>1, <1>2, <1>3 DEF c

LEMMA RefreshEffect ==
    ASSUME TypeOK, NEW h \in Handlers, RefreshToken(h)
    PROVE  /\ task[h].pc = "refresh"
           /\ \E new \in Credential :
              /\ Refreshed(task[h].cred.refresh, new, home[h])
              /\ task'[h].pc = "persist" /\ task'[h].op = task[h].op
              /\ task'[h].cred = new /\ task'[h].read = task[h].read
              /\ \A g \in Handlers : g # h => task'[g] = task[g]
              /\ memory' = [memory EXCEPT ![home[h]] = new]
  <1>1. PICK new \in Credential :
            /\ Refreshed(task[h].cred.refresh, new, home[h])
            /\ task' = [task EXCEPT ![h].pc = "persist", ![h].cred = new]
            /\ memory' = [memory EXCEPT ![home[h]] = new]
    BY DEF RefreshToken
  <1>2. /\ task'[h].pc = "persist" /\ task'[h].op = task[h].op
        /\ task'[h].cred = new /\ task'[h].read = task[h].read
        /\ \A g \in Handlers : g # h => task'[g] = task[g]
    BY <1>1, TaskType DEF Task
  <1>3. QED
    BY <1>1, <1>2 DEF RefreshToken

LEMMA LoginEffect ==
    ASSUME TypeOK, NEW h \in Handlers, UpsertCredentials(h)
    PROVE  \E c \in Credential :
              /\ c.refresh = issued'
              /\ issued' = issued + 1 /\ valid' = valid \cup {issued'}
              /\ task' = [task EXCEPT ![h] = [pc |-> "persist", op |-> "login",
                                              cred |-> c, read |-> db]]
              /\ memory' = [memory EXCEPT ![home[h]] = c]
  <1>1. issued' = issued + 1 /\ valid' = valid \cup {issued'} /\ issued' \in Token
    BY IssueType DEF UpsertCredentials
  <1>2. PICK access \in {0, issued'} :
            LET c == Merged(Stored(loadStateLocked(home[h])),
                            [refresh |-> issued', access |-> access])
            IN  /\ memory' = [memory EXCEPT ![home[h]] = c]
                /\ task' = [task EXCEPT ![h] = [pc |-> "persist", op |-> "login",
                                                cred |-> c, read |-> db]]
    BY DEF UpsertCredentials
  <1> DEFINE new == [refresh |-> issued', access |-> access]
             c   == Merged(Stored(loadStateLocked(home[h])), new)
  <1>3. loadStateLocked(home[h]) \in Credential \cup {None}
    BY Types, LoadType DEF UpsertCredentials
  <1>4. new \in Credential /\ new.refresh = issued'
    BY <1>1, Types DEF Credential
  <1>5. issued' # 0
    BY <1>1, Numbers
  <1>6. c \in Credential /\ c.refresh = issued'
    <2> HIDE DEF new
    <2>1. QED
      BY <1>3, <1>4, <1>5, MergedRefresh
  <1>7. QED
    <2>1. /\ memory' = [memory EXCEPT ![home[h]] = c]
          /\ task' = [task EXCEPT ![h] = [pc |-> "persist", op |-> "login",
                                          cred |-> c, read |-> db]]
      BY <1>2
    <2> HIDE DEF c
    <2>2. QED
      BY <1>1, <1>6, <2>1

-----------------------------------------------------------------------------
LEMMA NextQuiet ==
    ASSUME OSteady, [Next]_vars
    PROVE  Quiet'
  <1> SUFFICES ASSUME NEW i \in Instances, phase'[i] = "down",
                      NEW h \in Handlers, home[h] = i
               PROVE  task'[h].pc = "idle"
    BY DEF Quiet, Unlocked
  <1>0. TypeOK /\ (phase[i] = "down" => task[h].pc = "idle")
    BY DEF OSteady, OInv, Quiet, Unlocked
  <1> USE DEF Attached
  <1>1. ASSUME NEW j \in Instances, Construct(j) \/ UseStore(j)
        PROVE  task' = task /\ phase[i] = "down"
    BY <1>0, <1>1 DEF Construct, UseStore, TypeOK
  <1>2. ASSUME NEW j \in Instances, ConstructCrashes(j)
        PROVE  task' = task /\ phase[i] = "down"
    BY <1>2 DEF ConstructCrashes
  <1>3. ASSUME NEW j \in Instances, UseStoreFails(j) \/ Crash(j)
        PROVE  task'[h].pc = "idle"
    <2>1. Down(j)
      BY <1>3 DEF UseStoreFails, Crash
    <2>2. QED
      BY <1>0, <2>1 DEF Down, Idle, TypeOK
  <1>4. ASSUME NEW g \in Handlers, GetAccessToken(g) \/ UpsertCredentials(g)
        PROVE  task'[h].pc = "idle"
    <2>1. phase' = phase /\ phase[home[g]] # "down"
      BY <1>4 DEF GetAccessToken, UpsertCredentials
    <2>2. task'[h] = task[h]
      BY <1>0, <1>4, <2>1, GetEffect, LoginEffect, TaskType
    <2>3. QED
      BY <1>0, <2>1, <2>2
  <1>5. ASSUME NEW g \in Handlers, RefreshToken(g)
        PROVE  task'[h].pc = "idle"
    BY <1>0, <1>5, RefreshEffect DEF RefreshToken
  <1>6. ASSUME NEW g \in Handlers,
               RefreshFails(g) \/ RefreshLost(g) \/ Persist(g) \/ PersistFails(g)
        PROVE  task'[h].pc = "idle"
    BY <1>0, <1>6, TaskType
       DEF RefreshFails, RefreshLost, Persist, PersistFails, Idle
  <1>7. ASSUME NEW t \in Token, Expire(t)
        PROVE  task' = task /\ phase' = phase
    BY <1>7 DEF Expire
  <1>8. CASE UNCHANGED vars
    BY <1>0, <1>8 DEF vars
  <1>9. QED
    BY <1>0, <1>1, <1>2, <1>3, <1>4, <1>5, <1>6, <1>7, <1>8 DEF Next

(* Numbers only grow, and what is kept is older than what is issued next.  *)
LEMMA NextCounted ==
    ASSUME OSteady, [Next]_vars
    PROVE  Counted'
  <1>0. TypeOK /\ TypeOK' /\ Counted /\ task \in [Handlers -> Task] /\ issued \in Nat
    BY NextTypeOK, TaskType, Numbers DEF OSteady, OInv
  <1> USE Types, Numbers
  (* The steps without the provider. *)
  <1>1. ASSUME UNCHANGED <<issued, valid, env>>, AtMost(db', issued),
               \A i \in Instances : AtMost(file'[i], issued) /\ AtMost(memory'[i], issued),
               \A h \in Handlers : AtMost(task'[h].cred, issued)
        PROVE  Counted'
    BY <1>0, <1>1 DEF Counted, AtMost
  <1> DEFINE Fits(c) == AtMost(c, issued)
  <1>2. /\ Fits(Empty) /\ Fits(None) /\ Fits(Torn) /\ Fits(db) /\ Fits(env)
        /\ \A i \in Instances : Fits(file[i]) /\ Fits(memory[i])
        /\ \A h \in Handlers : Fits(task[h].cred)
    BY <1>0 DEF AtMost, Empty, Counted
  <1>3. ASSUME NEW i \in Instances, Construct(i)
        PROVE  Counted'
    <2>1. PICK c \in Credential :
              /\ c.refresh = env.refresh \/ Has(file[i], c.refresh)
              /\ memory' = memory \/ memory' = [memory EXCEPT ![i] = c]
              /\ file' = file \/ file' = [file EXCEPT ![i] = c]
      BY <1>0, <1>3, ConstructEffect
    <2>2. Fits(c)
      BY <1>0, <1>2, <2>1 DEF AtMost, Has, TypeOK
    <2>3. \A j \in Instances : Fits(file'[j]) /\ Fits(memory'[j])
      BY <1>0, <1>2, <2>1, <2>2 DEF TypeOK
    <2>4. UNCHANGED <<issued, valid, env, db, task>>
      BY <1>3 DEF Construct, providerVars
    <2>5. QED
      BY <1>1, <1>2, <2>3, <2>4
  <1>4. ASSUME NEW i \in Instances, ConstructCrashes(i)
        PROVE  Counted'
    <2>1. \A j \in Instances : Fits(file'[j])
      BY <1>0, <1>2, <1>4 DEF ConstructCrashes, TypeOK
    <2>2. UNCHANGED <<issued, valid, env, db, memory, task>>
      BY <1>4 DEF ConstructCrashes, providerVars
    <2>3. QED
      BY <1>1, <1>2, <2>1, <2>2
  <1>5. ASSUME NEW i \in Instances, UseStore(i)
        PROVE  Counted'
    <2>1. PICK c \in Credential \cup {None} :
              /\ c = IF file[i] # None THEN file[i] ELSE memory[i]
              /\ memory' = [memory EXCEPT ![i] = c]
              /\ c = None => db' = db
              /\ c # None => db' = c
      BY <1>0, <1>5, UseStoreEffect
    <2>2. Fits(c)
      BY <1>2, <2>1
    <2>3. Fits(db') /\ \A j \in Instances : Fits(memory'[j])
      BY <1>0, <1>2, <2>1, <2>2 DEF TypeOK
    <2>4. UNCHANGED <<issued, valid, env, file, task>>
      BY <1>5 DEF UseStore, providerVars
    <2>5. QED
      BY <1>1, <1>2, <2>3, <2>4
  <1>6. ASSUME NEW i \in Instances, UseStoreFails(i) \/ Crash(i)
        PROVE  Counted'
    <2>1. /\ UNCHANGED <<issued, valid, env, db>>
          /\ Down(i)
          /\ \A j \in Instances : file'[j] = file[j] \/ file'[j] = Torn
      BY <1>0, <1>6, StopEffect DEF providerVars
    <2>2. \A j \in Instances : Fits(file'[j]) /\ Fits(memory'[j])
      BY <1>0, <1>2, <2>1 DEF Down, TypeOK
    <2>3. \A h \in Handlers : Fits(task'[h].cred)
      BY <1>2, <2>1 DEF Down, Idle
    <2>4. QED
      BY <1>1, <1>2, <2>1, <2>2, <2>3
  <1>7. ASSUME NEW h \in Handlers, GetAccessToken(h)
        PROVE  Counted'
    <2>1. PICK c \in Credential \cup {None} :
              /\ c = loadStateLocked(home[h])
              /\ memory' = [memory EXCEPT ![home[h]] = c]
              /\ \/ UNCHANGED task
                 \/ task' = [task EXCEPT ![h] = [pc |-> "refresh", op |-> "get",
                                                 cred |-> c, read |-> db]]
      BY <1>0, <1>7, GetEffect
    <2>2. Fits(c)
      BY <1>2, <2>1 DEF loadStateLocked
    <2>3. \A j \in Instances : Fits(memory'[j])
      BY <1>0, <1>2, <2>1, <2>2 DEF TypeOK
    <2>4. \A g \in Handlers : Fits(task'[g].cred)
      BY <1>0, <1>2, <2>1, <2>2
    <2>5. UNCHANGED <<issued, valid, env, db, file>>
      BY <1>7 DEF GetAccessToken, providerVars
    <2>6. QED
      BY <1>1, <1>2, <2>3, <2>4, <2>5
  <1>8. ASSUME NEW h \in Handlers, RefreshFails(h)
        PROVE  Counted'
    <2>1. \A g \in Handlers : Fits(task'[g].cred)
      BY <1>0, <1>2, <1>8 DEF RefreshFails, Idle
    <2>2. UNCHANGED <<issued, valid, env, db, file, memory>>
      BY <1>8 DEF RefreshFails, providerVars
    <2>3. QED
      BY <1>1, <1>2, <2>1, <2>2
  <1>9. ASSUME NEW h \in Handlers, Persist(h)
        PROVE  Counted'
    <2>1. \A g \in Handlers : Fits(task'[g].cred)
      BY <1>0, <1>2, <1>9 DEF Persist, Idle
    <2>2. Fits(db') /\ \A i \in Instances : Fits(file'[i])
      BY <1>0, <1>2, <1>9 DEF Persist, TypeOK
    <2>3. UNCHANGED <<issued, valid, env, memory>>
      BY <1>9 DEF Persist, providerVars
    <2>4. QED
      BY <1>1, <1>2, <2>1, <2>2, <2>3
  <1>10. ASSUME NEW h \in Handlers, PersistFails(h)
         PROVE  Counted'
    <2>1. \A g \in Handlers : Fits(task'[g].cred)
      BY <1>0, <1>2, <1>10 DEF PersistFails, Idle
    <2>2. \A i \in Instances : Fits(file'[i])
      BY <1>0, <1>2, <1>10 DEF PersistFails, TypeOK
    <2>3. UNCHANGED <<issued, valid, env, db, memory>>
      BY <1>10 DEF PersistFails, providerVars
    <2>4. QED
      BY <1>1, <1>2, <2>1, <2>2, <2>3
  <1>11. ASSUME NEW t \in Token, Expire(t)
         PROVE  Counted'
    <2>1. UNCHANGED <<issued, valid, env, db, file, memory, task>>
      BY <1>11 DEF Expire
    <2>2. QED
      BY <1>1, <1>2, <2>1
  <1>12. CASE UNCHANGED vars
    <2>1. UNCHANGED <<issued, valid, env, db, file, memory, task>>
      BY <1>12 DEF vars, providerVars
    <2>2. QED
      BY <1>1, <1>2, <2>1
  (* The steps that have the provider issue a token. *)
  <1>13. ASSUME NEW c \in Credential, c.refresh <= issued + 1, issued' = issued + 1,
                valid' \subseteq valid \cup {issued'} \cup {c.refresh}, c.refresh # 0,
                UNCHANGED <<env, db, file>>,
                \A i \in Instances : memory'[i] = memory[i] \/ memory'[i] = c,
                \A h \in Handlers : task'[h].cred \in {task[h].cred, Empty, c}
         PROVE  Counted'
    <2> DEFINE Later(d) == AtMost(d, issued + 1)
    <2>1. \A d : Fits(d) => Later(d)
      BY <1>0 DEF AtMost
    <2>2. Later(c)
      BY <1>13 DEF AtMost
    <2>3. \A i \in Instances : Later(file'[i]) /\ Later(memory'[i])
      BY <1>2, <1>13, <2>1, <2>2
    <2>4. \A h \in Handlers : Later(task'[h].cred)
      BY <1>2, <1>13, <2>1, <2>2
    <2>5. Later(env') /\ Later(db')
      BY <1>2, <1>13, <2>1
    <2>6. 0 \notin valid' /\ \A t \in valid' : t <= issued'
      BY <1>0, <1>13 DEF Counted, TypeOK
    <2>7. QED
      BY <1>13, <2>3, <2>4, <2>5, <2>6 DEF Counted
  <1>14. ASSUME NEW h \in Handlers, NEW new \in Credential,
                Refreshed(task[h].cred.refresh, new, home[h])
         PROVE  /\ new.refresh <= issued + 1 /\ issued' = issued + 1
                /\ valid' \subseteq valid \cup {issued'} \cup {new.refresh}
                /\ new.refresh # 0
    BY <1>0, <1>14 DEF Refreshed, Counted, TypeOK
  <1>15. ASSUME NEW h \in Handlers, RefreshToken(h)
         PROVE  Counted'
    <2>1. PICK new \in Credential :
              /\ Refreshed(task[h].cred.refresh, new, home[h])
              /\ task'[h].cred = new
              /\ \A g \in Handlers : g # h => task'[g] = task[g]
              /\ memory' = [memory EXCEPT ![home[h]] = new]
      BY <1>0, <1>15, RefreshEffect
    <2>2. UNCHANGED <<env, db, file>>
      BY <1>15 DEF RefreshToken
    <2>3. \A i \in Instances : memory'[i] = memory[i] \/ memory'[i] = new
      BY <1>0, <2>1 DEF TypeOK
    <2>4. QED
      BY <1>13, <1>14, <2>1, <2>2, <2>3
  <1>16. ASSUME NEW h \in Handlers, RefreshLost(h)
         PROVE  Counted'
    <2>1. PICK new \in Credential : Refreshed(task[h].cred.refresh, new, home[h])
      BY <1>16 DEF RefreshLost
    <2>2. UNCHANGED <<env, db, file, memory>>
      BY <1>16 DEF RefreshLost
    <2>3. \A g \in Handlers : task'[g].cred \in {task[g].cred, Empty}
      BY <1>0, <1>16 DEF RefreshLost, Idle
    <2>4. QED
      BY <1>13, <1>14, <2>1, <2>2, <2>3
  <1>17. ASSUME NEW h \in Handlers, UpsertCredentials(h)
         PROVE  Counted'
    <2>1. PICK c \in Credential :
              /\ c.refresh = issued'
              /\ issued' = issued + 1 /\ valid' = valid \cup {issued'}
              /\ task' = [task EXCEPT ![h] = [pc |-> "persist", op |-> "login",
                                              cred |-> c, read |-> db]]
              /\ memory' = [memory EXCEPT ![home[h]] = c]
      BY <1>0, <1>17, LoginEffect
    <2>2. UNCHANGED <<env, db, file>>
      BY <1>17 DEF UpsertCredentials
    <2>3. /\ \A i \in Instances : memory'[i] = memory[i] \/ memory'[i] = c
          /\ \A g \in Handlers : task'[g].cred \in {task[g].cred, c}
      BY <1>0, <2>1 DEF TypeOK
    <2>4. c.refresh <= issued + 1 /\ c.refresh # 0
      BY <1>0, <2>1
    <2>5. QED
      BY <1>13, <2>1, <2>2, <2>3, <2>4
  <1>18. QED
    BY <1>3, <1>4, <1>5, <1>6, <1>7, <1>8, <1>9, <1>10, <1>11, <1>12, <1>15, <1>16, <1>17
       DEF Next

-----------------------------------------------------------------------------
(* While a handler is in a call its instance keeps the store it has, and   *)
(* no one else writes its file.                                            *)
LEMMA CallKeeps ==
    ASSUME OSteady, [Next]_vars, NEW h \in Handlers,
           task[h].pc # "idle", task'[h] = task[h]
    PROVE  /\ Attached(home[h])' = Attached(home[h])
           /\ file'[home[h]] \in {file[home[h]], Torn}
  <1> DEFINE k == home[h]
             Same == phase'[k] = phase[k] /\ file'[k] \in {file[k], Torn}
  <1>0. /\ TypeOK /\ k \in Instances /\ phase[k] # "down" /\ ~Unlocked(k)
        /\ \A g \in Handlers : g # h /\ task[g].pc # "idle" => home[g] # k
    BY Types DEF OSteady, OInv, Quiet, Unlocked, Mutex
  <1> HIDE DEF k
  <1> SUFFICES Same
    BY DEF Attached, k
  <1>1. ASSUME NEW i \in Instances, Construct(i) \/ ConstructCrashes(i)
        PROVE  Same
    <2>1. i # k
      BY <1>0, <1>1 DEF Construct, ConstructCrashes
    <2>2. file'[k] = file[k]
      BY <1>0, <1>1, <2>1, ConstructEffect DEF ConstructCrashes, TypeOK
    <2>3. QED
      BY <1>0, <1>1, <2>1, <2>2 DEF Construct, ConstructCrashes, TypeOK
  <1>2. ASSUME NEW i \in Instances, UseStore(i)
        PROVE  Same
    BY <1>0, <1>2 DEF UseStore, TypeOK
  <1>3. ASSUME NEW i \in Instances, UseStoreFails(i) \/ Crash(i)
        PROVE  Same
    <2>1. Down(i) /\ \A j \in Instances : file'[j] = file[j] \/ file'[j] = Torn
      BY <1>0, <1>3, StopEffect
    <2>2. i # k
      <3>1. i = k => task'[h] = Idle
        BY <2>1 DEF Down, k
      <3>2. QED
        BY <3>1 DEF Idle
    <2>3. QED
      BY <1>0, <2>1, <2>2 DEF Down, TypeOK
  <1>4. ASSUME NEW g \in Handlers,
               GetAccessToken(g) \/ UpsertCredentials(g) \/ RefreshToken(g)
                  \/ RefreshFails(g) \/ RefreshLost(g)
        PROVE  Same
    BY <1>4 DEF GetAccessToken, UpsertCredentials, RefreshToken, RefreshFails, RefreshLost
  <1>5. ASSUME NEW g \in Handlers, Persist(g) \/ PersistFails(g)
        PROVE  Same
    <2>1. g # h
      <3>1. task[g].pc = "persist" /\ task'[g] = Idle
        BY <1>0, <1>5, TaskType DEF Persist, PersistFails
      <3>2. QED
        BY <3>1 DEF Idle
    <2>2. home[g] # k
      BY <1>0, <1>5, <2>1 DEF Persist, PersistFails
    <2>3. QED
      BY <1>0, <1>5, <2>2 DEF Persist, PersistFails, TypeOK
  <1>6. ASSUME NEW t \in Token, Expire(t)
        PROVE  Same
    BY <1>6 DEF Expire
  <1>7. CASE UNCHANGED vars
    BY <1>7 DEF vars
  <1>8. QED
    BY <1>1, <1>2, <1>3, <1>4, <1>5, <1>6, <1>7 DEF Next

(* Where a handler that is in a call has come from. *)
LEMMA CallSteps ==
    ASSUME TypeOK, [Next]_vars, NEW h \in Handlers, task'[h].pc # "idle"
    PROVE  task'[h] = task[h] \/ GetAccessToken(h) \/ UpsertCredentials(h) \/ RefreshToken(h)
  <1>0. task \in [Handlers -> Task]
    BY TaskType
  <1>1. ASSUME NEW j \in Instances, UseStoreFails(j) \/ Crash(j)
        PROVE  task'[h] = task[h]
    <2>1. Down(j)
      BY <1>1 DEF UseStoreFails, Crash
    <2>2. QED
      BY <2>1 DEF Down, Idle
  <1>2. ASSUME NEW j \in Instances, Construct(j) \/ ConstructCrashes(j) \/ UseStore(j)
        PROVE  task'[h] = task[h]
    BY <1>2 DEF Construct, ConstructCrashes, UseStore
  <1>3. ASSUME NEW g \in Handlers, g # h,
               GetAccessToken(g) \/ UpsertCredentials(g) \/ RefreshToken(g)
        PROVE  task'[h] = task[h]
    BY <1>0, <1>3, GetEffect, LoginEffect, RefreshEffect
  <1>4. ASSUME NEW g \in Handlers,
               RefreshFails(g) \/ RefreshLost(g) \/ Persist(g) \/ PersistFails(g)
        PROVE  task'[h] = task[h]
    BY <1>0, <1>4 DEF RefreshFails, RefreshLost, Persist, PersistFails, Idle
  <1>5. ASSUME NEW t \in Token, Expire(t)
        PROVE  task'[h] = task[h]
    BY <1>5 DEF Expire
  <1>6. CASE UNCHANGED vars
    BY <1>6 DEF vars
  <1>7. QED
    BY <1>1, <1>2, <1>3, <1>4, <1>5, <1>6 DEF Next

LEMMA NextOrdered ==
    ASSUME OSteady, [Next]_vars
    PROVE  Ordered'
  <1> SUFFICES ASSUME NEW h \in Handlers, task'[h].pc # "idle"
               PROVE  OrderedAt(h)'
    BY DEF Ordered
  <1> DEFINE i == home[h]
  <1>0. /\ TypeOK /\ Counted /\ task \in [Handlers -> Task] /\ i \in Instances
        /\ task[h].pc # "idle" => OrderedAt(h)
    BY TaskType, Types DEF OSteady, OInv, Ordered
  <1>1. CASE task[h].pc # "idle" /\ task'[h] = task[h]
    <2>1. Attached(i)' = Attached(i) /\ file'[i] \in {file[i], Torn}
      BY <1>1, CallKeeps
    <2>2. OrderedAt(h)
      BY <1>0, <1>1
    <2>3. ~Attached(i)' => AtMost(file'[i], task'[h].cred.refresh)
      BY <1>1, <2>1, <2>2, Types DEF OrderedAt, AtMost
    <2>4. QED
      BY <1>1, <2>1, <2>2, <2>3 DEF OrderedAt, AtMost
  <1>2. CASE GetAccessToken(h)
    <2>1. PICK c \in Credential \cup {None} :
              /\ c = loadStateLocked(i)
              /\ \/ UNCHANGED task
                 \/ /\ c \in Credential
                    /\ task' = [task EXCEPT ![h] = [pc |-> "refresh", op |-> "get",
                                                    cred |-> c, read |-> db]]
      BY <1>0, <1>2, GetEffect
    <2>2. task[h].pc = "idle" /\ UNCHANGED <<phase, file>> /\ Loadable(i)
      BY <1>2 DEF GetAccessToken
    <2>3. /\ c \in Credential
          /\ task'[h] = [pc |-> "refresh", op |-> "get", cred |-> c, read |-> db]
      BY <1>0, <2>1, <2>2
    <2>4. Attached(i) => AtMost(db, c.refresh)
      BY <1>0, <2>1, <2>3, Types, Numbers DEF AtMost, loadStateLocked, FromDB, TypeOK
    <2>5. ~Attached(i) => AtMost(file[i], c.refresh)
      BY <1>0, <2>1, <2>2, <2>3, Types, Numbers
         DEF AtMost, loadStateLocked, FromDB, Loadable, TypeOK
    <2>6. QED
      BY <2>2, <2>3, <2>4, <2>5 DEF OrderedAt, AtMost, Attached
  <1>3. CASE UpsertCredentials(h)
    <2>1. PICK c \in Credential :
              /\ c.refresh = issued' /\ issued' = issued + 1
              /\ task' = [task EXCEPT ![h] = [pc |-> "persist", op |-> "login",
                                              cred |-> c, read |-> db]]
      BY <1>0, <1>3, LoginEffect
    <2>2. Attached(i) /\ UNCHANGED <<phase, file>>
      BY <1>3 DEF UpsertCredentials
    <2>3. task'[h] = [pc |-> "persist", op |-> "login", cred |-> c, read |-> db]
      BY <1>0, <2>1
    <2>4. c.refresh # 0 /\ AtMost(db, c.refresh)
      BY <1>0, <2>1, Numbers DEF Counted, AtMost
    <2>5. QED
      BY <2>2, <2>3, <2>4 DEF OrderedAt, AtMost, Attached
  <1>4. CASE RefreshToken(h)
    <2>1. PICK new \in Credential :
              /\ Refreshed(task[h].cred.refresh, new, i)
              /\ task'[h].pc = "persist" /\ task'[h].op = task[h].op
              /\ task'[h].cred = new /\ task'[h].read = task[h].read
      BY <1>0, <1>4, RefreshEffect
    <2>2. UNCHANGED <<phase, file>> /\ task[h].pc = "refresh" /\ OrderedAt(h)
      BY <1>0, <1>4 DEF RefreshToken
    <2>3. /\ new.refresh # 0 /\ task[h].cred.refresh <= new.refresh
          /\ task[h].cred.refresh \in Nat /\ new.refresh \in Nat
      BY <1>0, <2>1, Numbers DEF Refreshed, Counted, Task
    <2>4. \A x : AtMost(x, task[h].cred.refresh) => AtMost(x, new.refresh)
      BY <2>3, Numbers DEF AtMost
    <2>5. QED
      BY <2>1, <2>2, <2>3, <2>4 DEF OrderedAt, AtMost, Attached
  <1>5. QED
    BY <1>0, <1>1, <1>2, <1>3, <1>4, CallSteps DEF GetAccessToken, UpsertCredentials, RefreshToken

(* A login that is being stored stays a secret of its instance: nobody     *)
(* else can have the provider consume its token.                           *)
LEMMA SecretKept ==
    ASSUME OSteady, [Next]_vars, NEW h \in Handlers, Writing(h, "login"),
           task'[h] = task[h]
    PROVE  SecretAt(h)'
  <1> DEFINE t == task[h].cred.refresh
             k == home[h]
             Safe(x) == ~Has(x, t)
  <1>0. /\ TypeOK /\ Counted /\ k \in Instances /\ task \in [Handlers -> Task]
        /\ task[h].pc = "persist" /\ ~Unlocked(k) /\ phase[k] # "down"
        /\ \A g \in Handlers : g # h /\ task[g].pc # "idle" => home[g] # k
    BY Types, TaskType DEF OSteady, OInv, Quiet, Unlocked, Mutex, Writing
  <1>1. /\ t \in valid /\ t <= issued /\ t # 0 /\ t \in Nat /\ issued \in Nat
        /\ Safe(env) /\ Safe(db) /\ Safe(None) /\ Safe(Torn)
        /\ \A i \in Instances : Safe(file[i]) /\ (i # k => Safe(memory[i]))
        /\ \A g \in Handlers : g # h /\ task[g].pc # "idle" => Safe(task[g].cred)
    <2>1. t \in valid /\ ~Elsewhere(h, t)
      BY DEF OSteady, Secret, SecretAt
    <2>2. t \in Nat /\ issued \in Nat /\ t <= issued /\ t # 0
      BY <1>0, <2>1, Numbers DEF Counted, Task
    <2>3. Safe(None) /\ Safe(Torn)
      BY Types DEF Has
    <2> HIDE DEF t
    <2>4. QED
      BY <2>1, <2>2, <2>3 DEF Elsewhere
  <1> HIDE DEF t, k
  <1>2. ASSUME t \in valid', Safe(env'), Safe(db'),
               \A i \in Instances : Safe(file'[i]),
               \A i \in Instances \ {k} : Safe(memory'[i]),
               \A g \in Handlers \ {h} : task'[g].pc # "idle" => Safe(task'[g].cred)
        PROVE  SecretAt(h)'
    <2>1. task'[h].cred.refresh = t
      BY DEF t
    <2>2. QED
      BY <1>2, <2>1 DEF SecretAt, Elsewhere, k
  <1>3. ASSUME NEW i \in Instances, Construct(i)
        PROVE  /\ UNCHANGED <<valid, env, db, task>>
               /\ \A j \in Instances : Safe(file'[j]) /\ (j # k => Safe(memory'[j]))
    <2>1. PICK c \in Credential :
              /\ c.refresh = env.refresh \/ Has(file[i], c.refresh)
              /\ memory' = memory \/ memory' = [memory EXCEPT ![i] = c]
              /\ file' = file \/ file' = [file EXCEPT ![i] = c]
      BY <1>0, <1>3, ConstructEffect
    <2>2. Safe(c)
      BY <1>0, <1>1, <2>1 DEF Has, TypeOK
    <2>3. QED
      BY <1>0, <1>1, <1>3, <2>1, <2>2 DEF Construct, TypeOK, providerVars
  <1>4. ASSUME NEW i \in Instances, ConstructCrashes(i)
        PROVE  /\ UNCHANGED <<valid, env, db, memory, task>>
               /\ \A j \in Instances : Safe(file'[j])
    BY <1>0, <1>1, <1>4 DEF ConstructCrashes, TypeOK, providerVars
  <1>5. ASSUME NEW i \in Instances, UseStore(i)
        PROVE  /\ UNCHANGED <<valid, env, file, task>> /\ Safe(db')
               /\ \A j \in Instances : j # k => Safe(memory'[j])
    <2>1. PICK c \in Credential \cup {None} :
              /\ c = IF file[i] # None THEN file[i] ELSE memory[i]
              /\ memory' = [memory EXCEPT ![i] = c]
              /\ c = None => db' = db
              /\ c # None => db' = c
      BY <1>0, <1>5, UseStoreEffect
    <2>2. i # k
      BY <1>0, <1>5 DEF UseStore
    <2>3. Safe(c)
      BY <1>1, <2>1, <2>2
    <2>4. QED
      BY <1>0, <1>1, <1>5, <2>1, <2>3 DEF UseStore, TypeOK, providerVars
  <1>6. ASSUME NEW i \in Instances, UseStoreFails(i) \/ Crash(i)
        PROVE  /\ UNCHANGED <<valid, env, db>>
               /\ \A j \in Instances : Safe(file'[j]) /\ (j # k => Safe(memory'[j]))
               /\ \A g \in Handlers : task'[g].pc # "idle" => task'[g] = task[g]
    <2>1. /\ UNCHANGED <<valid, env, db>>
          /\ Down(i)
          /\ \A j \in Instances : file'[j] = file[j] \/ file'[j] = Torn
      BY <1>0, <1>6, StopEffect DEF providerVars
    <2>2. \A j \in Instances : Safe(file'[j])
      BY <1>1, <2>1
    <2>3. \A j \in Instances : j # k => Safe(memory'[j])
      BY <1>0, <1>1, <2>1 DEF Down, TypeOK
    <2>4. \A g \in Handlers : task'[g].pc # "idle" => task'[g] = task[g]
      BY <2>1 DEF Down, Idle
    <2>5. QED
      BY <2>1, <2>2, <2>3, <2>4
  <1>7. ASSUME NEW g \in Handlers, GetAccessToken(g)
        PROVE  /\ UNCHANGED <<valid, env, db, file>>
               /\ \A j \in Instances : j # k => Safe(memory'[j])
               /\ \A f \in Handlers \ {h} : task'[f].pc # "idle" => Safe(task'[f].cred)
    <2>1. PICK c \in Credential \cup {None} :
              /\ c = loadStateLocked(home[g])
              /\ memory' = [memory EXCEPT ![home[g]] = c]
              /\ \/ UNCHANGED task
                 \/ task' = [task EXCEPT ![g] = [pc |-> "refresh", op |-> "get",
                                                 cred |-> c, read |-> db]]
      BY <1>0, <1>7, GetEffect
    <2>2. home[g] # k /\ home[g] \in Instances
      BY <1>0, <1>7, Types DEF GetAccessToken
    <2>3. Safe(c)
      BY <1>1, <2>1, <2>2 DEF loadStateLocked
    <2>4. \A f \in Handlers \ {h} : task'[f].pc # "idle" => Safe(task'[f].cred)
      BY <1>0, <1>1, <2>1, <2>3
    <2>5. QED
      BY <1>0, <1>1, <1>7, <2>1, <2>3, <2>4 DEF GetAccessToken, TypeOK, providerVars
  (* Another handler takes its own token to the provider, not this one.    *)
  <1>8. ASSUME NEW g \in Handlers, task[g].pc = "refresh", NEW new \in Credential,
               Refreshed(task[g].cred.refresh, new, home[g])
        PROVE  t \in valid' /\ Safe(new)
    <2>1. g # h /\ Safe(task[g].cred)
      BY <1>0, <1>1, <1>8
    <2>2. task[g].cred.refresh # t
      BY <1>0, <2>1 DEF Has, Task
    <2>3. QED
      BY <1>1, <1>8, <2>2 DEF Refreshed, Has
  <1>9. ASSUME NEW g \in Handlers, RefreshToken(g)
        PROVE  /\ t \in valid' /\ UNCHANGED <<env, db, file>>
               /\ \A j \in Instances : j # k => Safe(memory'[j])
               /\ \A f \in Handlers \ {h} : task'[f].pc # "idle" => Safe(task'[f].cred)
    <2>1. PICK new \in Credential :
              /\ Refreshed(task[g].cred.refresh, new, home[g])
              /\ task'[g].cred = new
              /\ \A f \in Handlers : f # g => task'[f] = task[f]
              /\ memory' = [memory EXCEPT ![home[g]] = new]
      BY <1>0, <1>9, RefreshEffect
    <2>2. t \in valid' /\ Safe(new)
      BY <1>8, <1>9, <2>1 DEF RefreshToken
    <2>3. QED
      BY <1>0, <1>1, <1>9, <2>1, <2>2 DEF RefreshToken, TypeOK
  <1>10. ASSUME NEW g \in Handlers, RefreshFails(g)
         PROVE  /\ UNCHANGED <<valid, env, db, file, memory>>
                /\ \A f \in Handlers : task'[f].pc # "idle" => task'[f] = task[f]
    BY <1>0, <1>10 DEF RefreshFails, Idle, providerVars
  <1>11. ASSUME NEW g \in Handlers, RefreshLost(g)
         PROVE  /\ t \in valid' /\ UNCHANGED <<env, db, file, memory>>
                /\ \A f \in Handlers : task'[f].pc # "idle" => task'[f] = task[f]
    BY <1>0, <1>8, <1>11 DEF RefreshLost, Idle
  <1>12. ASSUME NEW g \in Handlers, UpsertCredentials(g)
         PROVE  /\ t \in valid' /\ UNCHANGED <<env, db, file>>
                /\ \A j \in Instances : j # k => Safe(memory'[j])
                /\ \A f \in Handlers \ {h} : task'[f].pc # "idle" => Safe(task'[f].cred)
    <2>1. PICK c \in Credential :
              /\ c.refresh = issued'
              /\ issued' = issued + 1 /\ valid' = valid \cup {issued'}
              /\ task' = [task EXCEPT ![g] = [pc |-> "persist", op |-> "login",
                                              cred |-> c, read |-> db]]
              /\ memory' = [memory EXCEPT ![home[g]] = c]
      BY <1>0, <1>12, LoginEffect
    <2>2. Safe(c)
      BY <1>1, <2>1 DEF Has
    <2>3. UNCHANGED <<env, db, file>>
      BY <1>12 DEF UpsertCredentials
    <2>4. QED
      BY <1>0, <1>1, <2>1, <2>2, <2>3 DEF TypeOK
  <1>13. ASSUME NEW g \in Handlers, Persist(g) \/ PersistFails(g)
         PROVE  /\ UNCHANGED <<valid, env, memory>> /\ Safe(db')
                /\ \A j \in Instances : Safe(file'[j])
                /\ \A f \in Handlers : task'[f].pc # "idle" => task'[f] = task[f]
    <2>1. task' = [task EXCEPT ![g] = Idle] /\ task[g].pc = "persist"
      BY <1>13 DEF Persist, PersistFails
    <2>2. g # h
      BY <1>0, <2>1 DEF Idle
    <2>3. Safe(task[g].cred)
      BY <1>1, <2>1, <2>2
    <2>4. Safe(db')
      BY <1>1, <1>13, <2>3 DEF Persist, PersistFails
    <2>5. \A j \in Instances : Safe(file'[j])
      <3>1. CASE Persist(g)
        BY <1>0, <1>1, <2>3, <3>1 DEF Persist, TypeOK
      <3>2. CASE PersistFails(g)
        BY <1>0, <1>1, <3>2 DEF PersistFails, TypeOK
      <3>3. QED
        BY <1>13, <3>1, <3>2
    <2>6. \A f \in Handlers : task'[f].pc # "idle" => task'[f] = task[f]
      BY <1>0, <2>1 DEF Idle
    <2>7. QED
      BY <1>13, <2>4, <2>5, <2>6 DEF Persist, PersistFails, providerVars
  <1>14. ASSUME NEW u \in Token, Expire(u)
         PROVE  UNCHANGED <<valid, env, db, file, memory, task>>
    BY <1>14 DEF Expire
  <1>15. ASSUME UNCHANGED vars
         PROVE  UNCHANGED <<valid, env, db, file, memory, task>>
    BY <1>15 DEF vars, providerVars
  <1>16. QED
    <2> HIDE DEF Safe
    <2>1. ASSUME NEW i \in Instances,
                 Construct(i) \/ ConstructCrashes(i) \/ UseStore(i) \/ UseStoreFails(i) \/ Crash(i)
          PROVE  /\ t \in valid' /\ Safe(env') /\ Safe(db')
                 /\ \A j \in Instances : Safe(file'[j])
                 /\ \A j \in Instances \ {k} : Safe(memory'[j])
                 /\ \A g \in Handlers \ {h} : task'[g].pc # "idle" => Safe(task'[g].cred)
      BY <1>1, <1>3, <1>4, <1>5, <1>6, <2>1
    <2>2. ASSUME NEW g \in Handlers,
                 \/ GetAccessToken(g) \/ RefreshToken(g) \/ RefreshFails(g) \/ RefreshLost(g)
                 \/ UpsertCredentials(g) \/ Persist(g) \/ PersistFails(g)
          PROVE  /\ t \in valid' /\ Safe(env') /\ Safe(db')
                 /\ \A j \in Instances : Safe(file'[j])
                 /\ \A j \in Instances \ {k} : Safe(memory'[j])
                 /\ \A f \in Handlers \ {h} : task'[f].pc # "idle" => Safe(task'[f].cred)
      BY <1>1, <1>7, <1>9, <1>10, <1>11, <1>12, <1>13, <2>2
    <2>3. QED
      BY <1>1, <1>2, <1>14, <1>15, <2>1, <2>2 DEF Next

LEMMA NextSecret ==
    ASSUME OSteady, [Next]_vars
    PROVE  Secret'
  <1>0. /\ TypeOK /\ Counted /\ Mutex /\ task \in [Handlers -> Task] /\ issued \in Nat
        /\ Ordered
    BY TaskType, Numbers DEF OSteady, OInv
  <1> SUFFICES ASSUME NEW h \in Handlers, Writing(h, "login")'
               PROVE  SecretAt(h)'
    BY DEF Secret
  <1>1. task'[h].pc = "persist" /\ task'[h].op = "login"
    BY DEF Writing
  <1>2. CASE task'[h] = task[h]
    BY <1>1, <1>2, SecretKept DEF Writing
  <1>3. CASE UpsertCredentials(h)
    <2>1. PICK c \in Credential :
              /\ c.refresh = issued'
              /\ issued' = issued + 1 /\ valid' = valid \cup {issued'}
              /\ task' = [task EXCEPT ![h] = [pc |-> "persist", op |-> "login",
                                              cred |-> c, read |-> db]]
              /\ memory' = [memory EXCEPT ![home[h]] = c]
      BY <1>0, <1>3, LoginEffect
    <2>2. UNCHANGED <<env, db, file>>
      BY <1>3 DEF UpsertCredentials
    <2>3. task'[h].cred.refresh = issued + 1
      BY <1>0, <2>1
    <2>4. \A x : AtMost(x, issued) => ~Has(x, issued + 1)
      BY <1>0 DEF AtMost, Has
    <2>5. /\ ~Has(env', issued + 1) /\ ~Has(db', issued + 1)
          /\ \A i \in Instances : ~Has(file'[i], issued + 1)
      BY <1>0, <2>2, <2>4 DEF Counted
    <2>6. \A i \in Instances : i # home[h] => ~Has(memory'[i], issued + 1)
      BY <1>0, <2>1, <2>4 DEF Counted, TypeOK
    <2>7. \A g \in Handlers : g # h => ~Has(task'[g].cred, issued + 1)
      BY <1>0, <2>1, <2>4 DEF Counted
    <2>8. QED
      BY <2>1, <2>3, <2>5, <2>6, <2>7 DEF SecretAt, Elsewhere
  <1>4. CASE GetAccessToken(h)
    BY <1>0, <1>1, <1>2, <1>4, GetEffect
  <1>5. CASE RefreshToken(h)
    BY <1>0, <1>1, <1>5, RefreshEffect DEF Ordered, OrderedAt
  <1>6. QED
    BY <1>0, <1>1, <1>2, <1>3, <1>4, <1>5, CallSteps

LEMMA NextSteady ==
    ASSUME OSteady, [Next]_vars
    PROVE  OSteady'
  <1>1. OInv'
    BY NextTypeOK, NextMutex, NextOwnWritesRead DEF OSteady, OInv
  <1>2. QED
    BY <1>1, NextCounted, NextQuiet, NextOrdered, NextSecret DEF OSteady

-----------------------------------------------------------------------------
(* As long as nothing has cost the session (excuses = {}): where the newest *)
(* refresh token is, and what follows a token that was consumed.            *)

(* A token that is stored, or about to be by the request that rotated it;  *)
(* a login may still fail to be stored, so its token does not count yet.   *)
Stays(t) ==
    \/ Has(env, t) \/ Has(db, t)
    \/ \E i \in Instances : Has(file[i], t)
    \/ \E h \in Handlers : Writing(h, "get") /\ Has(task[h].cred, t)

Leads(t) ==
    /\ t \in valid \cup {0} /\ Stays(t)
    /\ \A s \in Token : Stays(s) => s <= t
    /\ session => t # 0

(* The newest of these tokens is one the provider accepts. *)
Newest == excuses = {} => \E t \in Token : Leads(t)

(* Before the table is attached, an instance that could not write a file   *)
(* knows the tokens of the environment, unless a request rotated them.     *)
Remembers(i) ==
    phase[i] = "constructed" /\ file[i] = None /\ memory[i] # None
      /\ (\A h \in Handlers : home[h] = i => task[h].pc # "persist")
        => memory[i].refresh = env.refresh

Remembered == excuses = {} => \A i \in Instances : Remembers(i)

(* A token an instance has consumed is behind what it reads next. *)
Superseded(r, i) ==
    \/ Newer(db, r)
    \/ ~Attached(i) /\ Newer(file[i], r)
    \/ \E h \in Handlers : home[h] = i /\ Writing(h, "get") /\ Newer(task[h].cred, r)

Used ==
    excuses = {} =>
        \A r \in Token, i \in Instances : usedBy[r] = i => Superseded(r, i)

OFull == OSteady /\ Newest /\ Remembered /\ Used /\ NotReplayed

LEMMA ExcusesStay ==
    ASSUME TypeOK, [Next]_vars, excuses' = {}
    PROVE  excuses = {}
  <1>1. ASSUME NEW i \in Instances,
               Construct(i) \/ ConstructCrashes(i) \/ UseStore(i) \/ UseStoreFails(i) \/ Crash(i)
        PROVE  excuses \subseteq excuses'
    BY <1>1 DEF Construct, ConstructCrashes, UseStore, UseStoreFails, Crash
  <1>2. ASSUME NEW h \in Handlers,
               \/ GetAccessToken(h) \/ RefreshToken(h) \/ RefreshFails(h) \/ RefreshLost(h)
               \/ UpsertCredentials(h) \/ Persist(h) \/ PersistFails(h)
        PROVE  excuses \subseteq excuses'
    BY <1>2 DEF GetAccessToken, RefreshToken, RefreshFails, RefreshLost, UpsertCredentials,
                Persist, PersistFails
  <1>3. (\E t \in Token : Expire(t)) \/ UNCHANGED vars => excuses' = excuses
    BY DEF Expire, vars
  <1>4. QED
    BY <1>1, <1>2, <1>3 DEF Next

LEMMA PersistEffect ==
    ASSUME OSteady, NEW h \in Handlers, Persist(h), excuses' = {}
    PROVE  /\ task[h].pc = "persist" /\ task[h].cred \in Credential
           /\ task[h].cred.refresh # 0
           /\ task' = [task EXCEPT ![h] = Idle]
           /\ \/ /\ Attached(home[h]) /\ db' = task[h].cred /\ UNCHANGED file
                 /\ AtMost(db, task[h].cred.refresh)
              \/ /\ ~Attached(home[h]) /\ file' = [file EXCEPT ![home[h]] = task[h].cred]
                 /\ db' = db /\ task[h].op = "get"
                 /\ AtMost(file[home[h]], task[h].cred.refresh)
  <1>1. /\ task[h].pc = "persist" /\ task[h] \in Task /\ OrderedAt(h)
        /\ task' = [task EXCEPT ![h] = Idle]
    BY TaskType DEF OSteady, OInv, Ordered, Persist
  <1>2. CASE Attached(home[h])
    <2>1. db' = task[h].cred /\ UNCHANGED file /\ task[h].read = db
      BY <1>2 DEF Persist
    <2>2. AtMost(db, task[h].cred.refresh)
      BY <1>1, <1>2, <2>1 DEF OrderedAt
    <2>3. QED
      BY <1>1, <1>2, <2>1, <2>2 DEF OrderedAt, Task
  <1>3. CASE ~Attached(home[h])
    <2>1. file' = [file EXCEPT ![home[h]] = task[h].cred] /\ db' = db
      BY <1>3 DEF Persist
    <2>2. QED
      BY <1>1, <1>3, <2>1 DEF OrderedAt, Task
  <1>4. QED
    BY <1>2, <1>3

LEMMA PersistFailsEffect ==
    ASSUME OSteady, NEW h \in Handlers, PersistFails(h), excuses' = {}
    PROVE  /\ task[h].op = "login" /\ Attached(home[h]) /\ task[h].pc = "persist"
           /\ UNCHANGED <<valid, env, db, file, phase, memory, session, usedBy>>
           /\ task' = [task EXCEPT ![h] = Idle]
  <1>1. /\ task[h].pc = "persist" /\ task[h] \in Task /\ OrderedAt(h)
        /\ task[h].op # "get" /\ file' = file
    BY TaskType DEF OSteady, OInv, Ordered, PersistFails
  <1>2. QED
    BY <1>1 DEF Task, OrderedAt, PersistFails, providerVars

(* Only a rotation names a consumer, the instance of the handler.          *)
LEMMA UsedBySteps ==
    ASSUME OSteady, [Next]_vars, excuses' = {}
    PROVE  \/ UNCHANGED usedBy
           \/ \E h \in Handlers : RefreshToken(h)
  <1>1. ASSUME NEW h \in Handlers, RefreshLost(h)
        PROVE  FALSE
    BY <1>1 DEF RefreshLost
  <1>2. ASSUME NEW i \in Instances,
               Construct(i) \/ ConstructCrashes(i) \/ UseStore(i) \/ UseStoreFails(i) \/ Crash(i)
        PROVE  UNCHANGED usedBy
    BY <1>2 DEF Construct, ConstructCrashes, UseStore, UseStoreFails, Crash
  <1>3. ASSUME NEW h \in Handlers,
               \/ GetAccessToken(h) \/ RefreshFails(h) \/ UpsertCredentials(h)
               \/ Persist(h) \/ PersistFails(h)
        PROVE  UNCHANGED usedBy
    BY <1>3 DEF GetAccessToken, RefreshFails, UpsertCredentials, Persist, PersistFails
  <1>4. (\E t \in Token : Expire(t)) \/ UNCHANGED vars => UNCHANGED usedBy
    BY DEF Expire, vars
  <1>5. QED
    BY <1>1, <1>2, <1>3, <1>4 DEF Next

-----------------------------------------------------------------------------
LEMMA NextRemembered ==
    ASSUME OSteady, Remembered, [Next]_vars
    PROVE  Remembered'
  <1> SUFFICES ASSUME excuses' = {}, NEW i \in Instances,
                      phase'[i] = "constructed", file'[i] = None, memory'[i] # None,
                      \A h \in Handlers : home[h] = i => task'[h].pc # "persist"
               PROVE  memory'[i].refresh = env'.refresh
    BY DEF Remembered, Remembers
  <1> DEFINE Before == phase[i] = "constructed" /\ file[i] = None /\ memory'[i] = memory[i]
                         /\ env' = env
                         /\ \A h \in Handlers : home[h] = i => task[h].pc # "persist"
  <1>0. /\ TypeOK /\ Ordered /\ task \in [Handlers -> Task] /\ Remembers(i) /\ excuses = {}
        /\ \A h \in Handlers : home[h] \in Instances
    BY ExcusesStay, TaskType, Types DEF OSteady, OInv, Remembered
  <1>1. Before => memory'[i].refresh = env'.refresh
    BY <1>0 DEF Remembers
  <1>2. ASSUME NEW j \in Instances, Construct(j)
        PROVE  memory'[i].refresh = env'.refresh
    <2>1. PICK c \in Credential :
              /\ file[j] = None => c.refresh = env.refresh
              /\ memory' = memory \/ memory' = [memory EXCEPT ![j] = c]
              /\ file[j] = None => memory' = [memory EXCEPT ![j] = c]
              /\ file' = file \/ file' = [file EXCEPT ![j] = c]
      BY <1>0, <1>2, ConstructEffect
    <2>2. env' = env /\ task' = task /\ phase' = [phase EXCEPT ![j] = "constructed"]
      BY <1>2 DEF Construct
    <2>3. file[i] = None
      BY <1>0, <2>1, Types DEF TypeOK
    <2>4. CASE i = j
      BY <1>0, <2>1, <2>2, <2>3, <2>4 DEF TypeOK
    <2>5. CASE i # j
      BY <1>0, <1>1, <2>1, <2>2, <2>3, <2>5 DEF TypeOK
    <2>6. QED
      BY <2>4, <2>5
  <1>3. ASSUME NEW j \in Instances, ConstructCrashes(j)
        PROVE  FALSE
    BY <1>3 DEF ConstructCrashes
  <1>4. ASSUME NEW j \in Instances, UseStore(j)
        PROVE  Before
    <2>1. i # j /\ env' = env /\ task' = task /\ file' = file /\ phase'[i] = phase[i]
      BY <1>0, <1>4 DEF UseStore, TypeOK
    <2>2. memory'[i] = memory[i]
      BY <1>0, <1>4, <2>1 DEF UseStore, TypeOK
    <2>3. QED
      BY <2>1, <2>2
  <1>5. ASSUME NEW j \in Instances, UseStoreFails(j) \/ Crash(j)
        PROVE  Before
    <2>1. env' = env /\ Down(j) /\ file' = file
      BY <1>0, <1>5, StopEffect
    <2>2. i # j
      BY <1>0, <2>1 DEF Down, TypeOK
    <2>3. QED
      BY <1>0, <2>1, <2>2 DEF Down, TypeOK
  <1>6. ASSUME NEW h \in Handlers, GetAccessToken(h)
        PROVE  Before
    <2>1. PICK c \in Credential \cup {None} :
              /\ c = loadStateLocked(home[h])
              /\ memory' = [memory EXCEPT ![home[h]] = c]
              /\ \/ UNCHANGED task
                 \/ task' = [task EXCEPT ![h] = [pc |-> "refresh", op |-> "get",
                                                 cred |-> c, read |-> db]]
      BY <1>0, <1>6, GetEffect
    <2>2. UNCHANGED <<env, file, phase>> /\ task[h].pc = "idle"
      BY <1>6 DEF GetAccessToken
    <2>3. memory'[i] = memory[i]
      BY <1>0, <2>1, <2>2 DEF loadStateLocked, FromDB, Attached, TypeOK
    <2>4. \A g \in Handlers : home[g] = i => task[g].pc # "persist"
      BY <1>0, <2>1, <2>2
    <2>5. QED
      BY <2>2, <2>3, <2>4
  <1>7. ASSUME NEW h \in Handlers, RefreshToken(h)
        PROVE  Before
    <2>1. PICK new \in Credential :
              /\ task'[h].pc = "persist"
              /\ \A g \in Handlers : g # h => task'[g] = task[g]
              /\ memory' = [memory EXCEPT ![home[h]] = new]
      BY <1>0, <1>7, RefreshEffect
    <2>2. UNCHANGED <<env, file, phase>> /\ home[h] # i
      BY <1>7, <2>1 DEF RefreshToken
    <2>3. QED
      BY <1>0, <2>1, <2>2 DEF TypeOK
  <1>8. ASSUME NEW h \in Handlers, RefreshFails(h)
        PROVE  Before
    BY <1>0, <1>8 DEF RefreshFails
  <1>9. ASSUME NEW h \in Handlers, RefreshLost(h)
        PROVE  FALSE
    BY <1>9 DEF RefreshLost
  <1>10. ASSUME NEW h \in Handlers, UpsertCredentials(h)
         PROVE  Before
    <2>1. PICK c \in Credential :
              /\ task' = [task EXCEPT ![h] = [pc |-> "persist", op |-> "login",
                                              cred |-> c, read |-> db]]
              /\ memory' = [memory EXCEPT ![home[h]] = c]
      BY <1>0, <1>10, LoginEffect
    <2>2. UNCHANGED <<env, file, phase>> /\ phase[home[h]] = "up"
      BY <1>10 DEF UpsertCredentials, Attached
    <2>3. home[h] # i
      BY <2>2
    <2>4. QED
      BY <1>0, <2>1, <2>2, <2>3 DEF TypeOK
  <1>11. ASSUME NEW h \in Handlers, Persist(h)
         PROVE  Before
    <2>1. /\ task[h].cred \in Credential /\ task' = [task EXCEPT ![h] = Idle]
          /\ \/ Attached(home[h]) /\ file' = file
             \/ file' = [file EXCEPT ![home[h]] = task[h].cred]
      BY <1>11, PersistEffect
    <2>2. UNCHANGED <<env, phase, memory>>
      BY <1>11 DEF Persist
    <2>3. home[h] # i
      BY <1>0, <2>1, <2>2, Types DEF Attached, TypeOK
    <2>4. QED
      BY <1>0, <2>1, <2>2, <2>3 DEF TypeOK
  <1>12. ASSUME NEW h \in Handlers, PersistFails(h)
         PROVE  Before
    <2>1. /\ Attached(home[h]) /\ UNCHANGED <<env, file, phase, memory>>
          /\ task' = [task EXCEPT ![h] = Idle]
      BY <1>12, PersistFailsEffect
    <2>2. home[h] # i
      BY <2>1 DEF Attached
    <2>3. QED
      BY <1>0, <2>1, <2>2
  <1>13. ASSUME NEW t \in Token, Expire(t)
         PROVE  Before
    BY <1>13 DEF Expire
  <1>14. CASE UNCHANGED vars
    BY <1>1, <1>14 DEF vars
  <1>15. QED
    BY <1>1, <1>2, <1>3, <1>4, <1>5, <1>6, <1>7, <1>8, <1>9, <1>10, <1>11, <1>12, <1>13,
       <1>14 DEF Next

(* What an instance has consumed stays behind what it reads next. *)
LEMMA SupersededKept ==
    ASSUME OSteady, [Next]_vars, excuses' = {},
           NEW r \in Token, NEW i \in Instances, Superseded(r, i)
    PROVE  Superseded(r, i)'
  <1>0. /\ TypeOK /\ Ordered /\ task \in [Handlers -> Task]
        /\ \A h \in Handlers : home[h] \in Instances
    BY TaskType, Types DEF OSteady, OInv
  (* A value that only grows stays newer than r. *)
  <1>2. ASSUME NEW x, NEW c \in Credential, AtMost(x, c.refresh), Newer(x, r)
        PROVE  Newer(c, r)
    BY <1>2, Numbers DEF AtMost, Newer
  <1>3. ASSUME Newer(db, r) => Newer(db', r),
               ~Attached(i) /\ Newer(file[i], r)
                  => (~Attached(i)' /\ Newer(file'[i], r)) \/ Newer(db', r),
               \A h \in Handlers : home[h] = i /\ Writing(h, "get")
                  => \/ task'[h] = task[h]
                     \/ Newer(task[h].cred, r)
                          => (~Attached(i)' /\ Newer(file'[i], r)) \/ Newer(db', r)
        PROVE  Superseded(r, i)'
    BY <1>3 DEF Superseded, Writing
  <1>4. ASSUME NEW j \in Instances, Construct(j)
        PROVE  Superseded(r, i)'
    <2>1. PICK c \in Credential :
              \/ file' = file
              \/ file' = [file EXCEPT ![j] = c] /\ AtMost(file[j], c.refresh)
      BY <1>0, <1>4, ConstructEffect
    <2>2. task' = task /\ db' = db /\ phase' = [phase EXCEPT ![j] = "constructed"]
      BY <1>4 DEF Construct
    <2>3. ~Attached(i) => ~Attached(i)'
      BY <1>0, <2>2 DEF Attached, TypeOK
    <2>4. Newer(file[i], r) => Newer(file'[i], r)
      BY <1>0, <1>2, <2>1 DEF TypeOK
    <2>5. QED
      BY <1>3, <2>2, <2>3, <2>4
  <1>5. ASSUME NEW j \in Instances, ConstructCrashes(j)
        PROVE  FALSE
    BY <1>5 DEF ConstructCrashes
  <1>6. ASSUME NEW j \in Instances, UseStore(j)
        PROVE  Superseded(r, i)'
    <2>1. PICK c \in Credential \cup {None} :
              /\ c = IF file[j] # None THEN file[j] ELSE memory[j]
              /\ c = None => db' = db
              /\ c # None => db' = c
              /\ c # None => AtMost(db, c.refresh)
      BY <1>0, <1>6, UseStoreEffect
    <2>2. task' = task /\ file' = file /\ phase' = [phase EXCEPT ![j] = "up"]
      BY <1>6 DEF UseStore
    <2>3. Newer(db, r) => Newer(db', r)
      BY <1>2, <2>1
    <2>4. CASE i = j
      <3>1. Newer(file[i], r) => Newer(db', r)
        BY <2>1, <2>4, Types DEF Newer
      <3>2. QED
        BY <1>3, <2>2, <2>3, <3>1
    <2>5. CASE i # j
      BY <1>0, <1>3, <2>2, <2>3, <2>5 DEF Attached, TypeOK
    <2>6. QED
      BY <2>4, <2>5
  <1>7. ASSUME NEW j \in Instances, UseStoreFails(j) \/ Crash(j)
        PROVE  Superseded(r, i)'
    <2>1. /\ db' = db /\ Down(j) /\ file' = file
          /\ \A h \in Handlers : home[h] = j => ~Writing(h, "get")
      BY <1>0, <1>7, StopEffect
    <2>2. ~Attached(i) => ~Attached(i)'
      BY <1>0, <2>1 DEF Down, Attached, TypeOK
    <2>3. \A h \in Handlers : Writing(h, "get") => task'[h] = task[h]
      BY <2>1 DEF Down
    <2>4. QED
      BY <1>3, <2>1, <2>2, <2>3
  <1>8. ASSUME NEW g \in Handlers, task[g].pc # "persist", UNCHANGED <<db, file, phase>>,
               \A h \in Handlers : h # g => task'[h] = task[h]
        PROVE  Superseded(r, i)'
    BY <1>3, <1>8 DEF Writing, Attached
  <1>9. ASSUME NEW g \in Handlers,
               \/ GetAccessToken(g) \/ RefreshToken(g) \/ RefreshFails(g) \/ RefreshLost(g)
               \/ UpsertCredentials(g)
        PROVE  Superseded(r, i)'
    <2>1. task[g].pc # "persist" /\ UNCHANGED <<db, file, phase>>
      BY <1>9 DEF GetAccessToken, RefreshToken, RefreshFails, RefreshLost, UpsertCredentials
    <2>2. \A h \in Handlers : h # g => task'[h] = task[h]
      <3>1. CASE RefreshFails(g) \/ RefreshLost(g)
        BY <1>0, <3>1 DEF RefreshFails, RefreshLost
      <3>2. QED
        BY <1>0, <1>9, <3>1, GetEffect, RefreshEffect, LoginEffect
    <2>3. QED
      BY <1>8, <2>1, <2>2
  <1>10. ASSUME NEW g \in Handlers, Persist(g)
         PROVE  Superseded(r, i)'
    <2>1. /\ task[g].cred \in Credential
          /\ task' = [task EXCEPT ![g] = Idle]
          /\ \/ /\ Attached(home[g]) /\ db' = task[g].cred /\ UNCHANGED file
                /\ AtMost(db, task[g].cred.refresh)
             \/ /\ ~Attached(home[g]) /\ file' = [file EXCEPT ![home[g]] = task[g].cred]
                /\ db' = db
                /\ AtMost(file[home[g]], task[g].cred.refresh)
      BY <1>10, PersistEffect
    <2>2. phase' = phase
      BY <1>10 DEF Persist
    <2>3. Newer(db, r) => Newer(db', r)
      BY <1>2, <2>1
    <2>4. Newer(file[i], r) => Newer(file'[i], r)
      BY <1>0, <1>2, <2>1 DEF TypeOK
    <2>5. home[g] = i /\ Newer(task[g].cred, r)
             => (~Attached(i)' /\ Newer(file'[i], r)) \/ Newer(db', r)
      BY <1>0, <2>1, <2>2 DEF Attached, TypeOK
    <2>6. \A h \in Handlers : h # g => task'[h] = task[h]
      BY <1>0, <2>1
    <2>7. Attached(i)' = Attached(i)
      BY <2>2 DEF Attached
    <2>8. QED
      BY <1>3, <2>3, <2>4, <2>5, <2>6, <2>7
  <1>11. ASSUME NEW g \in Handlers, PersistFails(g)
         PROVE  Superseded(r, i)'
    <2>1. /\ task[g].op = "login" /\ UNCHANGED <<db, file, phase>>
          /\ task' = [task EXCEPT ![g] = Idle]
      BY <1>11, PersistFailsEffect
    <2>2. \A h \in Handlers : Writing(h, "get") => task'[h] = task[h]
      BY <1>0, <2>1 DEF Writing
    <2>3. QED
      BY <1>3, <2>1, <2>2 DEF Attached
  <1>12. ASSUME NEW t \in Token, Expire(t)
         PROVE  UNCHANGED <<db, file, phase, task>>
    BY <1>12 DEF Expire
  <1>13. UNCHANGED vars => UNCHANGED <<db, file, phase, task>>
    BY DEF vars
  <1>14. UNCHANGED <<db, file, phase, task>> => Superseded(r, i)'
    BY <1>3 DEF Attached
  <1>15. QED
    BY <1>4, <1>5, <1>6, <1>7, <1>9, <1>10, <1>11, <1>12, <1>13, <1>14 DEF Next

LEMMA NextUsed ==
    ASSUME OSteady, Used, [Next]_vars
    PROVE  Used'
  <1> SUFFICES ASSUME excuses' = {}, NEW r \in Token, NEW i \in Instances, usedBy'[r] = i
               PROVE  Superseded(r, i)'
    BY DEF Used
  <1>0. /\ TypeOK /\ Ordered /\ Counted /\ task \in [Handlers -> Task] /\ issued \in Nat
        /\ usedBy[r] = i => Superseded(r, i)
    BY ExcusesStay, TaskType, Numbers DEF OSteady, OInv, Used
  <1>1. CASE usedBy'[r] = usedBy[r]
    BY <1>0, <1>1, SupersededKept
  <1>2. ASSUME NEW h \in Handlers, RefreshToken(h), usedBy'[r] # usedBy[r]
        PROVE  Superseded(r, i)'
    <2>1. PICK new \in Credential :
              /\ Refreshed(task[h].cred.refresh, new, home[h])
              /\ task'[h].pc = "persist" /\ task'[h].op = task[h].op
              /\ task'[h].cred = new
      BY <1>0, <1>2, RefreshEffect
    <2>2. task[h].pc = "refresh" /\ task[h].op = "get"
      BY <1>0, <1>2 DEF RefreshToken, Ordered, OrderedAt, Task
    <2>3. new.refresh = issued + 1 /\ r = task[h].cred.refresh /\ home[h] = i /\ r \in valid
      BY <1>0, <1>2, <2>1 DEF Refreshed, TypeOK
    <2>4. r < new.refresh
      BY <1>0, <2>3, Numbers DEF Counted
    <2>5. QED
      BY <2>1, <2>2, <2>3, <2>4 DEF Superseded, Writing, Newer
  <1>3. QED
    BY <1>1, <1>2, UsedBySteps

LEMMA NextNotReplayed ==
    ASSUME OSteady, Used, NotReplayed, [Next]_vars
    PROVE  NotReplayed'
  <1> SUFFICES ASSUME excuses' = {}, NEW h \in Handlers,
                      task'[h].pc = "refresh", Attached(home[h])'
               PROVE  usedBy'[task'[h].cred.refresh] # home[h]
    BY DEF NotReplayed
  <1>0. /\ TypeOK /\ Mutex /\ excuses = {} /\ task \in [Handlers -> Task]
        /\ home[h] \in Instances
    BY ExcusesStay, TaskType, Types DEF OSteady, OInv
  <1>1. CASE task'[h] = task[h]
    <2>1. Attached(home[h])
      BY <1>1, CallKeeps
    <2>2. usedBy[task[h].cred.refresh] # home[h]
      BY <1>0, <1>1, <2>1 DEF NotReplayed
    <2>3. ASSUME NEW g \in Handlers, RefreshToken(g)
          PROVE  usedBy'[task[h].cred.refresh] # home[h]
      <3>1. PICK new \in Credential :
              Refreshed(task[g].cred.refresh, new, home[g]) /\ task'[g].pc = "persist"
        BY <1>0, <2>3, RefreshEffect
      <3>2. home[g] # home[h]
        BY <1>0, <1>1, <2>3, <3>1 DEF Mutex, RefreshToken
      <3>3. QED
        BY <1>0, <2>2, <3>1, <3>2 DEF Refreshed, TypeOK
    <2>4. QED
      BY <1>1, <2>2, <2>3, UsedBySteps
  <1>2. CASE GetAccessToken(h) /\ task'[h] # task[h]
    <2>1. PICK c \in Credential :
              /\ c = loadStateLocked(home[h])
              /\ task' = [task EXCEPT ![h] = [pc |-> "refresh", op |-> "get",
                                              cred |-> c, read |-> db]]
      BY <1>0, <1>2, GetEffect
    <2>2. /\ UNCHANGED <<phase, usedBy>> /\ Unlocked(home[h])
      BY <1>2 DEF GetAccessToken
    <2>3. task'[h].cred = c /\ Attached(home[h])
      BY <1>0, <2>1, <2>2 DEF Attached
    <2>4. SUFFICES ASSUME usedBy[c.refresh] = home[h] PROVE FALSE
      BY <2>2, <2>3
    <2>5. Superseded(c.refresh, home[h])
      BY <1>0, <2>4, Types DEF Used
    <2>6. Newer(db, c.refresh)
      BY <2>2, <2>3, <2>5 DEF Superseded, Unlocked, Writing
    <2>7. db = c
      BY <2>1, <2>3, <2>6, Types DEF Newer, loadStateLocked, FromDB
    <2>8. QED
      BY <2>6, <2>7, Numbers DEF Newer
  <1>3. QED
    BY <1>0, <1>1, <1>2, CallSteps, LoginEffect, RefreshEffect

(* The newest token gives way to a newer one that the provider accepts,    *)
(* never to an older one.                                                  *)
LEMMA NextNewest ==
    ASSUME OSteady, Newest, Remembered, [Next]_vars
    PROVE  Newest'
  <1> SUFFICES ASSUME excuses' = {} PROVE \E u \in Token : Leads(u)'
    BY DEF Newest
  <1>0. /\ TypeOK /\ TypeOK' /\ Ordered /\ Counted /\ Quiet /\ Secret /\ issued \in Nat
        /\ task \in [Handlers -> Task] /\ excuses = {}
        /\ \A h \in Handlers : home[h] \in Instances
    BY ExcusesStay, NextTypeOK, TaskType, Types, Numbers DEF OSteady, OInv
  <1>1. PICK t \in Token : Leads(t)
    BY <1>0 DEF Newest
  <1>2. /\ t \in valid \cup {0} /\ Stays(t) /\ (session => t # 0)
        /\ \A s \in Token : Stays(s) => s <= t
        /\ t \in Nat /\ t <= issued
    BY <1>0, <1>1, Numbers DEF Leads, Counted
  (* Nothing new is stored, and what held t still does. *)
  <1>3. ASSUME valid \subseteq valid', session' = session, Stays(t)',
               \A s \in Token : Stays(s)' => Stays(s)
        PROVE  \E u \in Token : Leads(u)'
    BY <1>2, <1>3 DEF Leads
  <1>4. ASSUME valid \subseteq valid', session' = session, env' = env, db' = db, file' = file,
               \A h \in Handlers :
                  \/ task'[h] = task[h]
                  \/ ~Writing(h, "get") /\ ~Writing(h, "get")'
        PROVE  \E u \in Token : Leads(u)'
    <2>1. \A s \in Token : Stays(s)' <=> Stays(s)
      BY <1>4 DEF Stays, Writing
    <2>2. QED
      BY <1>2, <1>3, <1>4, <2>1
  (* A token that takes the place of x and is not older than it. *)
  <1>5. ASSUME NEW x, NEW c \in Credential, AtMost(x, c.refresh), Has(x, t), c.refresh <= t
        PROVE  Has(c, t)
    BY <1>2, <1>5, Numbers DEF AtMost, Has
  <1>6. ASSUME NEW i \in Instances, Construct(i)
        PROVE  \E u \in Token : Leads(u)'
    <2>1. PICK c \in Credential :
              /\ c.refresh = env.refresh \/ Has(file[i], c.refresh)
              /\ \/ file' = file
                 \/ file' = [file EXCEPT ![i] = c] /\ AtMost(file[i], c.refresh)
      BY <1>0, <1>6, ConstructEffect
    <2>2. UNCHANGED <<valid, env, db, task, session>>
      BY <1>6 DEF Construct, providerVars
    <2>3. Stays(c.refresh) /\ c.refresh \in Token
      BY <1>0, <2>1, Types DEF Stays, Has, TypeOK
    <2>4. c.refresh <= t
      BY <1>2, <2>3
    <2>5. \A j \in Instances : Has(file[j], t) => Has(file'[j], t)
      BY <1>0, <1>5, <2>1, <2>4 DEF TypeOK
    <2>6. \A s \in Token, j \in Instances :
             Has(file'[j], s) => Has(file[j], s) \/ s = c.refresh
      BY <1>0, <2>1 DEF TypeOK, Has
    <2>7. Stays(t)'
      BY <1>2, <2>2, <2>5 DEF Stays, Writing
    <2>8. \A s \in Token : Stays(s)' => Stays(s)
      BY <2>2, <2>3, <2>6 DEF Stays, Writing
    <2>9. QED
      BY <1>3, <2>2, <2>7, <2>8
  <1>7. ASSUME NEW i \in Instances, ConstructCrashes(i)
        PROVE  FALSE
    BY <1>7 DEF ConstructCrashes
  <1>8. ASSUME NEW i \in Instances, UseStore(i)
        PROVE  \E u \in Token : Leads(u)'
    <2>1. PICK c \in Credential \cup {None} :
              /\ c = IF file[i] # None THEN file[i] ELSE memory[i]
              /\ c = None => db' = db
              /\ c # None => db' = c
              /\ c # None => AtMost(db, c.refresh)
      BY <1>0, <1>8, UseStoreEffect
    <2>2. UNCHANGED <<valid, env, file, task, session>> /\ phase[i] = "constructed" /\ Unlocked(i)
      BY <1>8 DEF UseStore, providerVars
    <2>3. CASE c = None
      BY <1>4, <2>1, <2>2, <2>3
    <2>4. CASE c # None
      <3>1. c \in Credential /\ c.refresh \in Token
        BY <2>4, Types
      <3>2. Remembers(i)
        BY <1>0 DEF Remembered
      <3>3. Has(file[i], c.refresh) \/ Has(env, c.refresh)
        BY <1>0, <2>1, <2>2, <3>1, <3>2 DEF Remembers, Unlocked, Has, TypeOK
      <3>4. Stays(c.refresh)
        BY <3>3 DEF Stays
      <3>5. c.refresh <= t
        BY <1>2, <3>1, <3>4
      <3>6. Has(db, t) => Has(db', t)
        BY <1>5, <2>1, <2>4, <3>1, <3>5
      <3>7. Stays(t)'
        BY <1>2, <2>2, <3>6 DEF Stays, Writing
      <3>8. \A s \in Token : Has(db', s) => s = c.refresh
        BY <2>1, <2>4 DEF Has
      <3>9. \A s \in Token : Stays(s)' => Stays(s)
        BY <2>2, <3>4, <3>8 DEF Stays, Writing
      <3>10. QED
        BY <1>3, <2>2, <3>7, <3>9
    <2>5. QED
      BY <2>3, <2>4
  <1>9. ASSUME NEW i \in Instances, UseStoreFails(i) \/ Crash(i)
        PROVE  \E u \in Token : Leads(u)'
    <2>1. /\ UNCHANGED <<valid, env, db, file, session>> /\ Down(i)
          /\ \A h \in Handlers : home[h] = i => ~Writing(h, "get")
      BY <1>0, <1>9, StopEffect DEF providerVars
    <2>2. \A h \in Handlers : \/ task'[h] = task[h]
                              \/ ~Writing(h, "get") /\ ~Writing(h, "get")'
      BY <2>1 DEF Down, Idle, Writing
    <2>3. QED
      BY <1>4, <2>1, <2>2
  <1>10. ASSUME NEW h \in Handlers, GetAccessToken(h)
         PROVE  \E u \in Token : Leads(u)'
    <2>1. PICK c \in Credential \cup {None} :
              \/ UNCHANGED task
              \/ task' = [task EXCEPT ![h] = [pc |-> "refresh", op |-> "get",
                                              cred |-> c, read |-> db]]
      BY <1>0, <1>10, GetEffect
    <2>2. UNCHANGED <<valid, env, db, file, session>> /\ task[h].pc = "idle"
      BY <1>10 DEF GetAccessToken, providerVars
    <2>3. \A g \in Handlers : \/ task'[g] = task[g]
                              \/ ~Writing(g, "get") /\ ~Writing(g, "get")'
      BY <1>0, <2>1, <2>2 DEF Writing
    <2>4. QED
      BY <1>4, <2>2, <2>3
  <1>11. ASSUME NEW h \in Handlers, RefreshToken(h)
         PROVE  \E u \in Token : Leads(u)'
    <2>1. PICK new \in Credential :
              /\ Refreshed(task[h].cred.refresh, new, home[h])
              /\ task'[h].pc = "persist" /\ task'[h].op = task[h].op
              /\ task'[h].cred = new
              /\ \A g \in Handlers : g # h => task'[g] = task[g]
      BY <1>0, <1>11, RefreshEffect
    <2>2. UNCHANGED <<env, db, file, session>> /\ task[h].pc = "refresh"
      BY <1>11 DEF RefreshToken
    <2>3. task[h].op = "get"
      BY <1>0, <2>2 DEF Ordered, OrderedAt, Task
    <2> DEFINE n == new.refresh
               r == task[h].cred.refresh
    <2>4. n \in valid' /\ n \in Token /\ n # 0 /\ n \in Nat
      BY <1>0, <2>1, Types, Numbers DEF Refreshed, Counted
    <2>5. Stays(n)'
      BY <2>1, <2>3 DEF Stays, Writing, Has
    <2>6. \A s \in Token : Stays(s)' => Stays(s) \/ s = n
      BY <2>1, <2>2 DEF Stays, Writing, Has
    <2>7. CASE t <= n
      <3>1. \A s \in Token : Stays(s)' => s <= n
        BY <1>2, <2>4, <2>6, <2>7, Numbers
      <3>2. QED
        BY <2>4, <2>5, <3>1 DEF Leads
    <2>8. CASE ~(t <= n)
      <3>1. n = r /\ valid' = valid
        BY <1>0, <1>2, <2>1, <2>8 DEF Refreshed
      <3>2. Stays(t)'
        BY <1>2, <2>1, <2>2 DEF Stays, Writing
      <3>3. \A s \in Token : Stays(s)' => s <= t
        BY <1>2, <2>4, <2>6, <2>8, Numbers
      <3>4. QED
        BY <1>2, <2>2, <3>1, <3>2, <3>3 DEF Leads
    <2>9. QED
      BY <2>7, <2>8
  <1>12. ASSUME NEW h \in Handlers, RefreshFails(h)
         PROVE  \E u \in Token : Leads(u)'
    <2>1. /\ UNCHANGED <<valid, env, db, file, session>> /\ task[h].pc = "refresh"
          /\ task' = [task EXCEPT ![h] = Idle]
      BY <1>12 DEF RefreshFails, providerVars
    <2>2. \A g \in Handlers : \/ task'[g] = task[g]
                              \/ ~Writing(g, "get") /\ ~Writing(g, "get")'
      BY <1>0, <2>1 DEF Writing, Idle
    <2>3. QED
      BY <1>4, <2>1, <2>2
  <1>13. ASSUME NEW h \in Handlers, RefreshLost(h)
         PROVE  FALSE
    BY <1>13 DEF RefreshLost
  <1>14. ASSUME NEW h \in Handlers, UpsertCredentials(h)
         PROVE  \E u \in Token : Leads(u)'
    <2>1. PICK c \in Credential :
              /\ valid' = valid \cup {issued'}
              /\ task' = [task EXCEPT ![h] = [pc |-> "persist", op |-> "login",
                                              cred |-> c, read |-> db]]
      BY <1>0, <1>14, LoginEffect
    <2>2. UNCHANGED <<env, db, file, session>> /\ task[h].pc = "idle"
      BY <1>14 DEF UpsertCredentials
    <2>3. \A g \in Handlers : \/ task'[g] = task[g]
                              \/ ~Writing(g, "get") /\ ~Writing(g, "get")'
      BY <1>0, <2>1, <2>2 DEF Writing
    <2>4. QED
      BY <1>4, <2>1, <2>2, <2>3
  <1>15. ASSUME NEW h \in Handlers, Persist(h)
         PROVE  \E u \in Token : Leads(u)'
    <2> DEFINE i == home[h]
    <2>1. PICK c \in Credential :
          /\ task[h].pc = "persist" /\ c = task[h].cred
          /\ c.refresh # 0
          /\ task' = [task EXCEPT ![h] = Idle]
          /\ \/ /\ Attached(i) /\ db' = c /\ UNCHANGED file
                /\ AtMost(db, c.refresh)
             \/ /\ ~Attached(i) /\ file' = [file EXCEPT ![i] = c]
                /\ db' = db /\ task[h].op = "get"
                /\ AtMost(file[i], c.refresh)
      BY <1>15, PersistEffect
    <2>2. UNCHANGED <<valid, env>> /\ session' = TRUE
      BY <1>15 DEF Persist, providerVars
    <2>3. c.refresh \in Token /\ c.refresh \in Nat /\ i \in Instances
      BY <1>0, <2>1, Types, Numbers
    (* A rotated token is among those that stay; a login is accepted. *)
    <2>4. task[h].op = "get" => Stays(c.refresh)
      BY <2>1 DEF Stays, Writing, Has
    <2>5. task[h].op = "login" => c.refresh \in valid
      BY <1>0, <2>1 DEF Secret, SecretAt, Writing
    <2>6. task[h].op \in {"get", "login"}
      BY <1>0 DEF Task
    <2> HIDE DEF i
    <2>7. Has(db', c.refresh) \/ Has(file'[i], c.refresh)
      BY <1>0, <2>1, <2>3 DEF Has, TypeOK
    <2>8. Stays(c.refresh)'
      BY <2>3, <2>7 DEF Stays
    <2>9. \A s \in Token : Stays(s)' => Stays(s) \/ s = c.refresh
      <3>1. \A s \in Token : Has(db', s) => Has(db, s) \/ s = c.refresh
        BY <2>1 DEF Has
      <3>2. \A s \in Token, j \in Instances :
               Has(file'[j], s) => Has(file[j], s) \/ s = c.refresh
        BY <1>0, <2>1 DEF Has, TypeOK
      <3>3. \A g \in Handlers : Writing(g, "get")' => Writing(g, "get") /\ task'[g] = task[g]
        BY <1>0, <2>1 DEF Writing, Idle
      <3>4. QED
        BY <2>2, <3>1, <3>2, <3>3 DEF Stays
    <2>10. CASE c.refresh <= t
      <3>1. Has(db, t) => Has(db', t)
        BY <1>5, <2>1, <2>10
      <3>2. \A j \in Instances : Has(file[j], t) => Has(file'[j], t)
        BY <1>0, <1>5, <2>1, <2>10 DEF TypeOK
      <3>3. Has(task[h].cred, t) => c.refresh = t
        BY <2>1 DEF Has
      <3>4. \A g \in Handlers : Writing(g, "get") =>
              g = h \/ (Writing(g, "get")' /\ task'[g] = task[g])
        BY <1>0, <2>1 DEF Writing
      <3>5. Stays(t)'
        BY <1>2, <2>2, <2>8, <3>1, <3>2, <3>3, <3>4 DEF Stays
      <3>6. t # 0
        BY <1>2, <2>1, <2>3, <2>10
      <3>7. \A s \in Token : Stays(s)' => s <= t
        BY <1>2, <2>9, <2>10
      <3>8. QED
        BY <1>2, <2>2, <3>5, <3>6, <3>7 DEF Leads
    <2>11. CASE ~(c.refresh <= t)
      <3>1. c.refresh \in valid
        BY <1>2, <2>3, <2>4, <2>5, <2>6, <2>11
      <3>2. \A s \in Token : Stays(s)' => s <= c.refresh
        BY <1>2, <2>3, <2>9, <2>11, Numbers
      <3>3. QED
        BY <2>1, <2>2, <2>3, <2>8, <3>1, <3>2 DEF Leads
    <2>12. QED
      BY <2>10, <2>11
  <1>16. ASSUME NEW h \in Handlers, PersistFails(h)
         PROVE  \E u \in Token : Leads(u)'
    <2>1. /\ task[h].op = "login" /\ UNCHANGED <<valid, env, db, file, session>>
          /\ task' = [task EXCEPT ![h] = Idle]
      BY <1>16, PersistFailsEffect
    <2>2. \A g \in Handlers : \/ task'[g] = task[g]
                              \/ ~Writing(g, "get") /\ ~Writing(g, "get")'
      BY <1>0, <2>1 DEF Writing, Idle
    <2>3. QED
      BY <1>4, <2>1, <2>2
  <1>17. ASSUME UNCHANGED <<valid, env, db, file, task, session>>
         PROVE  \E u \in Token : Leads(u)'
    BY <1>4, <1>17
  <1>18. ASSUME NEW e \in Token, Expire(e)
         PROVE  UNCHANGED <<valid, env, db, file, task, session>>
    BY <1>18 DEF Expire
  <1>19. UNCHANGED vars => UNCHANGED <<valid, env, db, file, task, session>>
    BY DEF vars, providerVars
  <1>20. QED
    BY <1>6, <1>7, <1>8, <1>9, <1>10, <1>11, <1>12, <1>13, <1>14, <1>15, <1>16, <1>17,
       <1>18, <1>19 DEF Next

LEMMA InitFull == Init => OFull
  <1> SUFFICES ASSUME Init PROVE OFull
    OBVIOUS
  <1>1. OSteady
    BY InitSteady
  <1>2. env \in Credential /\ env.refresh \in Token
    BY <1>1, Types DEF OSteady, OInv, TypeOK
  <1>3. \A h \in Handlers : task[h].pc = "idle"
    BY DEF Init, Idle
  <1>4. \A s \in Token : Stays(s) => s = env.refresh
    BY <1>3, Types DEF Init, Stays, Has, Writing
  <1>5. Stays(env.refresh)
    BY <1>2 DEF Stays, Has
  <1>6. Leads(env.refresh)
    <2>1. env.refresh \in valid \cup {0} /\ (session => env.refresh # 0)
      BY DEF Init
    <2>2. \A s \in Token : Stays(s) => s <= env.refresh
      BY <1>2, <1>4, Numbers
    <2>3. QED
      BY <1>5, <2>1, <2>2 DEF Leads
  <1>7. Newest
    BY <1>2, <1>6 DEF Newest
  <1>8. Remembered /\ NotReplayed
    BY <1>3 DEF Remembered, Remembers, NotReplayed, Init
  <1>9. Used
    <2>1. \A r \in Token : usedBy[r] \notin Instances
      BY ValueAssumption DEF Init
    <2>2. QED
      BY <2>1 DEF Used
  <1>10. QED
    BY <1>1, <1>7, <1>8, <1>9 DEF OFull

LEMMA NextFull ==
    ASSUME OFull, [Next]_vars
    PROVE  OFull'
  BY NextSteady, NextNewest, NextRemembered, NextUsed, NextNotReplayed DEF OFull

LEMMA FullInvariance == Spec => []OFull
  BY InitFull, NextFull, PTL DEF Spec

(* Without a fault, a race of two instances or an older file, the newest   *)
(* refresh token is stored and the provider accepts it: a session is held. *)
THEOREM SessionKept == Spec => []SessionHeld
  <1>1. OFull => SessionHeld
    <2> SUFFICES ASSUME OFull, session, excuses = {}
                 PROVE  Held
      BY DEF SessionHeld
    <2>1. PICK t \in Token : Leads(t)
      BY DEF OFull, Newest
    <2>2. t \in valid /\ Stays(t)
      BY <2>1 DEF Leads
    <2>3. QED
      BY <2>2 DEF Held, Kept, Stays, Has, Writing
  <1>2. QED
    BY FullInvariance, <1>1, PTL

(* An instance that has rotated a refresh token reads a newer one before   *)
(* it refreshes again: it does not replay the one it consumed.             *)
THEOREM NoReplay == Spec => []NotReplayed
  <1>1. OFull => NotReplayed
    BY DEF OFull
  <1>2. QED
    BY FullInvariance, <1>1, PTL
=============================================================================
