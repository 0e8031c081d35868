------------------------ MODULE MySqlSessionProofs ------------------------
(***************************************************************************)
(* What MySqlSession promises for any number of statements, connections    *)
(* and transactions.  SessionIInv is inductive: one lemma for each thing   *)
(* that may happen, one step in it for each part of the invariant.         *)
(***************************************************************************)
EXTENDS MySqlSession, TLAPS

-----------------------------------------------------------------------------
(* The connection. *)

(* A new connection is none that a statement or the transaction remembers; a
   failed attempt leaves none at all. *)
LEMMA OpenKeeps ==
    ASSUME SessionIInv, Failed = {}, Open, Initialised' \in BOOLEAN,
           UNCHANGED <<Durable, stmtVars, txVars, Failed>>
    PROVE  SessionIInv'
  <1>1. TypeOK'
    <2>1. {Initialised, Disconnected, Alive, AutoCommit, InTransaction, Commited}' \subseteq BOOLEAN
      BY DEF SessionIInv, TypeOK, Open, txVars
    <2>2. /\ {NativeHandle, LastVersion, TxVersion}' \subseteq Version
          /\ NativeHandle' = 0 => Disconnected'
      BY SessionAssumption DEF SessionIInv, TypeOK, Open, txVars, Version
    <2> QED  BY <2>1, <2>2 DEF SessionIInv, TypeOK, Open, txVars, stmtVars
  <1>2. SessionOfTheHandle'
    BY DEF SessionIInv, TypeOK, SessionOfTheHandle, Version, Open
  <1>3. VersionsWereGiven'
    BY DEF SessionIInv, TypeOK, VersionsWereGiven, stmtVars, txVars, Version, Open
  <1>4. HandleAsRemembered'
    BY DEF SessionIInv, HandleAsRemembered, stmtVars
  <1>5. BareWasReused'
    BY SessionAssumption DEF SessionIInv, TypeOK, BareWasReused, GetVersion, VersionsWereGiven,
       stmtVars, Version, Open
  <1>6. PendingIsTheWork'
    <2>1. Alive' => AutoCommit' = TRUE
      BY DEF Open
    <2>2. CurrentTx' = 0
      BY DEF SessionIInv, TypeOK, Open, txVars, CurrentTx, GetVersion, VersionsWereGiven, Version
    <2> QED  BY <2>1, <2>2 DEF PendingIsTheWork, Open
  <1>7. OneAtATime'
    BY DEF SessionIInv, OneAtATime, txVars
  <1>8. AllOrNothing'
    BY SessionAssumption DEF SessionIInv, TypeOK, AllOrNothing, txVars
  <1>9. AssertionNeedsReuse'
    BY SessionAssumption DEF SessionIInv, TypeOK, AssertionNeedsReuse
  <1> QED
    BY <1>1, <1>2, <1>3, <1>4, <1>5, <1>6, <1>7, <1>8, <1>9 DEF SessionIInv

(* Close takes the session and what was pending with it. *)
LEMMA CloseKeeps ==
    ASSUME SessionIInv, Failed = {}, Close, Initialised' \in BOOLEAN,
           UNCHANGED <<Durable, stmtVars, txVars, Failed>>
    PROVE  SessionIInv'
  <1>1. TypeOK'
    <2>1. {Initialised, Disconnected, Alive, AutoCommit, InTransaction, Commited}' \subseteq BOOLEAN
      BY DEF SessionIInv, TypeOK, Close, txVars
    <2> QED  BY <2>1, SessionAssumption DEF SessionIInv, TypeOK, Close, txVars, stmtVars, Version
  <1>2. SessionOfTheHandle'
    BY DEF SessionIInv, SessionOfTheHandle, Close
  <1>3. VersionsWereGiven'
    BY DEF SessionIInv, VersionsWereGiven, stmtVars, txVars, Close
  <1>4. HandleAsRemembered'
    BY DEF SessionIInv, HandleAsRemembered, stmtVars
  <1>5. BareWasReused'
    BY SessionAssumption DEF SessionIInv, TypeOK, BareWasReused, GetVersion, Close
  <1>6. PendingIsTheWork'
    BY SessionAssumption DEF SessionIInv, TypeOK, PendingIsTheWork, CurrentTx, GetVersion, Close
  <1>7. OneAtATime'
    BY DEF SessionIInv, OneAtATime, txVars
  <1>8. AllOrNothing'
    BY SessionAssumption DEF SessionIInv, TypeOK, AllOrNothing, txVars
  <1>9. AssertionNeedsReuse'
    BY SessionAssumption DEF SessionIInv, TypeOK, AssertionNeedsReuse
  <1> QED
    BY <1>1, <1>2, <1>3, <1>4, <1>5, <1>6, <1>7, <1>8, <1>9 DEF SessionIInv

(* So does the loss of the link, of which nothing is noticed. *)
LEMMA LoseLinkKeeps ==
    ASSUME SessionIInv, LoseLink
    PROVE  SessionIInv'
  <1>1. TypeOK'
    BY SessionAssumption DEF SessionIInv, TypeOK, Version, connVars, stmtVars, txVars, LoseLink
  <1>2. SessionOfTheHandle'
    BY DEF SessionIInv, SessionOfTheHandle, connVars, LoseLink
  <1>3. VersionsWereGiven'
    BY DEF SessionIInv, VersionsWereGiven, connVars, stmtVars, txVars, LoseLink
  <1>4. HandleAsRemembered'
    BY DEF SessionIInv, HandleAsRemembered, stmtVars, LoseLink
  <1>5. BareWasReused'
    BY SessionAssumption DEF SessionIInv, TypeOK, BareWasReused, GetVersion, connVars, stmtVars,
       LoseLink
  <1>6. PendingIsTheWork'
    BY SessionAssumption DEF SessionIInv, TypeOK, PendingIsTheWork, CurrentTx, GetVersion,
       LoseLink
  <1>7. OneAtATime'
    BY DEF SessionIInv, OneAtATime, txVars, LoseLink
  <1>8. AllOrNothing'
    BY SessionAssumption DEF SessionIInv, TypeOK, AllOrNothing, txVars, LoseLink
  <1>9. AssertionNeedsReuse'
    BY SessionAssumption DEF SessionIInv, TypeOK, AssertionNeedsReuse, LoseLink
  <1> QED
    BY <1>1, <1>2, <1>3, <1>4, <1>5, <1>6, <1>7, <1>8, <1>9 DEF SessionIInv

-----------------------------------------------------------------------------
(* Statements. *)

(* Init drops the handle: the statement is reused if it remembers a connection. *)
LEMMA StmtInitKeeps ==
    ASSUME SessionIInv, NEW s \in Stmt, StmtInit(s)
    PROVE  SessionIInv'
  <1>1. TypeOK'
    BY SessionAssumption DEF SessionIInv, TypeOK, Version, connVars, sessionVars, txVars, StmtInit
  <1>2. SessionOfTheHandle'
    BY DEF SessionIInv, SessionOfTheHandle, connVars, sessionVars, StmtInit
  <1>3. VersionsWereGiven'
    BY DEF SessionIInv, VersionsWereGiven, connVars, txVars, StmtInit
  <1>4. HandleAsRemembered'
    BY DEF SessionIInv, HandleAsRemembered, StmtInit
  <1>5. BareWasReused'
    BY SessionAssumption DEF SessionIInv, TypeOK, BareWasReused, GetVersion, connVars, StmtInit
  <1>6. PendingIsTheWork'
    BY SessionAssumption DEF SessionIInv, TypeOK, PendingIsTheWork, CurrentTx, GetVersion,
       connVars, sessionVars, txVars, StmtInit
  <1>7. OneAtATime'
    BY DEF SessionIInv, OneAtATime, txVars, StmtInit
  <1>8. AllOrNothing'
    BY SessionAssumption DEF SessionIInv, TypeOK, AllOrNothing, txVars, StmtInit
  <1>9. AssertionNeedsReuse'
    BY SessionAssumption DEF SessionIInv, TypeOK, AssertionNeedsReuse, StmtInit
  <1> QED
    BY <1>1, <1>2, <1>3, <1>4, <1>5, <1>6, <1>7, <1>8, <1>9 DEF SessionIInv

(* Clean may notice that the link is lost. *)
LEMMA StmtCleanKeeps ==
    ASSUME SessionIInv, NEW s \in Stmt, StmtClean(s)
    PROVE  SessionIInv'
  <1>1. TypeOK'
    <2>1. {Initialised, Disconnected, Alive, AutoCommit, InTransaction, Commited}' \subseteq BOOLEAN
      BY DEF SessionIInv, TypeOK, StmtClean, sessionVars, txVars
    <2>2. (NativeHandle = 0 => Disconnected)'
      <3>1. Disconnected' \in {TRUE, Disconnected} /\ UNCHANGED NativeHandle
        BY DEF StmtClean
      <3> QED  BY <3>1 DEF SessionIInv, TypeOK
    <2>3. (Native \in [Stmt -> Version] /\ StmtInitialised \subseteq Stmt)'
      BY SessionAssumption DEF SessionIInv, TypeOK, StmtClean, Version
    <2> QED  BY <2>1, <2>2, <2>3 DEF SessionIInv, TypeOK, StmtClean, sessionVars, txVars
  <1>2. SessionOfTheHandle'
    BY DEF SessionIInv, SessionOfTheHandle, sessionVars, StmtClean
  <1>3. VersionsWereGiven'
    BY DEF SessionIInv, VersionsWereGiven, txVars, StmtClean
  <1>4. HandleAsRemembered'
    BY DEF SessionIInv, HandleAsRemembered, StmtClean
  <1>5. BareWasReused'
    BY SessionAssumption DEF SessionIInv, TypeOK, BareWasReused, GetVersion, StmtClean
  <1>6. PendingIsTheWork'
    BY SessionAssumption DEF SessionIInv, TypeOK, PendingIsTheWork, CurrentTx, GetVersion,
       sessionVars, txVars, StmtClean
  <1>7. OneAtATime'
    BY DEF SessionIInv, OneAtATime, txVars, StmtClean
  <1>8. AllOrNothing'
    BY SessionAssumption DEF SessionIInv, TypeOK, AllOrNothing, txVars, StmtClean
  <1>9. AssertionNeedsReuse'
    BY SessionAssumption DEF SessionIInv, TypeOK, AssertionNeedsReuse, StmtClean
  <1> QED
    BY <1>1, <1>2, <1>3, <1>4, <1>5, <1>6, <1>7, <1>8, <1>9 DEF SessionIInv

(* A statement that could not be prepared keeps the version it had, which is not
   that of the connection. *)
LEMMA CheckFailsKeeps ==
    ASSUME SessionIInv, NEW s \in Stmt, Execute(s), CheckReonnectionFails(s)
    PROVE  SessionIInv'
  <1>1. TypeOK'
    <2>1. /\ Disconnected' \in {TRUE, Disconnected}
          /\ UNCHANGED <<Initialised, NativeHandle, LastVersion, sessionVars, Durable, StmtVersion,
                         StmtInitialised, Reused, txVars, Failed>>
          /\ Native' = [Native EXCEPT ![s] = 0]
      BY DEF Execute, CheckReonnectionFails, StaysUnprepared, NoticedByOpen, txVars
    <2>2. {Initialised, Disconnected, Alive, AutoCommit, InTransaction, Commited}' \subseteq BOOLEAN
      BY <2>1 DEF SessionIInv, TypeOK, sessionVars, txVars
    <2>3. (NativeHandle = 0 => Disconnected)'
      BY <2>1 DEF SessionIInv, TypeOK
    <2> QED  BY <2>1, <2>2, <2>3, SessionAssumption DEF SessionIInv, TypeOK, sessionVars, txVars,
                Version
  <1>2. SessionOfTheHandle'
    BY SessionAssumption DEF SessionIInv, TypeOK, SessionOfTheHandle, GetVersion, sessionVars,
       CheckReonnectionFails, StaysUnprepared, NoticedByOpen
  <1>3. VersionsWereGiven'
    BY SessionAssumption DEF SessionIInv, TypeOK, VersionsWereGiven, Execute,
       CheckReonnectionFails, StaysUnprepared, NoticedByOpen
  <1>4. HandleAsRemembered'
    BY SessionAssumption DEF SessionIInv, TypeOK, HandleAsRemembered, CheckReonnectionFails,
       StaysUnprepared
  <1>5. BareWasReused'
    BY SessionAssumption DEF SessionIInv, TypeOK, BareWasReused, GetVersion, SessionOfTheHandle,
       VersionsWereGiven, Execute, CheckReonnectionFails, IsEqualTo, StaysUnprepared, NoticedByOpen
  <1>6. PendingIsTheWork'
    BY SessionAssumption DEF SessionIInv, TypeOK, PendingIsTheWork, CurrentTx, GetVersion,
       SessionOfTheHandle, VersionsWereGiven, OneAtATime, Write, sessionVars, Execute,
       CheckReonnectionFails, StaysUnprepared, NoticedByOpen
  <1>7. OneAtATime'
    BY SessionAssumption DEF SessionIInv, TypeOK, OneAtATime, Transaction, Execute,
       CheckReonnectionFails
  <1>8. AllOrNothing'
    BY SessionAssumption DEF SessionIInv, TypeOK, AllOrNothing, Write, OneAtATime,
       PendingIsTheWork, CurrentTx, Execute, CheckReonnectionFails
  <1>9. AssertionNeedsReuse'
    BY SessionAssumption DEF SessionIInv, TypeOK, AssertionNeedsReuse, GetVersion, BareWasReused,
       SessionOfTheHandle, Execute, CheckReonnectionFails
  <1> QED
    BY <1>1, <1>2, <1>3, <1>4, <1>5, <1>6, <1>7, <1>8, <1>9 DEF SessionIInv

(* The assertion fails only for a statement BareWasReused excuses, or without a
   connection. *)
LEMMA AssertionKeeps ==
    ASSUME SessionIInv, NEW s \in Stmt, Execute(s), AssertionFails(s)
    PROVE  SessionIInv'
  <1>1. TypeOK'
    BY SessionAssumption DEF SessionIInv, TypeOK, Version, Transaction, Write, connVars,
       sessionVars, Execute, AssertionFails
  <1>2. SessionOfTheHandle'
    BY SessionAssumption DEF SessionIInv, TypeOK, SessionOfTheHandle, connVars, sessionVars,
       AssertionFails
  <1>3. VersionsWereGiven'
    BY SessionAssumption DEF SessionIInv, VersionsWereGiven, connVars, Execute, AssertionFails
  <1>4. HandleAsRemembered'
    BY SessionAssumption DEF SessionIInv, HandleAsRemembered, AssertionFails
  <1>5. BareWasReused'
    BY SessionAssumption DEF SessionIInv, TypeOK, BareWasReused, GetVersion, connVars, Execute,
       AssertionFails
  <1>6. PendingIsTheWork'
    BY SessionAssumption DEF SessionIInv, TypeOK, PendingIsTheWork, CurrentTx, GetVersion,
       SessionOfTheHandle, VersionsWereGiven, connVars, sessionVars, Execute, AssertionFails
  <1>7. OneAtATime'
    BY SessionAssumption DEF SessionIInv, TypeOK, OneAtATime, Execute, AssertionFails
  <1>8. AllOrNothing'
    BY SessionAssumption DEF SessionIInv, TypeOK, AllOrNothing, Write, OneAtATime, Execute,
       AssertionFails
  <1>9. AssertionNeedsReuse'
    BY SessionAssumption DEF SessionIInv, TypeOK, AssertionNeedsReuse, GetVersion, BareWasReused,
       connVars, Execute, AssertionFails, IsEqualTo
  <1> QED
    BY <1>1, <1>2, <1>3, <1>4, <1>5, <1>6, <1>7, <1>8, <1>9 DEF SessionIInv

(* An execution: the handle is one of this connection; what the server executes
   is pending in the open transaction, or durable without one. *)
LEMMA BindAndExecuteKeeps ==
    ASSUME SessionIInv, NEW s \in Stmt, Execute(s), InternalBindAndExecute(s)
    PROVE  SessionIInv'
  <1> DEFINE write == [tx |-> CurrentTx, stmt |-> s]
             rest == <<connVars, Alive, AutoCommit, Pending>>
  <1>1. GetVersion # 0 /\ GetVersion \in Version /\ GetVersion = NativeHandle /\ ~ Disconnected
    BY DEF SessionIInv, TypeOK, HandleAsRemembered, InternalBindAndExecute, IsEqualTo, GetVersion
  <1>2. StmtVersion' = [StmtVersion EXCEPT ![s] = GetVersion]
    BY <1>1 DEF SessionIInv, TypeOK, InternalBindAndExecute, IsEqualTo, Checked
  <1>3. UNCHANGED <<Initialised, NativeHandle, LastVersion, AutoCommit, Failed, StmtInitialised,
                    Reused, InTransaction, TxVersion, Commited, Begun, Said>>
    BY DEF InternalBindAndExecute, Execute
  <1>4. \/ UNCHANGED <<Durable, Work>>
        \/ Alive /\ Executed(s)
    BY DEF InternalBindAndExecute
  <1>5. \/ /\ Native' = [Native EXCEPT ![s] = GetVersion]
           /\ UNCHANGED <<Alive, Disconnected>>
           /\ \/ UNCHANGED <<Durable, Work, Pending>>
              \/ /\ Alive /\ Executed(s)
                 /\ Pending' = IF AutoCommit THEN Pending ELSE Pending \union {write}
        \/ /\ Native' = [Native EXCEPT ![s] = 0]
           /\ Alive' = FALSE /\ Disconnected' = TRUE
           /\ Pending' = {}
    BY <1>1 DEF SessionIInv, HandleAsRemembered, InternalBindAndExecute, IsEqualTo, Checked
  <1>6. CurrentTx \in 0..MaxTx /\ (CurrentTx # 0 => CurrentTx = Begun /\ Begun \in Transaction)
    BY SessionAssumption DEF SessionIInv, TypeOK, CurrentTx, Transaction
  <1>7. Alive => AutoCommit = (CurrentTx = 0)
    BY DEF SessionIInv, PendingIsTheWork
  <1>8. TypeOK'
    <2>1. {Initialised, Disconnected, Alive, AutoCommit, InTransaction, Commited}' \subseteq BOOLEAN
      <3>1. Disconnected' \in {TRUE, Disconnected} /\ Alive' \in {FALSE, Alive}
        BY <1>5
      <3> QED  BY <3>1, <1>3 DEF SessionIInv, TypeOK
    <2>2. (Pending \subseteq Write /\ Durable \subseteq Write /\ Work \in [Transaction -> SUBSET Stmt])'
      BY <1>4, <1>5, <1>6 DEF SessionIInv, TypeOK, Executed, Write
    <2>3. (Native \in [Stmt -> Version] /\ StmtVersion \in [Stmt -> Version])'
      BY <1>1, <1>2, <1>5, SessionAssumption DEF SessionIInv, TypeOK, Version
    <2> QED  BY <1>1, <1>3, <2>1, <2>2, <2>3 DEF SessionIInv, TypeOK
  <1>9. SessionOfTheHandle'
    BY SessionAssumption DEF SessionIInv, TypeOK, SessionOfTheHandle, GetVersion,
       InternalBindAndExecute
  <1>10. VersionsWereGiven'
    BY <1>1, <1>2, <1>3 DEF SessionIInv, VersionsWereGiven, SessionOfTheHandle, Version
  <1>11. HandleAsRemembered'
    BY SessionAssumption DEF SessionIInv, TypeOK, HandleAsRemembered, InternalBindAndExecute,
       IsEqualTo, Checked
  <1>12. BareWasReused'
    BY SessionAssumption DEF SessionIInv, TypeOK, BareWasReused, GetVersion, SessionOfTheHandle,
       VersionsWereGiven, Execute, InternalBindAndExecute, Checked
  <1>13. PendingIsTheWork'
    <2>1. CASE ~ Alive'
      BY <1>5, <2>1 DEF PendingIsTheWork, SessionIInv
    <2>2. CASE Alive' /\ CurrentTx' = CurrentTx /\ Alive /\ UNCHANGED <<AutoCommit, Begun>>
      <3>1. CASE UNCHANGED <<Work, Pending>>
        BY <2>2, <3>1 DEF PendingIsTheWork, SessionIInv
      <3>2. CASE CurrentTx = 0 /\ AutoCommit /\ UNCHANGED Pending
        BY <2>2, <3>2 DEF PendingIsTheWork, SessionIInv
      <3>3. CASE /\ CurrentTx # 0 /\ Pending' = Pending \union {write}
                 /\ Work' = [Work EXCEPT ![CurrentTx] = @ \union {s}]
        <4>1. Pending = {[tx |-> Begun, stmt |-> x] : x \in Work[Begun]}
          BY <2>2, <3>3 DEF PendingIsTheWork, SessionIInv
        <4>2. Work'[Begun] = Work[Begun] \union {s}
          BY <1>6, <3>3 DEF SessionIInv, TypeOK
        <4>3. Pending' = {[tx |-> Begun, stmt |-> x] : x \in Work'[Begun]}
          BY <1>6, <3>3, <4>1, <4>2
        <4>4. ~ AutoCommit'
          BY <1>7, <2>2, <3>3
        <4>5. Alive' /\ CurrentTx' # 0
          BY <2>2, <3>3
        <4>6. (Alive => AutoCommit = (CurrentTx = 0))'
          BY <4>4, <4>5, <1>3, <1>7, <2>2
        <4> QED  BY <1>3, <4>3, <4>5, <4>6 DEF PendingIsTheWork
      <3> QED  BY <1>5, <1>7, <2>2, <3>1, <3>2, <3>3 DEF Executed
    <2>3. Alive' => CurrentTx' = CurrentTx /\ Alive
      <3>1. Alive' => UNCHANGED <<Alive, Disconnected>>
        BY <1>5
      <3>2. UNCHANGED <<Alive, Disconnected>> => CurrentTx' = CurrentTx
        BY <1>3 DEF CurrentTx, GetVersion
      <3> QED  BY <3>1, <3>2
    <2> QED  BY <1>3, <2>1, <2>2, <2>3
  <1>14. OneAtATime'
    BY <1>3, <1>4, <1>6 DEF SessionIInv, TypeOK, OneAtATime, Executed
  <1>15. AllOrNothing'
    <2> DEFINE kept(t) == {x \in Stmt : [tx |-> t, stmt |-> x] \in Durable}
    <2>1. \A t \in Transaction : {x \in Stmt : [tx |-> t, stmt |-> x] \in Durable'} = kept(t)
      <3>1. UNCHANGED Durable \/ (CurrentTx = 0 /\ Durable' = Durable \union {write})
        BY <1>4, <1>7 DEF Executed
      <3> QED  BY <3>1, SessionAssumption DEF Transaction
    <2>2. \A t \in Transaction : Work'[t] = Work[t] \/ (t = Begun /\ CurrentTx # 0)
      BY <1>4, <1>6 DEF SessionIInv, TypeOK, Executed
    <2>3. CurrentTx # 0 => Said[Begun] = "nothing"
      BY DEF SessionIInv, OneAtATime, CurrentTx
    <2>4. \A t \in Transaction : /\ kept(t) \in {{}, Work[t]}
                                 /\ Said[t] = "commited" => kept(t) = Work[t]
                                 /\ Said[t] \in {"nothing", "dropped"} => kept(t) = {}
      BY DEF SessionIInv, AllOrNothing
    <2> HIDE DEF kept
    <2>5. \A t \in Transaction : /\ kept(t) \in {{}, Work'[t]}
                                 /\ Said'[t] = "commited" => kept(t) = Work'[t]
                                 /\ Said'[t] \in {"nothing", "dropped"} => kept(t) = {}
      BY <1>3, <2>2, <2>3, <2>4
    <2> QED  BY <2>1, <2>5 DEF AllOrNothing
  <1>16. AssertionNeedsReuse'
    BY SessionAssumption DEF SessionIInv, TypeOK, AssertionNeedsReuse, GetVersion, BareWasReused,
       SessionOfTheHandle, Execute, InternalBindAndExecute
  <1> QED
    BY <1>8, <1>9, <1>10, <1>11, <1>12, <1>13, <1>14, <1>15, <1>16 DEF SessionIInv

-----------------------------------------------------------------------------
(* Transactions. *)

(* A transaction begins with nothing pending and no work of its own. *)
LEMMA BeginKeeps ==
    ASSUME SessionIInv, TransactionBegin
    PROVE  SessionIInv'
  <1>1. TypeOK'
    <2>1. {Initialised, Disconnected, Alive, AutoCommit, InTransaction, Commited}' \subseteq BOOLEAN
      BY DEF SessionIInv, TypeOK, TransactionBegin, StartTransaction, connVars
    <2>2. ({NativeHandle, LastVersion, TxVersion} \subseteq Version)'
      BY SessionAssumption DEF SessionIInv, TypeOK, TransactionBegin, GetVersion, connVars,
         Version
    <2>3. (Begun \in 0..MaxTx)'
      BY SessionAssumption DEF SessionIInv, TypeOK, TransactionBegin
    <2> QED  BY <2>1, <2>2, <2>3 DEF SessionIInv, TypeOK, TransactionBegin, connVars, stmtVars
  <1>2. SessionOfTheHandle'
    BY SessionAssumption DEF SessionIInv, SessionOfTheHandle, connVars, TransactionBegin
  <1>3. VersionsWereGiven'
    BY DEF SessionIInv, VersionsWereGiven, TransactionBegin, GetVersion, connVars, stmtVars,
       SessionOfTheHandle, TypeOK, Version
  <1>4. HandleAsRemembered'
    BY DEF SessionIInv, HandleAsRemembered, stmtVars, TransactionBegin
  <1>5. BareWasReused'
    BY SessionAssumption DEF SessionIInv, TypeOK, BareWasReused, GetVersion, connVars, stmtVars,
       TransactionBegin
  <1>6. PendingIsTheWork'
    <2>1. Begun + 1 \in Transaction /\ Begun + 1 > Begun /\ Begun + 1 # 0
      BY SessionAssumption DEF SessionIInv, TypeOK, TransactionBegin, Transaction
    <2>2. Pending = {} /\ (Alive => AutoCommit = TRUE)
      BY DEF SessionIInv, PendingIsTheWork, CurrentTx, TransactionBegin
    <2>3. Work[Begun + 1] = {}
      BY <2>1 DEF SessionIInv, OneAtATime
    <2>4. CurrentTx' = IF GetVersion = 0 THEN 0 ELSE Begun + 1
      BY DEF CurrentTx, TransactionBegin, GetVersion, connVars
    <2>5. Alive => GetVersion # 0
      BY DEF SessionIInv, SessionOfTheHandle, GetVersion
    <2>6. Alive => AutoCommit' = (CurrentTx' = 0)
      BY <2>1, <2>4, <2>5 DEF TransactionBegin, StartTransaction
    <2> QED  BY <2>2, <2>3, <2>6 DEF PendingIsTheWork, TransactionBegin
  <1>7. OneAtATime'
    BY SessionAssumption DEF SessionIInv, TypeOK, OneAtATime, Transaction, TransactionBegin
  <1>8. AllOrNothing'
    BY SessionAssumption DEF SessionIInv, TypeOK, AllOrNothing, Write, TransactionBegin
  <1>9. AssertionNeedsReuse'
    BY SessionAssumption DEF SessionIInv, TypeOK, AssertionNeedsReuse, TransactionBegin
  <1> QED
    BY <1>1, <1>2, <1>3, <1>4, <1>5, <1>6, <1>7, <1>8, <1>9 DEF SessionIInv

(* Commit makes all of the work durable or none of it, and says so when it is
   all; a second one has nothing to commit. *)
LEMMA CommitKeeps ==
    ASSUME SessionIInv, Commit
    PROVE  SessionIInv'
  <1>1. /\ Begun \in Transaction
        /\ Said \in [Transaction -> {"nothing", "commited", "failed", "dropped"}]
        /\ Commited \in BOOLEAN
    BY DEF SessionIInv, TypeOK, OneAtATime, Commit, Transaction
  <1>2. \/ UNCHANGED Said /\ Commited
        \/ ~ Commited /\ \E a \in {"commited", "failed"} : Said' = [Said EXCEPT ![Begun] = a]
    BY DEF Commit, MySqlCommit, Says
  <1>3. TypeOK'
    BY SessionAssumption DEF SessionIInv, TypeOK, Version, Transaction, Write, SessionOfTheHandle,
       connVars, sessionVars, stmtVars, Commit, MySqlCommit, ResetAutoCommit, Says
  <1>4. SessionOfTheHandle'
    <2>1. (Alive' = Alive \/ Alive' = FALSE) /\ UNCHANGED connVars
      BY DEF Commit, MySqlCommit, sessionVars
    <2> QED  BY <2>1 DEF SessionIInv, SessionOfTheHandle, connVars
  <1>5. VersionsWereGiven'
    BY SessionAssumption DEF SessionIInv, TypeOK, VersionsWereGiven, connVars, stmtVars, Commit
  <1>6. HandleAsRemembered'
    BY SessionAssumption DEF SessionIInv, TypeOK, HandleAsRemembered, stmtVars, Commit
  <1>7. BareWasReused'
    BY SessionAssumption DEF SessionIInv, TypeOK, BareWasReused, GetVersion, SessionOfTheHandle,
       connVars, stmtVars, Commit
  <1>8. PendingIsTheWork'
    BY SessionAssumption DEF SessionIInv, TypeOK, PendingIsTheWork, CurrentTx, GetVersion,
       SessionOfTheHandle, VersionsWereGiven, OneAtATime, sessionVars, Commit, MySqlCommit,
       ResetAutoCommit
  <1>9. OneAtATime'
    <2>1. \A t \in Transaction : t > Begun => Said'[t] = Said[t]
      BY <1>1, <1>2, SessionAssumption DEF Transaction
    <2>2. Begun # 0
      BY <1>1, SessionAssumption DEF Transaction
    <2>3. Commited' /\ UNCHANGED <<Begun, Work>>
      BY DEF Commit
    <2> QED  BY <2>1, <2>2, <2>3 DEF SessionIInv, OneAtATime
  <1>10. AllOrNothing'
    <2> DEFINE kept(t) == {s \in Stmt : [tx |-> t, stmt |-> s] \in Durable}
               own == {[tx |-> Begun, stmt |-> s] : s \in Work[Begun]}
    <2>1. \A t \in Transaction : /\ kept(t) \in {{}, Work[t]}
                                 /\ Said[t] = "commited" => kept(t) = Work[t]
                                 /\ Said[t] \in {"nothing", "dropped"} => kept(t) = {}
      BY DEF SessionIInv, AllOrNothing
    <2>2. Work[Begun] \subseteq Stmt
      BY <1>1 DEF SessionIInv, TypeOK
    <2>3. CASE /\ UNCHANGED Durable
               /\ \/ Said' = Said
                  \/ ~ Commited /\ Said' = [Said EXCEPT ![Begun] = "failed"]
      <3>1. UNCHANGED <<Durable, Work>>
        BY <2>3 DEF Commit, txVars
      <3>2. \A t \in Transaction : Said'[t] = Said[t] \/ (Said'[t] = "failed" /\ t = Begun)
        BY <1>1, <2>3
      <3> QED  BY <2>1, <3>1, <3>2 DEF AllOrNothing
    <2>4. CASE /\ Durable' = Durable \union own /\ ~ Commited
               /\ \E a \in {"commited", "failed"} : Said' = [Said EXCEPT ![Begun] = a]
      <3>1. kept(Begun) = {}
        BY <1>1, <2>1, <2>4 DEF SessionIInv, OneAtATime, Commit
      <3>2. {s \in Stmt : [tx |-> Begun, stmt |-> s] \in Durable'} = Work[Begun]
        BY <2>2, <2>4, <3>1
      <3>3. \A t \in Transaction \ {Begun} :
                {s \in Stmt : [tx |-> t, stmt |-> s] \in Durable'} = kept(t)
        BY <2>4
      <3> QED  BY <1>1, <2>1, <2>4, <3>2, <3>3 DEF AllOrNothing, Commit
    <2>5. Pending = IF Alive /\ ~ Commited /\ TxVersion = GetVersion THEN own ELSE {}
      BY <1>1 DEF SessionIInv, PendingIsTheWork, CurrentTx, Commit, Transaction
    <2>6. \/ /\ UNCHANGED Durable
             /\ \/ Said' = Said
                \/ ~ Commited /\ Said' = [Said EXCEPT ![Begun] = "failed"]
          \/ /\ Durable' = Durable \union own /\ ~ Commited
             /\ \E a \in {"commited", "failed"} : Said' = [Said EXCEPT ![Begun] = a]
      <3>1. CASE Commited /\ Pending = {}
        BY <3>1 DEF Commit, MySqlCommit, Says
      <3>2. CASE ~ Commited /\ GetVersion = TxVersion /\ Alive
        <4>1. MySqlCommit
          BY <3>2 DEF Commit
        <4>2. \/ Durable' = Durable \union Pending /\ Said' = [Said EXCEPT ![Begun] = "commited"]
              \/ /\ Durable' \in {Durable, Durable \union Pending}
                 /\ Said' = [Said EXCEPT ![Begun] = "failed"]
          BY <3>2, <4>1 DEF MySqlCommit, Says
        <4>3. Pending = own
          BY <2>5, <3>2
        <4> HIDE DEF own
        <4> QED  BY <3>2, <4>2, <4>3
      <3>3. CASE ~ Commited /\ (GetVersion # TxVersion \/ ~ Alive)
        BY <3>3 DEF Commit, MySqlCommit, Says
      <3> QED  BY <2>5, <3>1, <3>2, <3>3
    <2> QED  BY <2>3, <2>4, <2>6
  <1>11. AssertionNeedsReuse'
    BY SessionAssumption DEF SessionIInv, TypeOK, AssertionNeedsReuse, GetVersion, BareWasReused,
       Commit
  <1> QED
    BY <1>3, <1>4, <1>5, <1>6, <1>7, <1>8, <1>9, <1>10, <1>11 DEF SessionIInv

(* The destructor rolls back what was not committed. *)
LEMMA EndKeeps ==
    ASSUME SessionIInv, TransactionEnd
    PROVE  SessionIInv'
  <1>1. TypeOK'
    BY SessionAssumption DEF SessionIInv, TypeOK, Version, Transaction, Write, connVars, stmtVars,
       TransactionEnd, Rollback, ResetAutoCommit
  <1>2. SessionOfTheHandle'
    BY SessionAssumption DEF SessionIInv, TypeOK, SessionOfTheHandle, connVars, TransactionEnd
  <1>3. VersionsWereGiven'
    BY SessionAssumption DEF SessionIInv, VersionsWereGiven, connVars, stmtVars, TransactionEnd
  <1>4. HandleAsRemembered'
    BY SessionAssumption DEF SessionIInv, HandleAsRemembered, stmtVars, TransactionEnd
  <1>5. BareWasReused'
    BY SessionAssumption DEF SessionIInv, TypeOK, BareWasReused, GetVersion, connVars, stmtVars,
       TransactionEnd
  <1>6. PendingIsTheWork'
    BY SessionAssumption DEF SessionIInv, TypeOK, PendingIsTheWork, CurrentTx, GetVersion,
       SessionOfTheHandle, VersionsWereGiven, TransactionEnd, Rollback, ResetAutoCommit
  <1>7. OneAtATime'
    BY SessionAssumption DEF SessionIInv, TypeOK, OneAtATime, TransactionEnd, ResetAutoCommit
  <1>8. AllOrNothing'
    BY SessionAssumption DEF SessionIInv, TypeOK, AllOrNothing, Write, OneAtATime, TransactionEnd,
       Rollback
  <1>9. AssertionNeedsReuse'
    BY SessionAssumption DEF SessionIInv, TypeOK, AssertionNeedsReuse, GetVersion, TransactionEnd
  <1> QED
    BY <1>1, <1>2, <1>3, <1>4, <1>5, <1>6, <1>7, <1>8, <1>9 DEF SessionIInv

-----------------------------------------------------------------------------
(* The theorems. *)

(* Nothing but these happens. *)
LEMMA StepKeeps == SessionIInv /\ [Next]_vars => SessionIInv'
  <1> SUFFICES ASSUME SessionIInv, [Next]_vars PROVE SessionIInv'
    OBVIOUS
  <1>1. Initialised \in BOOLEAN
    BY DEF SessionIInv, TypeOK
  <1>2. CASE UNCHANGED vars
    BY <1>2 DEF SessionIInv, TypeOK, SessionOfTheHandle, VersionsWereGiven, HandleAsRemembered,
       BareWasReused, PendingIsTheWork, OneAtATime, AllOrNothing, AssertionNeedsReuse, GetVersion,
       CurrentTx, vars, connVars, sessionVars, stmtVars, txVars
  <1>3. CASE ConnInit
    BY <1>3, OpenKeeps DEF ConnInit
  <1>4. CASE ConnClean
    <2>1. CASE NativeHandle # 0
      BY <1>4, <2>1, CloseKeeps DEF ConnClean
    <2>2. CASE NativeHandle = 0
      <3>1. Initialised' = FALSE /\ UNCHANGED <<NativeHandle, Disconnected, LastVersion, sessionVars,
                                                   Durable, stmtVars, txVars, Failed>>
        BY <1>4, <2>2 DEF ConnClean
      <3>2. TypeOK'
        <4>1. {Initialised, Disconnected, Alive, AutoCommit, InTransaction, Commited}' \subseteq BOOLEAN
          BY <3>1 DEF SessionIInv, TypeOK, sessionVars, txVars
        <4> QED  BY <3>1, <4>1 DEF SessionIInv, TypeOK, sessionVars, stmtVars, txVars
      <3>3. (SessionOfTheHandle /\ VersionsWereGiven /\ HandleAsRemembered)'
        BY <3>1 DEF SessionIInv, SessionOfTheHandle, VersionsWereGiven, HandleAsRemembered,
           sessionVars, stmtVars, txVars
      <3>4. UNCHANGED <<GetVersion, CurrentTx>>
        BY <3>1 DEF GetVersion, CurrentTx, txVars
      <3>5. (BareWasReused /\ PendingIsTheWork)'
        BY <3>1, <3>4 DEF SessionIInv, BareWasReused, PendingIsTheWork, sessionVars, stmtVars,
           txVars
      <3>6. (OneAtATime /\ AllOrNothing /\ AssertionNeedsReuse)'
        BY <3>1, <3>4 DEF SessionIInv, OneAtATime, AllOrNothing, AssertionNeedsReuse, stmtVars,
           txVars
      <3> QED  BY <3>2, <3>3, <3>5, <3>6 DEF SessionIInv
    <2> QED  BY <2>1, <2>2
  <1>5. CASE Tick
    <2>1. CASE Open
      BY <1>1, <1>5, <2>1, OpenKeeps DEF Tick
    <2>2. CASE Close
      BY <1>1, <1>5, <2>2, CloseKeeps DEF Tick
    <2>3. CASE UNCHANGED <<connVars, sessionVars>>
      BY <1>2, <1>5, <2>3 DEF Tick, vars
    <2> QED  BY <1>5, <2>1, <2>2, <2>3 DEF Tick, CheckReconnectionAndPing
  <1>6. CASE LoseLink
    BY <1>6, LoseLinkKeeps
  <1>7. ASSUME NEW s \in Stmt, StmtInit(s) \/ StmtClean(s) \/ Execute(s)
        PROVE  SessionIInv'
    BY <1>7, StmtInitKeeps, StmtCleanKeeps, CheckFailsKeeps, AssertionKeeps, BindAndExecuteKeeps
       DEF Execute
  <1>8. CASE TransactionBegin \/ Commit \/ TransactionEnd
    BY <1>8, BeginKeeps, CommitKeeps, EndKeeps
  <1>9. CASE Aborted
    BY <1>2, <1>9 DEF Aborted
  <1> QED
    BY <1>2, <1>3, <1>4, <1>5, <1>6, <1>7, <1>8, <1>9 DEF Next

(* The invariant is one of every behaviour: of the connection, its statements
   and the transactions made on it. *)
THEOREM SessionInductiveInvariant == Spec => []SessionIInv
  <1>1. Init => SessionIInv
    <2> SUFFICES ASSUME Init PROVE SessionIInv
      OBVIOUS
    <2>1. TypeOK
      <3>1. {Initialised, Disconnected, Alive, AutoCommit, InTransaction, Commited} \subseteq BOOLEAN
        BY DEF Init
      <3> QED  BY <3>1, SessionAssumption DEF Init, TypeOK, Version
    <2>2. SessionOfTheHandle /\ VersionsWereGiven /\ HandleAsRemembered
      BY DEF Init, SessionOfTheHandle, VersionsWereGiven, HandleAsRemembered
    <2>3. BareWasReused /\ OneAtATime /\ AllOrNothing /\ AssertionNeedsReuse
      BY DEF Init, BareWasReused, OneAtATime, AllOrNothing, AssertionNeedsReuse
    <2>4. PendingIsTheWork
      BY DEF Init, PendingIsTheWork
    <2> QED  BY <2>1, <2>2, <2>3, <2>4 DEF SessionIInv
  <1> QED
    BY <1>1, StepKeeps, PTL DEF Spec

(* The variables of xMySqlConn, xMySqlStmt and xMySqlTransaction have their
   types, and there is no handle that is connected but absent. *)
THEOREM TypeCorrect == Spec => []TypeOK
  <1>1. SessionIInv => TypeOK
    BY DEF SessionIInv
  <1> QED  BY <1>1, SessionInductiveInvariant, PTL

(* A statement that CheckReonnection lets through holds no handle of an earlier
   connection. *)
THEOREM HandleCorrect == Spec => []HandleOfThisConnection
  <1>1. SessionIInv => HandleOfThisConnection
    BY DEF SessionIInv, HandleAsRemembered, HandleOfThisConnection
  <1> QED  BY <1>1, SessionInductiveInvariant, PTL

(* What a transaction executed on its own connection is there as a whole or not
   at all, and Commit and the destructor say which when they know it. *)
THEOREM TransactionsAtomic == Spec => []AllOrNothing
  <1>1. SessionIInv => AllOrNothing
    BY DEF SessionIInv
  <1> QED  BY <1>1, SessionInductiveInvariant, PTL

(* No transaction is left open on a connection that is ready. *)
THEOREM TransactionsEnd == Spec => []NoLeftTransaction
  <1>1. SessionIInv => NoLeftTransaction
    <2> SUFFICES ASSUME SessionIInv, GetVersion # 0, Alive,
                        ~ InTransaction \/ Commited \/ TxVersion # GetVersion
                 PROVE  AutoCommit /\ Pending = {}
      BY DEF NoLeftTransaction
    <2>1. CurrentTx = 0
      BY DEF CurrentTx
    <2>2. AutoCommit = TRUE
      BY <2>1 DEF SessionIInv, PendingIsTheWork
    <2> QED  BY <2>1, <2>2 DEF SessionIInv, PendingIsTheWork
  <1> QED  BY <1>1, SessionInductiveInvariant, PTL

(* assert(Native) fails for no statement but one that was initialised again, or
   that was never prepared while there is no connection. *)
THEOREM AssertionCorrect == Spec => []AssertionNeedsReuse
  <1>1. SessionIInv => AssertionNeedsReuse
    BY DEF SessionIInv
  <1> QED  BY <1>1, SessionInductiveInvariant, PTL

=============================================================================
