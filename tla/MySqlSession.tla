---------------------------- MODULE MySqlSession ----------------------------
(***************************************************************************)
(* xMySqlConn, the prepared statements made on it and a transaction, used  *)
(* by one thread.  A connection that was opened anew has a version number  *)
(* that never comes back; statements and the transaction remember the      *)
(* version they belong to.  The link to the server may be lost at any      *)
(* time, before or after the server did what it was asked: the client only *)
(* learns of it from the next call that fails.                             *)
(*                                                                         *)
(* A statement stands for one write.  libmysqlclient and the server are    *)
(* modelled by what these calls do: a session that ends rolls back,        *)
(* switching autocommit on commits what is pending, and a statement that   *)
(* the server refuses undoes itself alone.                                 *)
(***************************************************************************)
EXTENDS Integers

CONSTANTS
    Stmt,           \* xMySqlStmt objects
    MaxVersion,     \* bound on the connections opened
    MaxTx           \* bound on the transactions begun

ASSUME SessionAssumption == {MaxVersion, MaxTx} \subseteq Nat

VARIABLES
    (* xMySqlConn *)
    Initialised,        \* between Init and Clean
    Disconnected,
    NativeHandle,       \* version of the MYSQL object, 0 when there is none
    LastVersion,        \* the version given out last
    (* the session of NativeHandle at the server *)
    Alive,
    AutoCommit,
    Pending,            \* writes of the open transaction
    Durable,            \* writes that are there for good
    (* xMySqlStmt *)
    Native,             \* version of the connection the handle was prepared on,
                        \* 0 for nullptr
    StmtVersion,        \* ConnVersion of the statement
    StmtInitialised,    \* statements between Init and Clean
    Reused,             \* statements that were initialised again (history)
    (* xMySqlTransaction *)
    InTransaction,      \* the object exists
    TxVersion,          \* its ConnVersion, 0 when it did not start
    Commited,
    Begun,              \* number of transactions so far, also names the last one
    Work,               \* statements each transaction had the server execute on
                        \* its own connection (history)
    Said,               \* what its first Commit or the destructor made of it
                        \* (history)
    Failed              \* the statement whose assert(Native) failed: the program
                        \* is gone (history)

connVars == <<Initialised, Disconnected, NativeHandle, LastVersion>>
sessionVars == <<Alive, AutoCommit, Pending>>
stmtVars == <<Native, StmtVersion, StmtInitialised, Reused>>
txVars == <<InTransaction, TxVersion, Commited, Begun, Work, Said>>
vars == <<connVars, sessionVars, Durable, stmtVars, txVars, Failed>>

Version == 0..MaxVersion
Transaction == 1..MaxTx

(* A write of a statement, within a transaction or, with 0, on its own. *)
Write == [tx: 0..MaxTx, stmt: Stmt]

TypeOK ==
    /\ {Initialised, Disconnected, Alive, AutoCommit, InTransaction, Commited}
         \subseteq BOOLEAN
    /\ {NativeHandle, LastVersion, TxVersion} \subseteq Version
    /\ NativeHandle = 0 => Disconnected     \* assert(NativeHandle.IsEnabled())
    /\ Pending \subseteq Write
    /\ Durable \subseteq Write
    /\ Native \in [Stmt -> Version]
    /\ StmtVersion \in [Stmt -> Version]
    /\ StmtInitialised \subseteq Stmt
    /\ Reused \subseteq Stmt
    /\ Begun \in 0..MaxTx
    /\ Work \in [Transaction -> SUBSET Stmt]
    /\ Said \in [Transaction -> {"nothing", "commited", "failed", "dropped"}]
    /\ Failed \subseteq Stmt

Init ==
    /\ Initialised = FALSE
    /\ Disconnected = TRUE
    /\ NativeHandle = 0
    /\ LastVersion = 0
    /\ Alive = FALSE
    /\ AutoCommit = TRUE
    /\ Pending = {}
    /\ Durable = {}
    /\ Native = [s \in Stmt |-> 0]
    /\ StmtVersion = [s \in Stmt |-> 0]
    /\ StmtInitialised = {}
    /\ Reused = {}
    /\ InTransaction = FALSE
    /\ TxVersion = 0
    /\ Commited = FALSE
    /\ Begun = 0
    /\ Work = [t \in Transaction |-> {}]
    /\ Said = [t \in Transaction |-> "nothing"]
    /\ Failed = {}

GetVersion == IF Disconnected THEN 0 ELSE NativeHandle

-----------------------------------------------------------------------------
(* The connection. *)

(* Open, which has closed what there was; mysql_real_connect may fail. *)
Open ==
    /\ Pending' = {}
    /\ \/ /\ LastVersion < MaxVersion
          /\ LastVersion' = LastVersion + 1
          /\ NativeHandle' = LastVersion + 1
          /\ Disconnected' = FALSE
          /\ Alive' = TRUE
          /\ AutoCommit' = TRUE
       \/ /\ NativeHandle' = 0
          /\ Disconnected' = TRUE
          /\ Alive' = FALSE
          /\ UNCHANGED <<LastVersion, AutoCommit>>

(* Mutant of Close: the connection is not marked as disconnected. *)
CloseQuietly ==
    /\ NativeHandle' = 0
    /\ Alive' = FALSE
    /\ Pending' = {}
    /\ UNCHANGED <<Disconnected, LastVersion, AutoCommit>>

Close ==
    /\ NativeHandle' = 0
    /\ Disconnected' = TRUE
    /\ Alive' = FALSE
    /\ Pending' = {}
    /\ UNCHANGED <<LastVersion, AutoCommit>>

(* A connection that is ready is asked only after five idle minutes. *)
CheckReconnectionAndPing ==
    \/ Disconnected /\ Open
    \/ ~ Disconnected /\ ~ Alive /\ Close
    \/ ~ Disconnected /\ UNCHANGED <<connVars, sessionVars>>

Tick ==
    /\ Initialised /\ Failed = {}
    /\ CheckReconnectionAndPing
    /\ UNCHANGED <<Initialised, Durable, stmtVars, txVars, Failed>>

(* Init makes the first attempt to connect. *)
ConnInit ==
    /\ ~ Initialised /\ Failed = {}
    /\ Initialised' = TRUE
    /\ Open
    /\ UNCHANGED <<Durable, stmtVars, txVars, Failed>>

ConnClean ==
    /\ Initialised /\ Failed = {}
    /\ Initialised' = FALSE
    /\ IF NativeHandle # 0 THEN Close
       ELSE UNCHANGED <<NativeHandle, Disconnected, LastVersion, sessionVars>>
    /\ UNCHANGED <<Durable, stmtVars, txVars, Failed>>

(* The link is lost, or the server goes away: it rolls the session back. *)
LoseLink ==
    /\ Alive /\ Failed = {}
    /\ Alive' = FALSE
    /\ Pending' = {}
    /\ UNCHANGED <<connVars, AutoCommit, Durable, stmtVars, txVars, Failed>>

-----------------------------------------------------------------------------
(* Statements. *)

(* A statement object may be used again after Clean; its ConnVersion stays. *)
StmtInit(s) ==
    /\ Failed = {}
    /\ s \notin StmtInitialised
    /\ StmtInitialised' = StmtInitialised \union {s}
    /\ Reused' = IF StmtVersion[s] # 0 THEN Reused \union {s} ELSE Reused
    /\ Native' = [Native EXCEPT ![s] = 0]
    /\ UNCHANGED <<connVars, sessionVars, Durable, StmtVersion, txVars, Failed>>

(* mysql_stmt_close fails only on a lost link, and then not always; a handle of
   a connection that was closed is detached from it. *)
StmtClean(s) ==
    /\ Failed = {}
    /\ s \in StmtInitialised
    /\ StmtInitialised' = StmtInitialised \ {s}
    /\ Native' = [Native EXCEPT ![s] = 0]
    /\ \/ Native[s] # 0 /\ Native[s] = NativeHandle /\ ~ Alive /\ Disconnected' = TRUE
       \/ UNCHANGED Disconnected
    /\ UNCHANGED <<Initialised, NativeHandle, LastVersion, sessionVars, Durable,
                   StmtVersion, Reused, txVars, Failed>>

(* What IsEqualTo says; of two invalid numbers that is up to the library. *)
IsEqualTo(v, w, says) == IF v = 0 /\ w = 0 THEN says \in BOOLEAN ELSE says = (v = w)

(* Mutant of Checked: Open is only called without a handle. *)
CheckedIfThere(s) ==
    IF Native[s] # 0 THEN [native |-> Native[s], version |-> GetVersion]
    ELSE [native |-> GetVersion, version |-> GetVersion]

(* The statement after CheckReonnection prepared it anew: the old handle was
   closed first. *)
Checked(s) == [native |-> GetVersion, version |-> GetVersion]

(* What a failed Open does to the connection: a lost link was noticed. *)
NoticedByOpen ==
    /\ \/ GetVersion # 0 /\ ~ Alive /\ Disconnected' = TRUE
       \/ (GetVersion = 0 \/ Alive) /\ UNCHANGED Disconnected
    /\ UNCHANGED <<Initialised, NativeHandle, LastVersion>>

(* Mutant of StaysUnprepared: ConnVersion is set although Open made no handle. *)
PreparedAnyway(s) ==
    /\ Native' = [Native EXCEPT ![s] = 0]
    /\ StmtVersion' = [StmtVersion EXCEPT ![s] = GetVersion]
    /\ NoticedByOpen

(* CheckReonnection returns false: there is no connection, or Open failed and
   found the link lost or the query wrong. *)
StaysUnprepared(s) ==
    /\ Native' = [Native EXCEPT ![s] = 0]
    /\ NoticedByOpen
    /\ UNCHANGED StmtVersion

CheckReonnectionFails(s) ==
    /\ IsEqualTo(GetVersion, StmtVersion[s], FALSE)
    /\ StaysUnprepared(s)
    /\ UNCHANGED <<sessionVars, Durable, Work, Failed>>

(* CheckReonnection returns true and there is no handle: assert(Native). *)
AssertionFails(s) ==
    /\ IsEqualTo(GetVersion, StmtVersion[s], TRUE)
    /\ Native[s] = 0
    /\ Failed' = {s}
    /\ UNCHANGED <<connVars, sessionVars, Durable, Native, StmtVersion, Work>>

(* The transaction the writes on the connection belong to, or 0. *)
CurrentTx ==
    IF InTransaction /\ ~ Commited /\ TxVersion # 0 /\ TxVersion = GetVersion THEN Begun ELSE 0

(* The server executes the statement. *)
Executed(s) ==
    LET w == [tx |-> CurrentTx, stmt |-> s]
    IN  /\ Durable' = IF AutoCommit THEN Durable \union {w} ELSE Durable
        /\ Work' = IF CurrentTx = 0 THEN Work
                   ELSE [Work EXCEPT ![CurrentTx] = @ \union {s}]

(* CheckReonnection returns true with a handle, now prepared if the connection
   is another; the execution succeeds, fails, or finds the link lost, before or
   after the server executed. *)
InternalBindAndExecute(s) ==
    /\ \/ /\ IsEqualTo(GetVersion, StmtVersion[s], TRUE)
          /\ Native[s] # 0
          /\ UNCHANGED StmtVersion
       \/ /\ IsEqualTo(GetVersion, StmtVersion[s], FALSE)
          /\ GetVersion # 0 /\ Alive
          /\ StmtVersion' = [StmtVersion EXCEPT ![s] = Checked(s).version]
    /\ LET handle == IF GetVersion = StmtVersion[s] THEN Native[s] ELSE Checked(s).native
           reaches == Alive /\ handle = NativeHandle
       IN  \/ /\ Alive
              /\ \/ /\ reaches /\ Executed(s)
                    /\ Pending' = IF AutoCommit THEN Pending
                                  ELSE Pending \union {[tx |-> CurrentTx, stmt |-> s]}
                 \/ UNCHANGED <<Durable, Work, Pending>>
              /\ Native' = [Native EXCEPT ![s] = handle]
              /\ UNCHANGED <<Alive, Disconnected>>
           \/ /\ \/ reaches /\ Executed(s)
                 \/ UNCHANGED <<Durable, Work>>
              /\ Pending' = {}
              /\ Alive' = FALSE
              /\ Native' = [Native EXCEPT ![s] = 0]
              /\ Disconnected' = TRUE
    /\ UNCHANGED <<Initialised, NativeHandle, LastVersion, AutoCommit, Failed>>

Execute(s) ==
    /\ Failed = {}
    /\ s \in StmtInitialised
    /\ \/ CheckReonnectionFails(s)
       \/ AssertionFails(s)
       \/ InternalBindAndExecute(s)
    /\ UNCHANGED <<StmtInitialised, Reused, InTransaction, TxVersion, Commited, Begun, Said>>

-----------------------------------------------------------------------------
(* Transactions, one at a time. *)

StartTransaction == AutoCommit' = IF Alive THEN FALSE ELSE AutoCommit

TransactionBegin ==
    /\ Failed = {}
    /\ ~ InTransaction
    /\ Begun < MaxTx
    /\ Begun' = Begun + 1
    /\ InTransaction' = TRUE
    /\ Commited' = FALSE
    /\ TxVersion' = GetVersion
    /\ IF GetVersion # 0 THEN StartTransaction ELSE UNCHANGED AutoCommit
    /\ UNCHANGED <<connVars, Alive, Pending, Durable, stmtVars, Work, Said, Failed>>

(* Mutant of ResetAutoCommit: the mode stays as StartTransaction set it. *)
LeaveAutoCommit == UNCHANGED AutoCommit

(* After mysql_commit or Rollback, when nothing is pending that it would commit. *)
ResetAutoCommit == AutoCommit' = IF Alive THEN TRUE ELSE AutoCommit

(* The answer of the first Commit: a second one has nothing left to commit. *)
Says(answer) == Said' = IF Commited THEN Said ELSE [Said EXCEPT ![Begun] = answer]

(* mysql_commit and ResetAutoCommit.  An error is one of the server, or the link
   is lost before or after the server has committed. *)
MySqlCommit ==
    /\ Pending' = {}
    /\ \/ /\ Durable' = Durable \union Pending
          /\ ResetAutoCommit /\ UNCHANGED Alive
          /\ Says("commited")
       \/ /\ Durable' \in {Durable, Durable \union Pending}
          /\ \/ ResetAutoCommit /\ UNCHANGED Alive
             \/ Alive' = FALSE /\ UNCHANGED AutoCommit
          /\ Says("failed")

(* Commit of a transaction that started. *)
Commit ==
    /\ Failed = {}
    /\ InTransaction /\ TxVersion # 0
    /\ Commited' = TRUE
    /\ \/ GetVersion = TxVersion /\ Alive /\ MySqlCommit
       \/ /\ GetVersion # TxVersion \/ ~ Alive
          /\ Says("failed")
          /\ UNCHANGED <<sessionVars, Durable>>
    /\ UNCHANGED <<connVars, stmtVars, InTransaction, TxVersion, Begun, Work, Failed>>

(* Mutant of Rollback: it is left out, so that ResetAutoCommit commits. *)
CommitImplicitly == Durable' = Durable \union Pending /\ Pending' = {}

Rollback == Pending' = {} /\ UNCHANGED Durable

(* The destructor.  Errors on a lost link are ignored. *)
TransactionEnd ==
    /\ Failed = {}
    /\ InTransaction
    /\ InTransaction' = FALSE
    /\ IF Commited THEN UNCHANGED Said ELSE Said' = [Said EXCEPT ![Begun] = "dropped"]
    /\ IF TxVersion # 0 /\ GetVersion = TxVersion /\ ~ Commited
       THEN Rollback /\ ResetAutoCommit
       ELSE UNCHANGED <<Pending, Durable, AutoCommit>>
    /\ UNCHANGED <<connVars, Alive, stmtVars, TxVersion, Commited, Begun, Work, Failed>>

-----------------------------------------------------------------------------

(* Once an assertion has failed nothing runs any more. *)
Aborted == Failed # {} /\ UNCHANGED vars

Next ==
    \/ ConnInit \/ ConnClean \/ Tick \/ LoseLink
    \/ \E s \in Stmt : StmtInit(s) \/ StmtClean(s) \/ Execute(s)
    \/ TransactionBegin \/ Commit \/ TransactionEnd
    \/ Aborted

Spec == Init /\ [][Next]_vars

-----------------------------------------------------------------------------

(* A statement that CheckReonnection lets through runs with a handle of the very
   connection that is open now, whatever was closed, lost and opened again since
   it was prepared. *)
HandleOfThisConnection ==
    \A s \in Stmt :
        GetVersion # 0 /\ StmtVersion[s] = GetVersion => Native[s] \in {0, GetVersion}

(* What a transaction had the server execute on its own connection is there for
   good as a whole or not at all: as a whole when Commit returned true, not at
   all when it was not called.  (What is executed after the connection was
   replaced, while the transaction object lives, is not part of it.) *)
AllOrNothing ==
    \A t \in Transaction :
        LET kept == {s \in Stmt : [tx |-> t, stmt |-> s] \in Durable}
        IN  /\ kept \in {{}, Work[t]}
            /\ Said[t] = "commited" => kept = Work[t]
            /\ Said[t] \in {"nothing", "dropped"} => kept = {}

(* No transaction outlives its object: when none is open on a connection that is
   ready, a statement that succeeds is there for good at once, and the
   next transaction does not take writes of an earlier one with it. *)
NoLeftTransaction ==
    GetVersion # 0 /\ Alive /\ (~ InTransaction \/ Commited \/ TxVersion # GetVersion)
        => AutoCommit /\ Pending = {}

(* assert(Native), "connection checked before entering this procedure"
   (mysql_core_stmt.cpp:111), fails for no sequence of lost links, failed
   preparations and reconnections: only for a statement that was cleaned and
   initialised again while the connection stayed, or, as the library may have
   it, one that was never prepared when there is no connection. *)
AssertionNeedsReuse ==
    \A s \in Failed :
        \/ s \in Reused /\ StmtVersion[s] = GetVersion
        \/ StmtVersion[s] = 0 /\ GetVersion = 0

-----------------------------------------------------------------------------
(* What the properties above rest on. *)

(* The handle is the connection given out last, marked or not; the session is
   there only for a handle that is not marked. *)
SessionOfTheHandle ==
    /\ NativeHandle \in {0, LastVersion}
    /\ Alive => NativeHandle # 0 /\ ~ Disconnected

(* What statements and the transaction remember was given out: no connection
   opened from here on is taken for theirs. *)
VersionsWereGiven ==
    /\ TxVersion <= LastVersion
    /\ \A s \in Stmt : StmtVersion[s] <= LastVersion

(* A handle is one of the connection its statement remembers. *)
HandleAsRemembered == \A s \in Stmt : Native[s] \in {0, StmtVersion[s]}

(* A statement in use that remembers this connection has a handle, unless it was
   initialised again. *)
BareWasReused ==
    \A s \in StmtInitialised :
        GetVersion # 0 /\ StmtVersion[s] = GetVersion /\ Native[s] = 0 => s \in Reused

(* Autocommit is off while a transaction is open on the connection, and what is
   pending is all of its work. *)
PendingIsTheWork ==
    /\ Alive => AutoCommit = (CurrentTx = 0)
    /\ Pending = IF Alive /\ CurrentTx # 0
                 THEN {[tx |-> Begun, stmt |-> s] : s \in Work[Begun]}
                 ELSE {}

(* Transactions come one after the other; one that may still commit has said
   nothing yet. *)
OneAtATime ==
    /\ InTransaction => Begun # 0
    /\ InTransaction /\ ~ Commited => Said[Begun] = "nothing"
    /\ \A t \in Transaction : t > Begun => Said[t] = "nothing" /\ Work[t] = {}

SessionIInv ==
    /\ TypeOK
    /\ SessionOfTheHandle
    /\ VersionsWereGiven
    /\ HandleAsRemembered
    /\ BareWasReused
    /\ PendingIsTheWork
    /\ OneAtATime
    /\ AllOrNothing
    /\ AssertionNeedsReuse

=============================================================================
