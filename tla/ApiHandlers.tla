----------------------------- MODULE ApiHandlers -----------------------------
(***************************************************************************)
(* The endpoints of the HTTP API.  A handler is the script of the steps it *)
(* takes, its own and those of the service it calls, each with the status  *)
(* codes its failures are answered with; a step whose failure is neither   *)
(* answered nor changes anything is left out.                              *)
(***************************************************************************)
EXTENDS Naturals, Sequences

\* A step works on a record or effect "on", answers "no" when the request cannot
\* be served and "fail" when the database, a cluster or the file system fails.
Step(kind, on, no, fail) ==
  [kind |-> kind, on |-> on, no |-> no, fail |-> fail, skip |-> 0]

Check(no) == Step("check", "request", no, 0)           \* of the request itself
Rule(no) == Step("rule", "state", no, 0)               \* of what is stored
Never(no) == Step("never", "state", no, 0)             \* a rule nothing meets
Query(fail) == Step("query", "data", 0, fail)          \* changes nothing
Find(x, no, fail) == Step("find", x, no, fail)         \* a record it needs
Unique(x, no) == Step("unique", x, no, 0)              \* must not be there yet
Skip(x, n) == [Step("skip", x, 0, 0) EXCEPT !.skip = n] \* n steps, if not needed
Insert(x, fail) == Step("insert", x, 0, fail)
Save(x, fail) == Step("save", x, 0, fail)
Remove(x, fail) == Step("remove", x, 0, fail)
Tell(x, fail) == Step("tell", x, 0, fail)              \* a change of a cluster
Erase(x, fail) == Step("erase", x, 0, fail)            \* a deletion on a cluster
Try(x) == Step("try", x, 0, 0)                         \* failure only logged
Each(x) == Step("each", x, 0, 0)                       \* failure only counted
Spawn(x) == Step("spawn", x, 0, 0)                     \* starts a goroutine

Endpoint(script, ok, docs) ==
  [script |-> script, ok |-> ok, partly |-> ok, docs |-> docs]

\* The status codes most handlers document.
Usual == {200, 400, 404, 500}
ReadCodes == {200, 404, 500}
ListCodes == {200, 500}
QueryCodes == {200, 400, 500}

-----------------------------------------------------------------------------
(* Connections to a cluster: as the administrator of its system account, as *)
(* a user, or as the administrator of an account, with the user's creds.    *)

CreateConnectionWithUser(code) == <<Rule(code), Query(code)>>

SystemAccountAdminUser(code) == <<Rule(code), Find("admin", code, code)>>

GetConnection(code) ==
  <<Find("cluster", code, code)>>
    \o SystemAccountAdminUser(code) \o CreateConnectionWithUser(code)

GetConnectionWithUser(missing, code) ==
  <<Find("cluster", missing, code), Find("user", code, code)>>
    \o CreateConnectionWithUser(code)

GetConnectionWithAccount(code) ==
  <<Find("cluster", code, code), Find("admin", code, code)>>
    \o CreateConnectionWithUser(code)

-----------------------------------------------------------------------------
(* Clusters.  Reading a cluster that is not there is an error like others.  *)

CreateCluster ==
  Endpoint(<<Check(400), Rule(500), Unique("cluster", 500), Insert("cluster", 500)>>,
           201, {201, 400, 500})

ListClusters == Endpoint(<<Query(500)>>, 200, ListCodes)
GetCluster == Endpoint(<<Find("cluster", 404, 404)>>, 200, ReadCodes)

UpdateCluster ==
  Endpoint(<<Check(400), Find("cluster", 500, 500), Rule(500), Save("saved", 500)>>,
           200, Usual)

EnableCluster ==
  Endpoint(<<Find("cluster", 500, 500), Save("enabled", 500)>>, 200, ReadCodes)
DisableCluster ==
  Endpoint(<<Find("cluster", 500, 500), Save("disabled", 500)>>, 200, ReadCodes)

\* A connection that fails is what the test reports.
TestClusterConnection ==
  Endpoint(<<Find("cluster", 500, 500)>>, 200, ReadCodes)

GetClusterHealthRecords == Endpoint(<<Check(400), Query(500)>>, 200, QueryCodes)
GetClusterMonitoringDashboard ==
  Endpoint(<<Query(500), Query(500)>>, 200, ListCodes)

\* What the test found is saved if it failed; otherwise there is nothing to do.
TriggerManualHealthCheck ==
  Endpoint(<<Find("cluster", 500, 500), Skip("health_record", 1),
             Insert("health_record", 500)>>,
           200, ReadCodes)

GetClusterTopology == Endpoint(<<Query(500)>>, 200, ListCodes)

NodeCount == <<Find("cluster", 500, 500), Query(500)>>

GetClusterNodeCount == Endpoint(NodeCount, 200, ReadCodes)

\* The handler looks for "failed to get cluster" in the text of the error, which
\* every failure to connect contains; the answer when no server responds is 403.
ListClusterServers ==
  Endpoint(GetConnection(404) \o <<Query(500), Rule(403)>>, 200, Usual)

GetAccountJetStreamListDetection ==
  Endpoint(<<Find("cluster", 500, 500), Query(500)>>, 200, ReadCodes)

GetAccountStreamNames ==
  Endpoint(GetConnectionWithAccount(500) \o <<Query(500)>>, 200, ReadCodes)

\* The administrator is read before the connection, an error counts as none.
GetClusterJetStreamStreamDetail ==
  Endpoint(<<Check(400), Find("cluster", 500, 500), Rule(400),
             Find("admin", 500, 500)>>
             \o GetConnectionWithUser(500, 500) \o <<Find("stream_on_cluster", 500, 500)>>,
           200, Usual)

\* What the cluster no longer has, it cannot delete: that is an error of its own.
DeleteClusterJetStreamStream ==
  Endpoint(<<Check(400), Find("cluster", 404, 404), Rule(400)>>
             \o GetConnectionWithAccount(500)
             \o <<Find("stream_on_cluster", 500, 500), Erase("stream_on_cluster", 500)>>,
           204, {204, 400, 404, 500})

\* The handler looks for "not found" in the text of the error, which is there for a
\* cluster, but not for a user.  A stream record that is not there is not asked for:
\* its user is read, and the request panics.
GetStreamConsumerList ==
  Endpoint(<<Check(400), Find("stream", 500, 500)>> \o GetConnectionWithUser(404, 500)
             \o <<Find("stream_on_cluster", 404, 500)>>,
           200, Usual)

GetStreamConsumerInfo ==
  Endpoint(<<Check(400), Find("stream", 500, 500)>> \o GetConnectionWithUser(404, 500)
             \o <<Find("consumer_on_cluster", 404, 500)>>,
           200, Usual)

DeleteClusterJetStreamConsumer ==
  Endpoint(<<Check(400), Find("cluster", 404, 404), Rule(400)>>
             \o GetConnectionWithAccount(500)
             \o <<Find("consumer_on_cluster", 500, 500),
                  Erase("consumer_on_cluster", 500)>>,
           204, {204, 400, 404, 500})

-----------------------------------------------------------------------------
(* Accounts.  Where the service says it in another language than the        *)
(* handler expects, a missing account is answered 500.                      *)

AccountTask(code) == <<Insert("task", code)>>

\* The creds of a new account are saved once more, apart.
CreateAccount ==
  Endpoint(<<Check(400), Rule(500), Find("cluster", 500, 500), Query(500),
             Unique("account", 500), Insert("account", 500), Try("creds")>>
             \o AccountTask(500),
           201, {201, 400, 500})

GetAccount == Endpoint(<<Find("account", 404, 500)>>, 200, ReadCodes)

UpdateAccount ==
  Endpoint(<<Check(400), Find("account", 500, 500), Query(500), Rule(500),
             Save("saved", 500)>> \o AccountTask(500),
           200, Usual)

ListAccounts == Endpoint(<<Query(500), Query(500)>>, 200, QueryCodes)

DisableAccount ==
  Endpoint(<<Find("account", 500, 500), Save("disabled", 500)>> \o AccountTask(500),
           200, ReadCodes)
EnableAccount ==
  Endpoint(<<Find("account", 500, 500), Save("enabled", 500)>> \o AccountTask(500),
           200, ReadCodes)

GetAccountJWT ==
  Endpoint(<<Find("account", 404, 500), Query(500), Query(500)>>, 200, ReadCodes)

AddAccountExport ==
  Endpoint(<<Check(400), Find("account", 404, 500), Rule(500), Unique("export", 500),
             Insert("export", 500)>> \o AccountTask(500),
           200, Usual)

AddAccountImport ==
  Endpoint(<<Check(400), Find("account", 404, 500), Rule(500), Unique("import", 500),
             Find("source_account", 500, 500), Insert("import", 500)>>
             \o AccountTask(500),
           200, Usual)

RemoveAccountExport ==
  Endpoint(<<Find("account", 404, 500), Find("export", 404, 500),
             Remove("export", 500)>> \o AccountTask(500),
           200, ReadCodes)

RemoveAccountImport ==
  Endpoint(<<Find("account", 404, 500), Find("import", 404, 500),
             Remove("import", 500)>> \o AccountTask(500),
           200, ReadCodes)

\* For each subject an export and then an import are added as above; one whose
\* name exists already is passed over, with its task.
CreateAccountAssociation ==
  Endpoint(<<Check(400), Find("account", 500, 500), Find("target", 500, 500),
             Query(500), Skip("export", 2),
             Insert("export", 500), Insert("export_task", 500),
             Query(500), Skip("import", 3), Query(500),
             Insert("import", 500), Insert("import_task", 500)>>,
           200, Usual)

\* Mutant of DeleteAccount: an account with users is a conflict.
DeleteAccountConflict ==
  Endpoint(<<Find("account", 404, 500), Query(500), Rule(409), Remove("account", 500)>>,
           200, Usual)

DeleteAccount ==
  Endpoint(<<Find("account", 404, 500), Query(500), Rule(400), Remove("account", 500)>>,
           200, Usual)

ManualSyncAccountJWT ==
  Endpoint(<<Check(400), Find("account", 404, 500), Find("cluster", 500, 500),
             Query(500)>> \o AccountTask(500),
           200, Usual)

GetAccountUserCount == Endpoint(<<Query(500)>>, 200, ListCodes)
GetAccountJWTTaskCount == Endpoint(<<Query(500)>>, 200, ListCodes)

-----------------------------------------------------------------------------
(* Users.                                                                   *)

\* The user and its account are read for the public key, and may be gone.
UserTask(code) == <<Query(code), Query(code), Insert("task", code)>>

\* Mutant of CreateUser: the account's status is checked last.
CreateUserAnyway ==
  Endpoint(<<Check(400), Find("account", 404, 500), Insert("user", 500), Rule(404)>>
             \o UserTask(500),
           201, {201, 400, 404, 500})

CreateUser ==
  Endpoint(<<Check(400), Find("account", 404, 500), Rule(404), Query(500),
             Insert("user", 500)>> \o UserTask(500),
           201, {201, 400, 404, 500})

GetUser == Endpoint(<<Find("user", 404, 500)>>, 200, ReadCodes)

\* Mutant of UpdateUser: the user is inserted anew.
UpdateUserAnew ==
  Endpoint(<<Check(400), Find("user", 404, 500), Insert("saved", 500)>> \o UserTask(500),
           200, Usual)

UpdateUser ==
  Endpoint(<<Check(400), Find("user", 404, 500), Save("saved", 500)>> \o UserTask(500),
           200, Usual)

ListUsers == Endpoint(<<Query(500)>>, 200, QueryCodes)
GetAllUsers == Endpoint(<<Query(500)>>, 200, QueryCodes)
ListAdminUsersFromNonSystemAccounts == Endpoint(<<Query(500)>>, 200, ListCodes)

DisableUser ==
  Endpoint(<<Find("user", 404, 500), Save("disabled", 500)>> \o UserTask(500),
           200, ReadCodes)
EnableUser ==
  Endpoint(<<Find("user", 404, 500), Save("enabled", 500)>> \o UserTask(500),
           200, ReadCodes)

\* The account of the user signs.
SignedByAccount == <<Find("account", 500, 500), Query(500)>>

GetUserJWT == Endpoint(<<Find("user", 404, 500)>> \o SignedByAccount, 200, ReadCodes)

\* Creds generated the first time they are asked for are saved: UpdateUserCredsFile.
NewCreds == SignedByAccount \o <<Query(500), Save("creds", 500)>>

GetUserCreds ==
  Endpoint(<<Find("user", 404, 500), Skip("creds", 4)>> \o NewCreds, 200, ReadCodes)
DownloadUserCreds ==
  Endpoint(<<Find("user", 404, 500), Skip("creds", 4)>> \o NewCreds, 200, ReadCodes)

DeleteUser == Endpoint(<<Find("user", 404, 500), Remove("user", 500)>>, 200, ReadCodes)

CopyUserContext == Endpoint(<<Find("user", 404, 500), Rule(500)>>, 200, ReadCodes)

-----------------------------------------------------------------------------
(* JWT tasks.                                                               *)

\* A task that is not there is answered with "null"; an error with 404.
GetJWTTask == Endpoint(<<Query(404)>>, 200, ReadCodes)

\* Every error, also one of the database, counts as an invalid status.
ListJWTTasks == Endpoint(<<Check(400), Query(400)>>, 200, QueryCodes)
ListFailedJWTTasks == Endpoint(<<Query(500)>>, 200, ListCodes)

\* The status of a task that is not there is read: the request panics.
RetryJWTTask ==
  Endpoint(<<Find("task", 500, 400), Rule(400), Save("reset", 400)>>, 200, Usual)

GetJWTTaskStats ==
  Endpoint(<<Query(500), Query(500), Query(500), Query(500), Query(500)>>,
           200, ListCodes)

-----------------------------------------------------------------------------
(* Streams.                                                                 *)

\* The nodes of the cluster are counted if replicas are asked for.
ValidateReplicaCount == <<Skip("replicas", 3)>> \o NodeCount \o <<Rule(500)>>

CreateJetStream ==
  Endpoint(<<Check(400), Find("user", 500, 500), Query(500), Rule(500),
             Unique("stream", 500)>> \o ValidateReplicaCount
             \o <<Insert("stream", 500), Spawn("creation")>>,
           201, {201, 400, 500})

ListJetStreams == Endpoint(<<Check(400), Query(500)>>, 200, QueryCodes)

\* The handler waits for "JetStream not found", the service adds the id to it.
\* Statistics of the cluster are added if it gives some.
GetJetStream == Endpoint(<<Find("stream", 500, 500)>>, 200, ReadCodes)

UpdateJetStream ==
  Endpoint(<<Check(400), Find("stream", 404, 500)>> \o ValidateReplicaCount
             \o <<Save("saved", 500), Spawn("update")>>,
           200, Usual)

DeleteJetStream ==
  Endpoint(<<Find("stream", 500, 500), Query(500), Remove("stream", 500)>>,
           204, {204, 404, 500})

CompareJetStreamConfig ==
  Endpoint(<<Find("stream", 500, 500)>> \o GetConnectionWithUser(500, 500)
             \o <<Find("stream_on_cluster", 500, 500)>>,
           200, ReadCodes)

\* The statistics of the stream without an id are asked for.
GetJetStreamStats == Endpoint(<<Query(500), Never(500)>>, 200, ListCodes)

\* RetryFailedSync: a stream that cannot be read on the cluster is created.
RetryJetStreamCreation ==
  Endpoint(<<Find("stream", 500, 500), Rule(500)>> \o GetConnectionWithUser(500, 500)
             \o <<Save("reset", 500), Spawn("synchronisation")>>,
           200, ReadCodes)

GetJetStreamsByUser == Endpoint(<<Query(500)>>, 200, ListCodes)

\* DeleteJetStream for each of the ids, whatever becomes of the others.
BatchDeleteJetStreams ==
  [Endpoint(<<Check(400), Each("stream"), Each("other_stream")>>, 200, QueryCodes)
    EXCEPT !.partly = 206]

ValidateJetStreamName == Endpoint(<<Check(400), Query(500)>>, 200, QueryCodes)

-----------------------------------------------------------------------------
(* Consumers.  Their stream records are not asked for: the request panics.  *)

CreateConsumer ==
  Endpoint(<<Check(400), Find("stream", 500, 500), Find("user", 500, 500), Query(500),
             Rule(500), Unique("consumer", 500), Insert("consumer", 500),
             Spawn("creation")>>,
           201, {201, 400, 500})

ListConsumers == Endpoint(<<Check(400), Query(500)>>, 200, QueryCodes)

\* Statistics of the cluster are added if it gives some; the service has turned
\* a missing consumer into an error.
GetConsumer ==
  Endpoint(<<Find("consumer", 500, 500), Find("stream", 500, 0)>>, 200, ReadCodes)

\* The new configuration is checked against the consumer's mode.  If its stream
\* cannot be read there is no update of the cluster, and no error.
UpdateConsumer ==
  Endpoint(<<Check(400), Find("consumer", 500, 500), Check(400), Save("saved", 500),
             Try("update")>>,
           200, Usual)

DeleteConsumer ==
  Endpoint(<<Find("consumer", 500, 500), Remove("consumer", 500)>>,
           204, {204, 404, 500})

StreamOfConsumer == <<Find("consumer", 500, 500), Find("stream", 500, 500)>>

RetryConsumerSync ==
  Endpoint(<<Find("consumer", 500, 500), Rule(500), Find("stream", 500, 500)>>
             \o GetConnectionWithUser(500, 500)
             \o <<Save("reset", 500), Spawn("synchronisation")>>,
           200, QueryCodes)

\* A request that cannot be parsed pauses the consumer for a day.
PauseConsumer ==
  Endpoint(StreamOfConsumer \o GetConnectionWithUser(500, 500)
             \o <<Tell("paused", 500), Save("saved", 500)>>,
           200, QueryCodes)

ResumeConsumer ==
  Endpoint(StreamOfConsumer \o GetConnectionWithUser(500, 500)
             \o <<Tell("resumed", 500), Save("saved", 500)>>,
           200, ListCodes)

GetConsumerStats == Endpoint(<<Query(500)>>, 200, ListCodes)

CompareConsumerConfig ==
  Endpoint(<<Find("consumer", 404, 500), Find("stream", 500, 500)>>
             \o GetConnectionWithUser(500, 500)
             \o <<Find("consumer_on_cluster", 500, 500)>>,
           200, ReadCodes)

-----------------------------------------------------------------------------
\* The routes: endpoints that work alike are the same script.
Endpoints == {
  CreateCluster, ListClusters, GetCluster, UpdateCluster, EnableCluster,
  DisableCluster, TestClusterConnection, GetClusterHealthRecords,
  GetClusterMonitoringDashboard, TriggerManualHealthCheck, GetClusterTopology,
  GetClusterNodeCount, ListClusterServers, GetAccountJetStreamListDetection,
  GetAccountStreamNames, GetClusterJetStreamStreamDetail,
  DeleteClusterJetStreamStream, GetStreamConsumerList, GetStreamConsumerInfo,
  DeleteClusterJetStreamConsumer,
  CreateAccount, GetAccount, UpdateAccount, ListAccounts, DisableAccount,
  EnableAccount, GetAccountJWT, AddAccountExport, AddAccountImport,
  RemoveAccountExport, RemoveAccountImport, CreateAccountAssociation,
  DeleteAccount, ManualSyncAccountJWT, GetAccountUserCount, GetAccountJWTTaskCount,
  CreateUser, GetUser, UpdateUser, ListUsers, GetAllUsers,
  ListAdminUsersFromNonSystemAccounts, DisableUser, EnableUser, GetUserJWT,
  GetUserCreds, DownloadUserCreds, DeleteUser, CopyUserContext,
  GetJWTTask, ListJWTTasks, ListFailedJWTTasks, RetryJWTTask, GetJWTTaskStats,
  CreateJetStream, ListJetStreams, GetJetStream, UpdateJetStream, DeleteJetStream,
  CompareJetStreamConfig, GetJetStreamStats, RetryJetStreamCreation,
  GetJetStreamsByUser, BatchDeleteJetStreams, ValidateJetStreamName,
  CreateConsumer, ListConsumers, GetConsumer, UpdateConsumer, DeleteConsumer,
  RetryConsumerSync, PauseConsumer, ResumeConsumer, GetConsumerStats,
  CompareConsumerConfig }
=============================================================================
