---------------------------- MODULE SendAnything ----------------------------
(***************************************************************************)
(* Transfers of kanbans and their files between the send-anything servers  *)
(* of two devices: the client end (sendToOtherDeviceClient), the grpc      *)
(* stream, and the handlers of the receiving server (SendToOtherDevices),  *)
(* which run concurrently, write to one disk and hand every kanban over to *)
(* the service broker through one channel.                                 *)
(*                                                                         *)
(* A path is a sequence of names below the data directory, so that         *)
(* filepath.Join is concatenation and "." is the empty sequence.           *)
(***************************************************************************)
EXTENDS Integers, Sequences, SequencesExt, Functions

CONSTANTS
  Transfer,    \* the calls of SendToOtherDevices
  Item,        \* the entries of file lists
  File,        \* the files below them
  FileLists,   \* what the kanbans may list: functions from Transfer to sequences of items
  MsDataPath,  \* MsDataPath[t]: the data path of the next service
  Kind,        \* Kind[i]: "file", "dir", or "special" (neither of the two)
  DirName,     \* DirName[i]: the base name of a directory
  Files,       \* Files[i]: its files, in the order of filepath.Walk
  RelDir,      \* RelDir[f]: the path from the directory sent to the file's
  Name,        \* Name[f]: the file's base name
  ChunkCnt,    \* ChunkCnt[f]: the chunks that GetChunk returns before io.EOF
  MaxWire      \* bound: messages in flight on one stream

ASSUME ListAssumption ==
  /\ \A l \in FileLists : l \in [Transfer -> Seq(Item)]
  /\ Kind \in [Item -> {"file", "dir", "special"}]
  /\ Files \in [Item -> Seq(File)]
  /\ ChunkCnt \in [File -> Nat]
  /\ \A i \in Item : Kind[i] = "file" => Len(Files[i]) = 1
  /\ \A i \in Item : Kind[i] = "special" => Files[i] = <<>>

ASSUME PathAssumption ==
  /\ MsDataPath \in [Transfer -> Seq(STRING) \ {<<>>}]
  /\ DirName \in [Item -> STRING]
  /\ RelDir \in [File -> Seq(STRING)]
  /\ Name \in [File -> STRING]

ASSUME WireAssumption == MaxWire \in Nat \ {0}

VARIABLES
  fileList,    \* fileList[t]: the fileList of t's kanban
  \* client
  spc,         \* spc[t]: "sending", "closing" (at CloseAndRecv) or "done"
  todo,        \* the messages it has not sent yet
  \* stream
  wire,        \* the messages in flight
  broken,      \* the stream has failed
  \* handler
  rpc,         \* "kanban", "top", "dir", "file" (at a Recv), "write", "check",
               \* "handover" (at sendToServiceBrokerCh <-), "answer" or "done"
  rdir,        \* the directory being received, or NoItem
  rfile,       \* the file being received
  rbuf,        \* expectRefNum: its chunks received
  rgood,       \* whether those chunks are what was hashed
  rdirCnt,     \* files received in the directory
  lists,       \* outputItemInfo: paths of the dirs and of the files received
  cnt,         \* ReceivedFileCnt, without the current directory
  result,      \* "none", "ok" or "failed"
  \* disk
  dirs,        \* the directories that exist
  disk,        \* what was written to each file since it was truncated
  linked,      \* the file that the handler has open is still at its path
  \* service broker
  brokerCh,    \* sendToServiceBrokerCh, capacity 1
  handed,      \* history: how often t's kanban was put into it
  fault        \* history: the client, the stream or the receiver's file system has failed

clientVars == <<fileList, spc, todo>>
recvVars == <<rdir, rfile, rbuf, rgood, rdirCnt, lists, cnt>>
diskVars == <<dirs, disk, linked>>
vars == <<clientVars, wire, broken, rpc, recvVars, result, diskVars, brokerCh, handed, fault>>

NoItem == "no item"
NoFile == "no file"
Garbage == "garbage"

ASSUME NoneAssumption == NoItem \notin Item /\ {NoFile, Garbage} \cap File = {}

-----------------------------------------------------------------------------
(* What the client sends *)

Msg(code, arg) == [code |-> code, arg |-> arg]

\* sendFile: the file's info, its chunks with their numbers, the end.
FileMessages(f) ==
  <<Msg("fileInfo", f)>> \o [n \in 1..ChunkCnt[f] |-> Msg("cont", n - 1)] \o <<Msg("eof", f)>>

MessagesOf(files) == FlattenSeq([n \in 1..Len(files) |-> FileMessages(files[n])])

\* sendAnything, one entry: what is neither a file nor a directory is skipped.
ItemMessages(i) ==
  CASE Kind[i] = "file"    -> MessagesOf(Files[i])
    [] Kind[i] = "dir"     -> <<Msg("dirInfo", i)>> \o MessagesOf(Files[i]) \o <<Msg("endDir", i)>>
    [] Kind[i] = "special" -> <<>>

ListMessages(list) == FlattenSeq([n \in 1..Len(list) |-> ItemMessages(list[n])])

\* sentFileCnt
SentFileCnt(list) == Len(FlattenSeq([n \in 1..Len(list) |-> Files[list[n]]]))

Messages(t) ==
  <<Msg("kanban", t)>> \o ListMessages(fileList[t]) \o <<Msg("eos", SentFileCnt(fileList[t]))>>

\* The server has ended the call or the stream is broken: every retry of
\* Send fails, and so do the sends that would follow.
SendFails(t) == broken[t] \/ rpc[t] = "done"

-----------------------------------------------------------------------------
(* Client: sendToOtherDeviceClient *)

Send(t) ==
  /\ spc[t] = "sending"
  /\ ~SendFails(t)
  /\ Len(wire[t]) < MaxWire
  /\ wire' = [wire EXCEPT ![t] = Append(@, Head(todo[t]))]
  /\ todo' = [todo EXCEPT ![t] = Tail(@)]
  /\ spc' = [spc EXCEPT ![t] = IF Len(todo[t]) = 1 THEN "closing" ELSE @]
  /\ UNCHANGED <<fileList, broken, rpc, recvVars, result, diskVars, brokerCh, handed, fault>>

SendGivesUp(t) ==
  /\ spc[t] = "sending"
  /\ SendFails(t)
  /\ todo' = [todo EXCEPT ![t] = <<>>]
  /\ spc' = [spc EXCEPT ![t] = "closing"]
  /\ UNCHANGED <<fileList, wire, broken, rpc, recvVars, result, diskVars, brokerCh, handed, fault>>

\* Stat, open or read of a file fails: the server is notified, the deferred
\* sendEOS follows with the count -1.
ReadFails(t) ==
  /\ spc[t] = "sending"
  /\ Head(todo[t]).code \notin {"kanban", "failed", "eos"}
  /\ todo' = [todo EXCEPT ![t] = <<Msg("failed", t), Msg("eos", -1)>>]
  /\ fault' = [fault EXCEPT ![t] = TRUE]
  /\ UNCHANGED <<fileList, spc, wire, broken, rpc, recvVars, result, diskVars, brokerCh, handed>>

\* A file is changed after its hash was taken: the chunk is not what was hashed.
FileChanges(t) ==
  /\ spc[t] = "sending"
  /\ Head(todo[t]).code = "cont"
  /\ todo' = [todo EXCEPT ![t] = <<[Head(@) EXCEPT !.code = "changed"]>> \o Tail(@)]
  /\ fault' = [fault EXCEPT ![t] = TRUE]
  /\ UNCHANGED <<fileList, spc, wire, broken, rpc, recvVars, result, diskVars, brokerCh, handed>>

\* CloseAndRecv returns with the answer or with an error.
CloseAndRecv(t) ==
  /\ spc[t] = "closing"
  /\ SendFails(t)
  /\ spc' = [spc EXCEPT ![t] = "done"]
  /\ UNCHANGED <<fileList, todo, wire, broken, rpc, recvVars, result, diskVars, brokerCh, handed, fault>>

\* The stream breaks; of what is in flight a part may still be received.
StreamBreaks(t) ==
  /\ ~broken[t]
  /\ rpc[t] # "done"
  /\ broken' = [broken EXCEPT ![t] = TRUE]
  /\ \E n \in 0..Len(wire[t]) : wire' = [wire EXCEPT ![t] = SubSeq(@, 1, n)]
  /\ fault' = [fault EXCEPT ![t] = TRUE]
  /\ UNCHANGED <<clientVars, rpc, recvVars, result, diskVars, brokerCh, handed>>

-----------------------------------------------------------------------------
(* Handler: SendToOtherDevices *)

\* stream.Recv returns a message with one of these codes.
Recv(t, codes) ==
  /\ wire[t] # <<>>
  /\ Head(wire[t]).code \in codes
  /\ wire' = [wire EXCEPT ![t] = Tail(@)]

\* stream.Recv returns an error.
RecvError(t) == wire[t] = <<>> /\ (broken[t] \/ spc[t] # "sending")

Finish(t, r) ==
  /\ result' = [result EXCEPT ![t] = r]
  /\ rpc' = [rpc EXCEPT ![t] = "handover"]

\* An error before the kanban is there: nothing is handed over.
NoKanban(t) ==
  /\ rpc[t] = "kanban"
  /\ RecvError(t)
  /\ result' = [result EXCEPT ![t] = "failed"]
  /\ rpc' = [rpc EXCEPT ![t] = "answer"]
  /\ UNCHANGED <<clientVars, wire, broken, recvVars, diskVars, brokerCh, handed, fault>>

\* receiveSendingKanban, with the directory of the next service, which it may
\* fail to create: that is only logged, and MkdirAll tries again for each file.
ReceiveSendingKanban(t) ==
  /\ rpc[t] = "kanban"
  /\ Recv(t, {"kanban"})
  /\ dirs' \in {dirs, dirs \cup {MsDataPath[t]}}
  /\ rpc' = [rpc EXCEPT ![t] = "top"]
  /\ UNCHANGED <<clientVars, broken, recvVars, result, disk, linked, brokerCh, handed, fault>>

\* receiveFileInfo, of a single file or in a directory.
ReceiveFileInfo(t) ==
  /\ rpc[t] \in {"top", "dir"}
  /\ Recv(t, {"fileInfo"})
  /\ rfile' = [rfile EXCEPT ![t] = Head(wire[t]).arg]
  /\ rbuf' = [rbuf EXCEPT ![t] = 0]
  /\ rgood' = [rgood EXCEPT ![t] = TRUE]
  /\ rpc' = [rpc EXCEPT ![t] = "file"]
  /\ UNCHANGED <<clientVars, broken, rdir, rdirCnt, lists, cnt, result, diskVars, brokerCh,
                 handed, fault>>

ReceiveDirInfo(t) ==
  /\ rpc[t] = "top"
  /\ Recv(t, {"dirInfo"})
  /\ rdir' = [rdir EXCEPT ![t] = Head(wire[t]).arg]
  /\ rdirCnt' = [rdirCnt EXCEPT ![t] = 0]
  /\ rpc' = [rpc EXCEPT ![t] = "dir"]
  /\ UNCHANGED <<clientVars, broken, rfile, rbuf, rgood, lists, cnt, result, diskVars, brokerCh,
                 handed, fault>>

\* Mutant: expectRefNum is not counted up.
FileContUncounted(t) ==
  /\ rpc[t] = "file"
  /\ Recv(t, {"cont", "changed"})
  /\ IF Head(wire[t]).arg = rbuf[t]
       THEN /\ rgood' = [rgood EXCEPT ![t] = @ /\ Head(wire[t]).code = "cont"]
            /\ UNCHANGED <<rbuf, rpc, result>>
       ELSE Finish(t, "failed") /\ UNCHANGED <<rbuf, rgood>>
  /\ UNCHANGED <<clientVars, broken, rdir, rfile, rdirCnt, lists, cnt, diskVars, brokerCh,
                 handed, fault>>

\* receiveFileCont: the chunk must be the next one.
ReceiveFileCont(t) ==
  /\ rpc[t] = "file"
  /\ Recv(t, {"cont", "changed"})
  /\ IF Head(wire[t]).arg = rbuf[t]
       THEN /\ rbuf' = [rbuf EXCEPT ![t] = @ + 1]
            /\ rgood' = [rgood EXCEPT ![t] = @ /\ Head(wire[t]).code = "cont"]
            /\ UNCHANGED <<rpc, result>>
       ELSE Finish(t, "failed") /\ UNCHANGED <<rbuf, rgood>>
  /\ UNCHANGED <<clientVars, broken, rdir, rfile, rdirCnt, lists, cnt, diskVars, brokerCh,
                 handed, fault>>

\* Where the current file goes: outputDirPath, outputDir, the path that dequeue
\* creates (relPath begins with RelDir once more) and the one that is checked.
OutputDirPath(t) ==
  IF rdir[t] = NoItem THEN MsDataPath[t] ELSE Append(MsDataPath[t], DirName[rdir[t]])
OutputDir(t) == OutputDirPath(t) \o RelDir[rfile[t]]
DequeuePath(t) == OutputDir(t) \o Append(RelDir[rfile[t]], Name[rfile[t]])
FilePath(t) == Append(OutputDir(t), Name[rfile[t]])

\* What MkdirAll creates if it fails at, or after, the n-th directory.
MadeUpTo(t, n) == {SubSeq(OutputDir(t), 1, k) : k \in 1..n}

\* A file is where a directory is needed, or a directory where the file goes.
Clash(t) ==
  \/ DequeuePath(t) \in dirs
  \/ MadeUpTo(t, Len(OutputDir(t))) \cap DOMAIN disk # {}

\* receiveEOF up to os.Create, which fails if the directory is not there.
ReceiveEOF(t) ==
  /\ rpc[t] = "file"
  /\ Recv(t, {"eof"})
  /\ ~Clash(t)
  /\ dirs' = dirs \cup MadeUpTo(t, Len(OutputDir(t)))
  /\ \/ /\ Front(DequeuePath(t)) \in dirs'
        /\ disk' = [p \in DOMAIN disk \cup {DequeuePath(t)} |->
                      IF p = DequeuePath(t) THEN {} ELSE disk[p]]
        /\ linked' = [linked EXCEPT ![t] = TRUE]
        /\ rpc' = [rpc EXCEPT ![t] = "write"]
        /\ UNCHANGED result
     \/ /\ Front(DequeuePath(t)) \notin dirs'
        /\ Finish(t, "failed")
        /\ UNCHANGED <<disk, linked>>
  /\ UNCHANGED <<clientVars, broken, recvVars, brokerCh, handed, fault>>

\* MkdirAll (which is only logged) and with it os.Create fail, or os.Create
\* alone: in a Clash, without permission, on a full disk.
CreateFails(t) ==
  /\ rpc[t] = "file"
  /\ Recv(t, {"eof"})
  /\ \E n \in 0..Len(OutputDir(t)) :
       /\ MadeUpTo(t, n) \cap DOMAIN disk = {}
       /\ dirs' = dirs \cup MadeUpTo(t, n)
  /\ Finish(t, "failed")
  /\ fault' = [fault EXCEPT ![t] = TRUE]
  /\ UNCHANGED <<clientVars, broken, recvVars, disk, linked, brokerCh, handed>>

\* f.Write in dequeue; two handlers may have the same file open.
WriteFile(t) ==
  /\ rpc[t] = "write"
  /\ LET content == IF rgood[t] /\ rbuf[t] = ChunkCnt[rfile[t]] THEN rfile[t] ELSE Garbage IN
       disk' = IF linked[t] THEN [disk EXCEPT ![DequeuePath(t)] = @ \cup {content}] ELSE disk
  /\ rpc' = [rpc EXCEPT ![t] = "check"]
  /\ UNCHANGED <<clientVars, wire, broken, recvVars, result, dirs, linked, brokerCh, handed, fault>>

\* f.Write fails: nothing or a part of the content is in the file.
WriteFails(t) ==
  /\ rpc[t] = "write"
  /\ \/ linked[t] /\ disk' = [disk EXCEPT ![DequeuePath(t)] = @ \cup {Garbage}]
     \/ UNCHANGED disk
  /\ Finish(t, "failed")
  /\ fault' = [fault EXCEPT ![t] = TRUE]
  /\ UNCHANGED <<clientVars, wire, broken, recvVars, dirs, linked, brokerCh, handed>>

\* The file is complete: it is counted and the handler is back at its Recv.
FileDone(t) ==
  /\ IF rdir[t] = NoItem
       THEN /\ lists' = [lists EXCEPT ![t].files = Append(@, FilePath(t))]
            /\ cnt' = [cnt EXCEPT ![t] = @ + 1]
            /\ rpc' = [rpc EXCEPT ![t] = "top"]
            /\ UNCHANGED rdirCnt
       ELSE /\ rdirCnt' = [rdirCnt EXCEPT ![t] = @ + 1]
            /\ rpc' = [rpc EXCEPT ![t] = "dir"]
            /\ UNCHANGED <<lists, cnt>>
  /\ rfile' = [rfile EXCEPT ![t] = NoFile]
  /\ UNCHANGED <<rdir, rbuf, rgood>>

\* os.Remove, also of what another handler has confirmed, or has just created.
RemoveFile(t) ==
  /\ FilePath(t) \in DOMAIN disk
  /\ disk' = Restrict(disk, DOMAIN disk \ {FilePath(t)})
  /\ linked' = [u \in Transfer |->
                  linked[u] /\ ~(rpc[u] = "write" /\ DequeuePath(u) = FilePath(t))]

\* Mutant: the hash is not compared.
CheckNothing(t) ==
  /\ rpc[t] = "check"
  /\ IF FilePath(t) \in DOMAIN disk
       THEN FileDone(t) /\ UNCHANGED <<disk, linked, result>>
       ELSE Finish(t, "failed") /\ UNCHANGED <<recvVars, disk, linked>>
  /\ UNCHANGED <<clientVars, wire, broken, dirs, brokerCh, handed, fault>>

\* The end of receiveEOF: the file is read back, and removed if its hash is
\* not the one that was announced.
CheckFile(t) ==
  /\ rpc[t] = "check"
  /\ \/ /\ FilePath(t) \notin DOMAIN disk
        /\ Finish(t, "failed")
        /\ UNCHANGED <<recvVars, disk, linked>>
     \/ /\ FilePath(t) \in DOMAIN disk
        /\ disk[FilePath(t)] = {rfile[t]}
        /\ FileDone(t)
        /\ UNCHANGED <<disk, linked, result>>
     \/ /\ RemoveFile(t)
        /\ disk[FilePath(t)] # {rfile[t]}
        /\ Finish(t, "failed")
        /\ UNCHANGED recvVars
  /\ UNCHANGED <<clientVars, wire, broken, dirs, brokerCh, handed, fault>>

\* os.Open fails; or the read for the hash, which makes it a wrong one; or
\* os.Remove, whose error nobody looks at.
CheckFails(t) ==
  /\ rpc[t] = "check"
  /\ RemoveFile(t) \/ UNCHANGED <<disk, linked>>
  /\ Finish(t, "failed")
  /\ fault' = [fault EXCEPT ![t] = TRUE]
  /\ UNCHANGED <<clientVars, wire, broken, recvVars, dirs, brokerCh, handed>>

EndOfSendingDir(t) ==
  /\ rpc[t] = "dir"
  /\ Recv(t, {"endDir"})
  /\ lists' = [lists EXCEPT ![t].dirs = Append(@, OutputDirPath(t))]
  /\ cnt' = [cnt EXCEPT ![t] = @ + rdirCnt[t]]
  /\ rdir' = [rdir EXCEPT ![t] = NoItem]
  /\ rpc' = [rpc EXCEPT ![t] = "top"]
  /\ UNCHANGED <<clientVars, broken, rfile, rbuf, rgood, rdirCnt, result, diskVars, brokerCh,
                 handed, fault>>

\* receiveEOS compares the counts.
ReceiveEOS(t) ==
  /\ rpc[t] = "top"
  /\ Recv(t, {"eos"})
  /\ Finish(t, IF Head(wire[t]).arg = cnt[t] THEN "ok" ELSE "failed")
  /\ UNCHANGED <<clientVars, broken, recvVars, diskVars, brokerCh, handed, fault>>

\* Mutant: any other code ends the transfer.
OtherEnds(t) ==
  /\ rpc[t] = "top"
  /\ Recv(t, {"cont", "changed", "eof", "endDir", "failed", "kanban"})
  /\ Finish(t, "ok")
  /\ UNCHANGED <<clientVars, broken, recvVars, diskVars, brokerCh, handed, fault>>

\* Any other code ends it as well, well if there are as many entries as the
\* kanban lists.
ReceiveOther(t) ==
  /\ rpc[t] = "top"
  /\ Recv(t, {"cont", "changed", "eof", "endDir", "failed", "kanban"})
  /\ Finish(t, IF Len(lists[t].dirs) + Len(lists[t].files) = Len(fileList[t])
                 THEN "ok" ELSE "failed")
  /\ UNCHANGED <<clientVars, broken, recvVars, diskVars, brokerCh, handed, fault>>

\* Mutant: an error of Recv does not end the loop.
ReceiveOnlyFailsOnCode(t) ==
  /\ \/ rpc[t] = "dir" /\ Recv(t, {"kanban", "cont", "changed", "eof", "dirInfo", "failed", "eos"})
     \/ rpc[t] = "file" /\ Recv(t, {"kanban", "fileInfo", "dirInfo", "endDir", "failed", "eos"})
  /\ Finish(t, "failed")
  /\ UNCHANGED <<clientVars, broken, recvVars, diskVars, brokerCh, handed, fault>>

\* An error of Recv, or a code that does not belong into a directory or a file.
ReceiveFails(t) ==
  /\ \/ rpc[t] \in {"top", "dir", "file"} /\ RecvError(t) /\ UNCHANGED wire
     \/ rpc[t] = "dir" /\ Recv(t, {"kanban", "cont", "changed", "eof", "dirInfo", "failed", "eos"})
     \/ rpc[t] = "file" /\ Recv(t, {"kanban", "fileInfo", "dirInfo", "endDir", "failed", "eos"})
  /\ Finish(t, "failed")
  /\ UNCHANGED <<clientVars, broken, recvVars, diskVars, brokerCh, handed, fault>>

\* Mutant: only a complete transfer is handed over.
HandOverIfOK(t) ==
  /\ rpc[t] = "handover"
  /\ \/ /\ result[t] = "ok"
        /\ brokerCh = <<>>
        /\ brokerCh' = <<t>>
        /\ handed' = [handed EXCEPT ![t] = @ + 1]
     \/ result[t] # "ok" /\ UNCHANGED <<brokerCh, handed>>
  /\ rpc' = [rpc EXCEPT ![t] = "answer"]
  /\ UNCHANGED <<clientVars, wire, broken, recvVars, result, diskVars, fault>>

\* The deferred sendToServiceBrokerCh <- kContainer, whatever the result.
HandOver(t) ==
  /\ rpc[t] = "handover"
  /\ brokerCh = <<>>
  /\ brokerCh' = <<t>>
  /\ handed' = [handed EXCEPT ![t] = @ + 1]
  /\ rpc' = [rpc EXCEPT ![t] = "answer"]
  /\ UNCHANGED <<clientVars, wire, broken, recvVars, result, diskVars, fault>>

\* SendAndClose
Answer(t) ==
  /\ rpc[t] = "answer"
  /\ rpc' = [rpc EXCEPT ![t] = "done"]
  /\ UNCHANGED <<clientVars, wire, broken, recvVars, result, diskVars, brokerCh, handed, fault>>

\* ServiceBrokerConn takes the kanban while a service broker is connected.
BrokerTakes ==
  /\ brokerCh # <<>>
  /\ brokerCh' = <<>>
  /\ UNCHANGED <<clientVars, wire, broken, rpc, recvVars, result, diskVars, handed, fault>>

-----------------------------------------------------------------------------
Init ==
  /\ fileList \in FileLists
  /\ spc = [t \in Transfer |-> "sending"]
  /\ todo = [t \in Transfer |-> Messages(t)]
  /\ wire = [t \in Transfer |-> <<>>]
  /\ broken = [t \in Transfer |-> FALSE]
  /\ rpc = [t \in Transfer |-> "kanban"]
  /\ rdir = [t \in Transfer |-> NoItem]
  /\ rfile = [t \in Transfer |-> NoFile]
  /\ rbuf = [t \in Transfer |-> 0]
  /\ rgood = [t \in Transfer |-> TRUE]
  /\ rdirCnt = [t \in Transfer |-> 0]
  /\ lists = [t \in Transfer |-> [dirs |-> <<>>, files |-> <<>>]]
  /\ cnt = [t \in Transfer |-> 0]
  /\ result = [t \in Transfer |-> "none"]
  /\ dirs = {}
  /\ disk = [p \in {} |-> {}]
  /\ linked = [t \in Transfer |-> FALSE]
  /\ brokerCh = <<>>
  /\ handed = [t \in Transfer |-> 0]
  /\ fault = [t \in Transfer |-> FALSE]

Client(t) == Send(t) \/ SendGivesUp(t) \/ CloseAndRecv(t)

Handler(t) ==
  \/ NoKanban(t)
  \/ ReceiveSendingKanban(t)
  \/ ReceiveFileInfo(t)
  \/ ReceiveDirInfo(t)
  \/ ReceiveFileCont(t)
  \/ ReceiveEOF(t)
  \/ WriteFile(t)
  \/ CheckFile(t)
  \/ EndOfSendingDir(t)
  \/ ReceiveEOS(t)
  \/ ReceiveOther(t)
  \/ ReceiveFails(t)
  \/ HandOver(t)
  \/ Answer(t)

FileSystemFails(t) == CreateFails(t) \/ WriteFails(t) \/ CheckFails(t)

Faults(t) == ReadFails(t) \/ FileChanges(t) \/ StreamBreaks(t)

Next ==
  \/ \E t \in Transfer : Client(t) \/ Handler(t) \/ FileSystemFails(t) \/ Faults(t)
  \/ BrokerTakes

Spec == Init /\ [][Next]_vars

\* The two processes run, and a service broker is connected again and again.
FairSpec ==
  /\ Spec
  /\ \A t \in Transfer : WF_vars(Client(t)) /\ SF_vars(Handler(t) \/ FileSystemFails(t))
  /\ WF_vars(BrokerTakes)

-----------------------------------------------------------------------------
(* Properties *)

\* The types of both ends, of the stream and of the disk.
TypeOK ==
  /\ spc \in [Transfer -> {"sending", "closing", "done"}]
  /\ \A t \in Transfer : Len(wire[t]) <= MaxWire
  /\ broken \in [Transfer -> BOOLEAN]
  /\ rpc \in [Transfer -> {"kanban", "top", "dir", "file", "write", "check", "handover",
                           "answer", "done"}]
  /\ rdir \in [Transfer -> Item \cup {NoItem}]
  /\ rfile \in [Transfer -> File \cup {NoFile}]
  /\ rbuf \in [Transfer -> Nat]
  /\ rgood \in [Transfer -> BOOLEAN]
  /\ rdirCnt \in [Transfer -> Nat] /\ cnt \in [Transfer -> Nat]
  /\ result \in [Transfer -> {"none", "ok", "failed"}]
  /\ \A p \in DOMAIN disk : Front(p) \in dirs /\ disk[p] \subseteq File \cup {Garbage}
  /\ linked \in [Transfer -> BOOLEAN]
  /\ Len(brokerCh) <= 1
  /\ handed \in [Transfer -> Nat]
  /\ fault \in [Transfer -> BOOLEAN]

\* Where the files of an entry belong: RelParentPath/DirName/RelDir/name.
Base(t, i) == IF Kind[i] = "dir" THEN Append(MsDataPath[t], DirName[i]) ELSE MsDataPath[t]
Place(t, i, f) == Base(t, i) \o Append(RelDir[f], Name[f])

\* The files of a list, with the path that dequeue creates for each of them.
Landing(t, i, f) ==
  [file |-> f, place |-> Place(t, i, f), made |-> Base(t, i) \o RelDir[f] \o Append(RelDir[f], Name[f])]
LandingsOf(t, list) ==
  UNION {{Landing(t, i, f) : f \in Range(Files[i])} : i \in Range(list)}
Landings(t) == LandingsOf(t, fileList[t])

\* Neither another transfer nor another file of t is written to a place of t's.
Alone(t) ==
  \A q \in Landings(t), u \in Transfer : \A w \in Landings(u) :
    q.place \in {w.place, w.made} => u = t /\ w.file = q.file /\ w.place = q.place

\* No file lies deeper than directly in the directory that was sent.
Flat(t) == \A q \in Landings(t) : RelDir[q.file] = <<>>

\* What the new list of a kanban names for the entries of the sender's.
DirPaths(t, list) ==
  FlattenSeq([n \in 1..Len(list) |-> IF Kind[list[n]] = "dir" THEN <<Base(t, list[n])>> ELSE <<>>])
FilePaths(t, list) ==
  FlattenSeq([n \in 1..Len(list) |->
                IF Kind[list[n]] = "file" THEN <<Place(t, list[n], Files[list[n]][1])>> ELSE <<>>])

\* A transfer that is answered with OK has received every directory and every
\* file of the sender's list, and the kanban's new list names them, the
\* directories first.
OKIsComplete ==
  \A t \in Transfer : result[t] = "ok" =>
    /\ lists[t].dirs = DirPaths(t, fileList[t])
    /\ lists[t].files = FilePaths(t, fileList[t])
    /\ cnt[t] = SentFileCnt(fileList[t])

\* The files of a transfer that is answered with OK are on the disk, with the
\* content that was hashed, as long as no other file is written to their paths.
OKFilesStay ==
  \A t \in Transfer : result[t] = "ok" /\ Alone(t) =>
    \A q \in Landings(t) : q.place \in DOMAIN disk /\ disk[q.place] = {q.file}

\* status.proto, on FileInfo: a file that is sent is saved at RelDir/name below
\* its base directory.  After an OK it is there, other transfers or not.
OKFilesExist ==
  \A t \in Transfer : result[t] = "ok" => \A q \in Landings(t) : q.place \in DOMAIN disk

\* A transfer fails only if the client, the stream or the receiver's file system
\* did, if another file is written to one of its paths, or if one of its files
\* lies in a subdirectory: never by the order in which messages come, their
\* counts and the check of the hash alone.
FailsForAReason ==
  \A t \in Transfer : result[t] = "failed" => fault[t] \/ ~Alone(t) \/ ~Flat(t)

\* status.proto, on DirInfo: the files of a directory are saved at
\* RelParentPath/DirName/RelDir/name.  Without faults (of the file system
\* too) and other transfers nothing stands in the way.
DirectoriesArrive ==
  \A t \in Transfer : result[t] = "failed" => fault[t] \/ ~Alone(t)

\* A kanban that arrives is handed over to the service broker even if its
\* files do not arrive, so only a broken stream can lose it.
KanbanIsHandedOver ==
  \A t \in Transfer : <>(handed[t] = 1 \/ broken[t])

\* Every transfer ends: the client waits for the answer, the handler for the
\* service broker, but never one of them for the other.
TransferEnds ==
  \A t \in Transfer : <>[](spc[t] = "done" /\ rpc[t] = "done")
=============================================================================
