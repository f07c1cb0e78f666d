------------------------------ MODULE Download ------------------------------
(***************************************************************************)
(* How a client gets a file it lacks from the server it is connected to:   *)
(* over HTTP when the server names a place (cl_http.c), else, or after     *)
(* that failed, in chunks over the connection (cl_parse.c, cl_media.c,     *)
(* sv_client.c).  The file is written under a temporary name, which is     *)
(* resumed after an interruption, and renamed when it is complete.         *)
(*                                                                         *)
(* The connection delivers messages once and in order while it lasts, as   *)
(* ReliableChannel says.  A file is a sequence of bytes, numbered.         *)
(*                                                                         *)
(* The user neither starts a second download nor connects anew while one   *)
(* is running: a disconnect first, then.                                   *)
(***************************************************************************)
EXTENDS Integers, Sequences

CONSTANTS
  Sizes,            \* Lengths the file may have at the server,
  Chunk,            \* and of it a message takes (1024).
  MaxRefusal        \* Bound: length of what a web server sends with an error.

ASSUME DownloadAssumption ==
  /\ Sizes \subseteq Nat
  /\ \E n \in Sizes : \A m \in Sizes : m <= n
  /\ Chunk \in Nat \ {0}
  /\ MaxRefusal \in Nat

(* No such file, and what Fs_Load returns then.                             *)
Absent == <<-1>>
Missing == -1
(* cls.download.file when no file is open, otherwise the place in it.       *)
Closed == -1

VARIABLES
  size,             \* Of the file at the server, or Missing;
  sv_udp_download,  \* whether the server sends files;
  url,              \* whether it has a place for HTTP: they never change.
  connected,        \* The client is CL_CONNECTED or CL_ACTIVE.
  precache_check,   \* Whether the client is past the check for the file.
  file, http,       \* cls.download: the open file, and whether it is HTTP's.
  temp, final,      \* What is on disk under the two names.
  ready, status,    \* cl_http_state.
  buffer, count,    \* client->download at the server.
  up, down          \* Messages under way to the server and to the client.

world == <<size, sv_udp_download, url>>
curl == <<http, ready, status>>
server == <<buffer, count>>
stream == <<up, down>>
downloadVars ==
  <<world, connected, precache_check, file, temp, final, curl, server, stream>>

-----------------------------------------------------------------------------
MaxSize == CHOOSE n \in Sizes : \A m \in Sizes : m <= n
Bytes(n) == [i \in 1 .. n |-> i]
(* What comes with "not found".                                             *)
Refusal(n) == [i \in 1 .. n |-> 0]

(* File contents c with the bytes b written at offset pos.                  *)
Written(c, pos, b) ==
  SubSeq(c, 1, pos) \o b \o SubSeq(c, pos + Len(b) + 1, Len(c))

Request == [op : {"download"}, offset : 0 .. MaxSize] \union [op : {"nextdl"}]

DownloadTypeOK ==
  /\ size \in Sizes \union {Missing}
  /\ {sv_udp_download, url, connected, precache_check} \subseteq BOOLEAN
  /\ {http, ready, buffer} \subseteq BOOLEAN
  /\ file \in {Closed} \union 0 .. MaxSize
  /\ http => file /= Closed
  /\ {temp, final} \subseteq Seq(-1 .. MaxSize)
  /\ temp /= Absent => Len(temp) <= MaxSize + MaxRefusal
  /\ status \in {0, 200}
  /\ count \in 0 .. MaxSize /\ (buffer => count < size)
  /\ Len(up) + Len(down) <= 1
  /\ \A i \in DOMAIN up : up[i] \in Request

DownloadInit ==
  /\ size \in Sizes \union {Missing}
  /\ sv_udp_download \in BOOLEAN
  /\ url \in BOOLEAN
  /\ connected = FALSE /\ precache_check = FALSE
  /\ file = Closed /\ temp = Absent /\ final = Absent
  /\ http = FALSE /\ ready = TRUE /\ status = 0
  /\ buffer = FALSE /\ count = 0
  /\ up = <<>> /\ down = <<>>

-----------------------------------------------------------------------------
(* The server. *)

Least(m, n) == IF m < n THEN m ELSE n

(* Mutant of Percent: with the chunk itself. *)
PercentAfter(sent, len) ==
  ((sent + len) * 100) \div (IF size > 1 THEN size ELSE 1)
(* What the chunk of len bytes that follows sent ones is labelled with.     *)
Percent(sent, len) == (sent * 100) \div (IF size > 1 THEN size ELSE 1)

(* Mutant of ChunkLength: never cut. *)
WholeChunk(sent) == Chunk
ChunkLength(sent) == Least(size - sent, Chunk)

(* The next chunk after sent bytes, unless the server has no file open.     *)
NextDownload(open, sent) ==
  LET len == ChunkLength(sent) IN
  IF open
  THEN /\ down' = Append(down, [percent |-> Percent(sent, len),
                               data |-> [i \in 1 .. len |-> sent + i]])
       /\ count' = sent + len
       /\ buffer' = (sent + len /= size)
  ELSE /\ buffer' = FALSE
       /\ count' = sent
       /\ UNCHANGED down

Refused == [percent |-> 0, data |-> Absent]

(* The command download: Fs_Load opens nothing of an empty file.            *)
Sv_Download(offset) ==
  \/ /\ ~sv_udp_download
     /\ down' = Append(down, Refused)
     /\ UNCHANGED server
  \/ /\ sv_udp_download /\ size = Missing
     /\ down' = Append(down, Refused)
     /\ buffer' = FALSE /\ count' = 0
  \/ /\ sv_udp_download /\ size /= Missing
     /\ NextDownload(size > 0, Least(offset, size))

Sv_ReadPacket ==
  /\ up /= <<>>
  /\ up' = Tail(up)
  /\ IF Head(up).op = "download" THEN Sv_Download(Head(up).offset)
     ELSE NextDownload(buffer, count)
  /\ UNCHANGED <<world, connected, precache_check, file, temp, final, curl>>

-----------------------------------------------------------------------------
(* The client. *)

Ask(offset) == up' = Append(up, [op |-> "download", offset |-> offset])

(* Cl_HttpDownload: the temporary file is started anew.                     *)
HttpDownload ==
  /\ url /\ ready
  /\ temp' = <<>> /\ file' = 0
  /\ http' = TRUE /\ ready' = FALSE /\ status' = 0
  /\ UNCHANGED up

(* There is a temporary file: writing goes on at its last byte, while the   *)
(* server is asked to go on behind that.                                    *)
ResumeDownload ==
  /\ temp /= Absent /\ Len(temp) > 0
  /\ file' = Len(temp) - 1
  /\ Ask(Len(temp))
  /\ UNCHANGED <<temp, curl>>

(* There is none; an empty one is opened, but not to be resumed.            *)
StartDownload ==
  /\ temp \in {Absent, <<>>}
  /\ file' = IF temp = Absent THEN file ELSE 0
  /\ Ask(0)
  /\ UNCHANGED <<temp, curl>>

CheckOrDownloadFile ==
  \/ /\ final /= Absent
     /\ UNCHANGED <<file, temp, curl, up>>
  \/ /\ final = Absent
     /\ \/ HttpDownload
        \/ ~(url /\ ready) /\ (ResumeDownload \/ StartDownload)

(* The server's command to precache, once in a connection.  The client      *)
(* passes the check when it starts a download, too: at the end of that it   *)
(* loads the media and begins.                                              *)
RequestNextDownload ==
  /\ connected /\ ~precache_check
  /\ precache_check' = TRUE
  /\ CheckOrDownloadFile
  /\ UNCHANGED <<world, connected, final, server, down>>

(* The console command download.                                            *)
Download_f ==
  /\ connected /\ precache_check
  /\ file = Closed /\ up = <<>> /\ down = <<>>
  /\ CheckOrDownloadFile
  /\ UNCHANGED <<world, connected, precache_check, final, server, down>>

Done(percent) == percent = 100

(* Cl_ParseDownload, of a chunk or of a refusal.                            *)
ParseDownload ==
  /\ down /= <<>>
  /\ down' = Tail(down)
  /\ LET m == Head(down)
         pos == IF file = Closed THEN 0 ELSE file
         contents == Written(IF file = Closed THEN <<>> ELSE temp, pos, m.data)
     IN \/ /\ m = Refused
           /\ file' = Closed
           /\ UNCHANGED <<temp, final, up>>
        \/ /\ m /= Refused /\ ~Done(m.percent)
           /\ temp' = contents
           /\ file' = pos + Len(m.data)
           /\ up' = Append(up, [op |-> "nextdl"])
           /\ UNCHANGED final
        \/ /\ m /= Refused /\ Done(m.percent)
           /\ file' = Closed
           /\ final' = contents
           /\ temp' = Absent
           /\ UNCHANGED up
  /\ UNCHANGED <<world, connected, precache_check, curl, server>>

-----------------------------------------------------------------------------
(* HTTP *)

(* Cl_SendDisconnect: the server drops the client.                          *)
SendDisconnect ==
  /\ connected' = FALSE
  /\ precache_check' = FALSE
  /\ up' = <<>> /\ down' = <<>>
  /\ buffer' = FALSE /\ count' = 0

(* Cl_HttpDownload_Complete of a failed transfer.                           *)
HttpFailed ==
  /\ file' = Closed
  /\ http' = FALSE /\ ready' = TRUE
  /\ UNCHANGED status

(* Cl_HttpThink gets data: with the first the client leaves the server.     *)
HttpReceive ==
  /\ http /\ size /= Missing
  /\ \E n \in file .. size :
       /\ temp' = Written(temp, file, SubSeq(Bytes(size), file + 1, n))
       /\ file' = n
  /\ status' = 200
  /\ IF status = 0 THEN SendDisconnect
     ELSE UNCHANGED <<connected, precache_check, stream, server>>
  /\ UNCHANGED <<world, final, http, ready>>

(* It gets an error, with some text that is written as the file is, or none *)
(* at all; the client tries the connection, if that is still there.         *)
HttpError ==
  /\ http
  /\ \/ UNCHANGED temp
     \/ status = 0 /\ \E n \in 0 .. MaxRefusal : temp' = Refusal(n)
  /\ HttpFailed
  /\ IF connected THEN Ask(0) ELSE UNCHANGED up
  /\ UNCHANGED <<world, connected, precache_check, final, server, down>>

(* It has got all.  The name is cleared before the file is renamed to it:   *)
(* that fails, and the error ends the frame before ready is set again.      *)
HttpDone ==
  /\ http /\ status = 200 /\ file = size
  /\ file' = Closed /\ http' = FALSE
  /\ UNCHANGED <<world, connected, precache_check, temp, final, ready, status,
                 server, stream>>

-----------------------------------------------------------------------------
(* A connection, and with it new streams.  The server may still have the    *)
(* slot of the one before, with what was being sent then.                   *)
Connect ==
  /\ ~connected /\ ~http
  /\ connected' = TRUE
  /\ up' = <<>> /\ down' = <<>>
  /\ UNCHANGED <<world, precache_check, file, temp, final, curl, server>>

(* The client disconnects, is dropped, times out, or is told to reconnect.  *)
(* The server may not learn of it, and keep the slot.                       *)
Disconnect ==
  /\ connected
  /\ connected' = FALSE
  /\ precache_check' = FALSE
  /\ up' = <<>> /\ down' = <<>>
  /\ \/ UNCHANGED server
     \/ buffer' = FALSE /\ count' = 0
  /\ IF http THEN HttpFailed ELSE file' = Closed /\ UNCHANGED curl
  /\ UNCHANGED <<world, temp, final>>

(* The client program ends and is started again: what was written but not   *)
(* flushed to the temporary file is lost.  (That it then holds what it held *)
(* when it was opened is as if the program had ended before that.)          *)
Kill ==
  /\ connected' = FALSE
  /\ precache_check' = FALSE
  /\ up' = <<>> /\ down' = <<>>
  /\ \/ UNCHANGED server
     \/ buffer' = FALSE /\ count' = 0
  /\ IF file = Closed THEN UNCHANGED temp
     ELSE \E n \in 0 .. Len(temp) : temp' = SubSeq(temp, 1, n)
  /\ file' = Closed
  /\ http' = FALSE /\ ready' = TRUE /\ status' = 0
  /\ UNCHANGED <<world, final>>

(* A step, of whatever kind.                                                *)
DownloadNext ==
  \/ Connect \/ Disconnect \/ Kill
  \/ RequestNextDownload \/ Download_f
  \/ Sv_ReadPacket \/ ParseDownload
  \/ HttpReceive \/ HttpError \/ HttpDone

DownloadSpec == DownloadInit /\ [][DownloadNext]_downloadVars

(* While a connection lasts the server and the client read what arrives.  *)
DownloadFairness ==
  WF_downloadVars(Sv_ReadPacket) /\ WF_downloadVars(ParseDownload)

FairDownloadSpec == DownloadSpec /\ DownloadFairness

-----------------------------------------------------------------------------
(* Properties *)

(* Whatever gets under its proper name is the file the server has, however  *)
(* often the transfer was interrupted, by whichever way it was begun and    *)
(* whichever it was ended by: damage done by a resumed one stays under the  *)
(* temporary name.                                                          *)
FileWhole == final \in {Absent, Bytes(size)}

(* What cl_parse.c says: the file is renamed when done.  When the server    *)
(* has sent all of it, it gets its name, unless the connection ends first.  *)
RenamedWhenDone ==
  (connected /\ ~http /\ file /= Closed /\ count = size /\ ~buffer)
    ~> (final /= Absent \/ ~connected)
=============================================================================
