----------------------------- MODULE LocalFile -----------------------------
(***************************************************************************)
(* A local file played at the other end: CastLocalFileChannelServer at the *)
(* source, which reads it, CastLocalFileChannelClient and LocalDataSource  *)
(* with its caches at the sink, and the STREAM channel between them, all   *)
(* in service/src/session/src/stream/src/local/.                           *)
(*                                                                         *)
(* Threads: a binder thread for each Load of the source, the receiving     *)
(* thread of the channel at each end, the worker of the sink that sets the *)
(* source, and the media player's thread that reads from it.  A step is    *)
(* what one of them does under one mutex, or one system call.              *)
(*                                                                         *)
(* The unit of length is arbitrary; what counts is how FirstRequest <=     *)
(* MaxRead <= SingleRequest and WaterLine <= Capacity compare.  A file is  *)
(* named by the Load that brings it; other Loads are of a remote url.      *)
(* External: the media player, which asks again for what it did not get,   *)
(* and ends its reads of a source before it takes another; and the         *)
(* channel, whose ends learn of its opening and its closing each in its    *)
(* own time; what more than one of them does to an engine is in Channels.  *)
(***************************************************************************)
EXTENDS Integers, FiniteSets, Sequences

CONSTANTS
  Length,         \* of each file: its domain are the Loads of local files
  FirstRequest,   \* FIRST_REQUEST_SIZE: what an empty cache asks for
  SingleRequest,  \* SINGLE_REQUEST_MAX_SIZE
  MaxRead,        \* MAX_READ_LEN: what one answer holds at most
  WaterLine,      \* PAUSE_REQUEST_WATER_LINE
  Capacity,       \* MAX_BUFFER_SIZE
  MaxCaches,      \* MAX_CACHE_COUNT
  ReadSize,       \* how much the media player asks for
  MaxLoads,       \* bound: calls of Load
  MaxPending,     \* bound: Loads under way and items the sink has yet to take
  MaxFds,         \* bound: descriptors, never reached when not below MaxLoads
  SeekTo,         \* bound: where the media player may jump to
  MaxSeeks,       \* bound: its jumps
  MaxLate,        \* bound: under way at once when a request counts as late
  None            \* no file, no item

ASSUME LocalFileAssumption ==
  /\ Length \in [DOMAIN Length -> Nat \ {0}] /\ DOMAIN Length \subseteq 1 .. MaxLoads
  /\ {ReadSize, MaxCaches, FirstRequest, MaxRead} \subseteq Nat \ {0}
  /\ {SingleRequest, WaterLine, Capacity} \subseteq Nat
  /\ FirstRequest <= MaxRead /\ MaxRead <= SingleRequest
  /\ SingleRequest <= Capacity /\ WaterLine <= Capacity
  /\ MaxCaches > 1
  /\ {MaxLoads, MaxPending, MaxFds, MaxSeeks, MaxLate} \subseteq Nat
  /\ SeekTo \subseteq Nat
  /\ None \notin Nat

VARIABLES
  open,      \* the descriptors of the source: which file, and its offset
  fileMap,   \* fileMap_: under a descriptor's number, the file whose length was taken
  load,      \* what each Load is at, and the descriptor it brought
  serve,     \* what the source's receiving thread is at
  link,      \* the channel between the ends
  channel,   \* whether channel_ of each end is set
  news,      \* what an end has yet to learn of it
  requests,  \* on their way to the source
  answers,   \* on their way to the sink
  commands,  \* items on their way to the sink's worker
  item,      \* what dataSource_ is for
  listening, \* whether dataSource_ is in dataListeners_
  caches,    \* lruCache_
  recency,   \* their indices, the longest unused first
  reader,    \* the media player's thread
  seeks,     \* how often it jumped
  given,     \* history: the files each descriptor number was given to
  crossed    \* history: a descriptor was given to another file while the
             \* receiving thread was about to read it

sourceVars == <<open, fileMap, load, serve, given, crossed>>
linkVars == <<link, channel, news>>
sinkVars == <<item, listening, caches, recency, reader, seeks>>
vars == <<sourceVars, linkVars, sinkVars, requests, answers, commands>>

Loads == 1 .. MaxLoads
Fds == 1 .. MaxFds
Ends == {"source", "sink"}
Files == DOMAIN Length
Positions == {0} \cup UNION {0 .. Length[f] : f \in Files}

Lesser(a, b) == IF a < b THEN a ELSE b

\* The receiving thread is about to read what has this descriptor.
IsToRead(fd) == serve.at \in {"seek", "read"} /\ serve.id = fd

-----------------------------------------------------------------------------
(* The source: Load, on as many threads as call it.  No lock is held from  *)
(* one step to the next.                                                   *)

Pending ==
  Cardinality({l \in Loads : load[l].at \notin {"none", "done"}}) + Len(commands)

\* Bound: Loads begin in order, and one while a file is played.
Begins(l) ==
  /\ load[l].at = "none"
  /\ \A k \in 1 .. l - 1 : load[k].at # "none"
  /\ Pending < (IF item = None THEN MaxPending ELSE 1)

\* The parcel's descriptor is duplicated before Load runs; its number is the url.
ReadMediaInfo(l) ==
  /\ Begins(l)
  /\ l \in Files
  /\ \E fd \in Fds :
       /\ open[fd].file = None
       /\ \A lower \in 1 .. fd - 1 : open[lower].file # None
       /\ open' = [open EXCEPT ![fd] = [file |-> l, offset |-> 0]]
       /\ load' = [load EXCEPT ![l] = [at |-> "clear", fd |-> fd]]
       /\ given' = [given EXCEPT ![fd] = @ \cup {l}]
       /\ crossed' = (crossed \/ IsToRead(fd))
  /\ UNCHANGED <<fileMap, serve, linkVars, sinkVars, requests, answers, commands>>

ReadUrl(l) ==
  /\ Begins(l)
  /\ l \notin Files
  /\ load' = [load EXCEPT ![l].at = "clear"]
  /\ UNCHANGED <<open, fileMap, serve, given, crossed, linkVars, sinkVars,
                 requests, answers, commands>>

Closed == [file |-> None, offset |-> 0]

NoEntry == [fd \in Fds |-> None]

\* mutant
ClearClosesNothing == open

CloseMapped == [fd \in Fds |-> IF fileMap[fd] # None THEN Closed ELSE open[fd]]

ClearAllLocalFileInfo(l) ==
  /\ load[l].at = "clear"
  /\ open' = CloseMapped
  /\ fileMap' = NoEntry
  /\ load' = [load EXCEPT ![l].at = IF l \in Files THEN "add" ELSE "notify"]
  /\ UNCHANGED <<serve, given, crossed, linkVars, sinkVars, requests, answers, commands>>

\* Finding the length leaves the offset at the end.
AddLocalFileInfo(l) ==
  /\ load[l].at = "add"
  /\ open' = [open EXCEPT ![load[l].fd].offset = Length[l]]
  /\ fileMap' = [fileMap EXCEPT ![load[l].fd] = IF @ = None THEN l ELSE @]
  /\ load' = [load EXCEPT ![l].at = "notify"]
  /\ UNCHANGED <<serve, given, crossed, linkVars, sinkVars, requests, answers, commands>>

NotifyPeerLoad(l) ==
  /\ load[l].at = "notify"
  /\ commands' = Append(commands, IF l \in Files THEN [file |-> l, id |-> load[l].fd] ELSE None)
  /\ load' = [load EXCEPT ![l].at = "done"]
  /\ UNCHANGED <<open, fileMap, serve, given, crossed, linkVars, sinkVars, requests, answers>>

-----------------------------------------------------------------------------
(* The source: a request answered.  Nothing keeps the descriptor open, nor *)
(* its offset where the seek left it.                                      *)

Idle == [at |-> "idle"]

\* Without a channel the answer goes on to the end of the file.
AnswerEnd(request) ==
  LET length == Length[fileMap[request.id]]
      end == IF request.end <= 0 \/ ~channel["source"] THEN length ELSE request.end
  IN  Lesser(length, Lesser(end, request.start + MaxRead))

\* The map is looked into for the length and for the descriptor, with nothing
\* in between that another thread could see.
TakeRequest ==
  /\ serve.at = "idle"
  /\ requests # <<>>
  /\ LET request == Head(requests)
     IN  serve' = IF fileMap[request.id] # None /\ AnswerEnd(request) > request.start
                    THEN [at |-> "seek", id |-> request.id, start |-> request.start,
                          size |-> AnswerEnd(request) - request.start]
                    ELSE Idle
  /\ requests' = Tail(requests)
  /\ UNCHANGED <<open, fileMap, load, given, crossed, linkVars, sinkVars, answers, commands>>

Seek ==
  /\ serve.at = "seek"
  /\ IF open[serve.id].file = None
       THEN serve' = Idle /\ UNCHANGED open
       ELSE /\ serve' = [serve EXCEPT !.at = "read"]
            /\ open' = [open EXCEPT ![serve.id].offset = serve.start]
  /\ UNCHANGED <<fileMap, load, given, crossed, linkVars, sinkVars, requests, answers, commands>>

\* What a read does not fill stays zero, and is sent all the same.
Filled(file, from, total) ==
  [k \in 1 .. serve.size |-> IF k <= total THEN [file |-> file, pos |-> from + k - 1]
                             ELSE [file |-> None, pos |-> 0]]

ReadFileDataByFd ==
  LET file == open[serve.id].file
      from == open[serve.id].offset
      total == IF file = None THEN 0 ELSE Lesser(serve.size, Length[file] - from)
  IN  /\ serve.at = "read"
      /\ IF total <= 0
           THEN serve' = Idle /\ UNCHANGED open
           ELSE /\ serve' = [at |-> "send", id |-> serve.id, start |-> serve.start,
                             bytes |-> Filled(file, from, total)]
                /\ open' = [open EXCEPT ![serve.id].offset = @ + total]
      /\ UNCHANGED <<fileMap, load, given, crossed, linkVars, sinkVars, requests, answers, commands>>

\* What an end sends arrives when it has the channel and the channel carries.
Carried(e, messages, message) ==
  IF channel[e] /\ link = "up" THEN Append(messages, message) ELSE messages

SendData ==
  /\ serve.at = "send"
  /\ answers' = Carried("source", answers,
                        [id |-> serve.id, start |-> serve.start, bytes |-> serve.bytes])
  /\ serve' = Idle
  /\ UNCHANGED <<open, fileMap, load, given, crossed, linkVars, sinkVars, requests, commands>>

-----------------------------------------------------------------------------
(* The channel, created when the sink asks for it.  One in a behaviour.    *)

CreateStreamChannel ==
  /\ link = "asked"
  /\ link' = "up"
  /\ news' = [e \in Ends |-> {"opened"}]
  /\ UNCHANGED <<channel, sourceVars, sinkVars, requests, answers, commands>>

\* What was on its way is lost.
LinkBreaks ==
  /\ link = "up"
  /\ link' = "broken"
  /\ news' = [e \in Ends |-> news[e] \cup {"closed"}]
  /\ requests' = <<>>
  /\ answers' = <<>>
  /\ UNCHANGED <<channel, sourceVars, sinkVars, commands>>

AddChannel(e) ==
  /\ "opened" \in news[e]
  /\ news' = [news EXCEPT ![e] = @ \ {"opened"}]
  /\ channel' = [channel EXCEPT ![e] = TRUE]
  /\ UNCHANGED <<link, sourceVars, sinkVars, requests, answers, commands>>

RemoveChannel(e) ==
  /\ news[e] = {"closed"}
  /\ news' = [news EXCEPT ![e] = {}]
  /\ channel' = [channel EXCEPT ![e] = FALSE]
  /\ UNCHANGED <<link, sourceVars, sinkVars, requests, answers, commands>>

-----------------------------------------------------------------------------
(* The sink: a cache.                                                      *)

EndPos(c) == c.start + Len(c.bytes)

\* late: the request for what lies between the end and the next end was made
\* REQUEST_RETRY_TIME_INTERVAL_MS ago.
NewCache(pos) == [start |-> pos, curr |-> pos, bytes |-> <<>>, next |-> pos, late |-> FALSE]

Reset(c, pos) == NewCache(pos)

InRange(c, pos) == c.start <= pos /\ pos < c.next

\* Asked for already, or enough of it there.
NeedsNothing(c) == c.next # EndPos(c) \/ EndPos(c) - c.curr >= WaterLine

IsFull(c) == Capacity <= Len(c.bytes)

RequestEnd(c) ==
  EndPos(c) + (IF c.bytes = <<>> THEN FirstRequest
               ELSE Lesser(Capacity - Len(c.bytes), SingleRequest))

\* mutant
NeverExpired(c) == c

\* What was asked for long ago is to be asked for again.
Expired(c) == IF c.late THEN [c EXCEPT !.next = EndPos(c), !.late = FALSE] ELSE c

Requested(c) == [c EXCEPT !.next = RequestEnd(c), !.late = FALSE]

\* mutant
TakesWhatIsAhead(c, a) == a.start >= EndPos(c) /\ ~IsFull(c)

\* Write refuses what does not continue the cache and cuts off what has no room.
Takes(c, a) == a.start = EndPos(c) /\ ~IsFull(c)

Written(c, a) ==
  LET bytes == c.bytes \o SubSeq(a.bytes, 1, Lesser(Len(a.bytes), Capacity - Len(c.bytes)))
  IN  [c EXCEPT !.bytes = bytes, !.next = c.start + Len(bytes), !.late = FALSE]

-----------------------------------------------------------------------------
(* The sink: LocalDataSource.                                              *)

\* Stop of the old source, NotifyCreateChannel, Start of the new, if the item
\* is local: answers to the old are dropped either way.  WaitCreateChannel
\* gives up after ten seconds, so that reading may begin with or without a
\* channel.  Bound: a second channel is not asked for.
SetSource ==
  /\ commands # <<>>
  /\ reader.at = "idle"
  /\ item' = Head(commands)
  /\ item' = None \/ channel["sink"] \/ link = "none"
  /\ commands' = Tail(commands)
  /\ listening' = (item' # None)
  /\ caches' = <<>>
  /\ recency' = <<>>
  /\ reader' = [reader EXCEPT !.pos = 0]
  /\ link' = IF item' # None /\ link = "none" THEN "asked" ELSE link
  /\ UNCHANGED <<channel, news, sourceVars, seeks, requests, answers>>

\* On PLAYBACK_COMPLETE, be it of this item or, told late, of the one before.
NotifyPlayComplete ==
  /\ listening
  /\ reader.pos >= Length[item.file] \/ item.file # 1
  /\ listening' = FALSE
  /\ UNCHANGED <<item, caches, recency, reader, seeks, sourceVars, linkVars,
                 requests, answers, commands>>

\* The first cache that takes the bytes has them.
OnDataReceived ==
  /\ answers # <<>>
  /\ answers' = Tail(answers)
  /\ LET a == Head(answers)
         takers == {i \in DOMAIN caches : Takes(caches[i], a)}
         first == CHOOSE i \in takers : \A k \in takers : i <= k
     IN  caches' = IF listening /\ a.id = item.id /\ takers # {}
                     THEN [caches EXCEPT ![first] = Written(@, a)] ELSE caches
  /\ UNCHANGED <<item, listening, recency, reader, seeks, sourceVars, linkVars,
                 requests, commands>>

\* i is the last used now.
Touched(i) ==
  LET at == {k \in DOMAIN recency : recency[k] = i}
      k == CHOOSE k \in at : TRUE
      others == IF at = {} THEN recency
                ELSE SubSeq(recency, 1, k - 1) \o SubSeq(recency, k + 1, Len(recency))
  IN  Append(others, i)

MayGrow == Len(caches) < MaxCaches

Hits(pos) == {i \in DOMAIN caches : InRange(caches[i], pos)}

\* The cache pos is in or asked for in, or a new one, or the longest unused.
BestCache(pos) ==
  CASE Hits(pos) # {} -> CHOOSE i \in Hits(pos) : \A k \in Hits(pos) : i <= k
    [] Hits(pos) = {} /\ MayGrow -> Len(caches) + 1
    [] OTHER -> Head(recency)

GetBestCache(pos) ==
  LET i == BestCache(pos)
  IN  /\ recency' = Touched(i)
      /\ caches' = CASE Hits(pos) # {} -> caches
                     [] i > Len(caches) -> Append(caches, NewCache(pos))
                     [] OTHER -> [caches EXCEPT ![i] = Reset(@, pos)]

\* Where SolveReqData returns to: it runs before each read and after it.
Solved == [reader EXCEPT !.at = IF reader.stage = "before" THEN "read" ELSE "idle"]

\* ReadBuffer where the last read ended, or after a jump; beyond the end it
\* answers that there is no more.
ReadBuffer(pos) ==
  /\ item # None
  /\ reader.at = "idle"
  /\ pos = reader.pos \/ pos \in SeekTo
  /\ pos < Length[item.file]
  /\ seeks' = IF pos = reader.pos THEN seeks ELSE seeks + 1
  /\ seeks' <= MaxSeeks
  /\ GetBestCache(pos)
  /\ reader' = [reader EXCEPT !.at = "solve", !.stage = "before", !.pos = pos,
                              !.cache = BestCache(pos), !.asked = BestCache(pos)]
  /\ UNCHANGED <<item, listening, sourceVars, linkVars, requests, answers, commands>>

\* IsNeedReqData of the cache read from, and then, when it is full, of the
\* one that goes on where it ends.
IsNeedReqData ==
  LET i == reader.asked
      c == caches[i]
  IN  /\ reader.at = "solve"
      /\ CASE NeedsNothing(c) -> reader' = Solved /\ UNCHANGED caches
           [] ~NeedsNothing(c) /\ IsFull(c) ->
                /\ reader' = IF i = reader.cache THEN [reader EXCEPT !.at = "next"] ELSE Solved
                /\ UNCHANGED caches
           [] OTHER ->
                /\ reader' = [reader EXCEPT !.at = "request",
                                            !.range = <<EndPos(c), RequestEnd(c)>>]
                /\ caches' = [caches EXCEPT ![i] = Requested(c)]
      /\ UNCHANGED <<item, listening, recency, seeks, sourceVars, linkVars,
                     requests, answers, commands>>

NextCache ==
  /\ reader.at = "next"
  /\ LET pos == EndPos(caches[reader.cache])
     IN  /\ GetBestCache(pos)
         /\ reader' = [reader EXCEPT !.at = "solve", !.asked = BestCache(pos)]
  /\ UNCHANGED <<item, listening, seeks, sourceVars, linkVars, requests, answers, commands>>

\* Without a channel, or with one that broke, nobody learns of it.
RequestByteData ==
  /\ reader.at = "request"
  /\ requests' = Carried("sink", requests, [id |-> item.id, start |-> reader.range[1],
                                            end |-> reader.range[2]])
  /\ reader' = [Solved EXCEPT !.range = <<0, 0>>]
  /\ UNCHANGED <<item, listening, caches, recency, seeks, sourceVars, linkVars, answers, commands>>

\* What a read of n bytes leaves: none when the cache does not hold pos, which
\* the media player answers by asking again.
Returns(n) == [reader EXCEPT !.at = "solve", !.stage = "after", !.asked = reader.cache,
                             !.pos = @ + n]

Copies(c) ==
  /\ reader' = Returns(Lesser(ReadSize, EndPos(c) - reader.pos))
  /\ caches' = [caches EXCEPT ![reader.cache].curr = reader.pos]

Read ==
  LET c == caches[reader.cache]
  IN  /\ reader.at = "read"
      /\ IF ~InRange(c, reader.pos)
           THEN reader' = Returns(0) /\ UNCHANGED <<caches, recency>>
           ELSE /\ recency' = Touched(reader.cache)
                /\ IF reader.pos >= EndPos(c)
                     THEN reader' = [reader EXCEPT !.at = "wait"] /\ UNCHANGED caches
                     ELSE Copies(c)
      /\ UNCHANGED <<item, listening, seeks, sourceVars, linkVars, requests, answers, commands>>

\* Told of a write, or after WAIT_DATA_TIME_OUT_MS.
WaitEnds ==
  LET c == caches[reader.cache]
  IN  /\ reader.at = "wait"
      /\ IF reader.pos < EndPos(c) THEN Copies(c)
         ELSE /\ reader' = Returns(0)
              /\ caches' = [caches EXCEPT ![reader.cache] = Expired(@)]
      /\ UNCHANGED <<item, listening, recency, seeks, sourceVars, linkVars,
                     requests, answers, commands>>

UnderWay == Len(requests) + Len(answers) + (IF serve = Idle THEN 0 ELSE 1)

RequestIsLate(i) ==
  /\ i \in DOMAIN caches
  /\ UnderWay <= MaxLate
  /\ caches[i].next # EndPos(caches[i]) /\ ~caches[i].late
  /\ caches' = [caches EXCEPT ![i].late = TRUE]
  /\ UNCHANGED <<item, listening, recency, reader, seeks, sourceVars, linkVars,
                 requests, answers, commands>>

-----------------------------------------------------------------------------
Init ==
  /\ open = [fd \in Fds |-> Closed]
  /\ fileMap = NoEntry
  /\ load = [l \in Loads |-> [at |-> "none", fd |-> 0]]
  /\ serve = Idle
  /\ link = "none"
  /\ channel = [e \in Ends |-> FALSE]
  /\ news = [e \in Ends |-> {}]
  /\ requests = <<>>
  /\ answers = <<>>
  /\ commands = <<>>
  /\ item = None
  /\ listening = FALSE
  /\ caches = <<>>
  /\ recency = <<>>
  /\ reader = [at |-> "idle", stage |-> "before", pos |-> 0, cache |-> 0, asked |-> 0,
               range |-> <<0, 0>>]
  /\ seeks = 0
  /\ given = [fd \in Fds |-> {}]
  /\ crossed = FALSE

Loading == \E l \in Loads : \/ ReadMediaInfo(l) \/ ReadUrl(l) \/ ClearAllLocalFileInfo(l)
                            \/ AddLocalFileInfo(l) \/ NotifyPeerLoad(l)

Answering == TakeRequest \/ Seek \/ ReadFileDataByFd \/ SendData

Linking == \/ CreateStreamChannel \/ LinkBreaks
           \/ \E e \in Ends : AddChannel(e) \/ RemoveChannel(e)

Reading == \/ \E pos \in Positions : ReadBuffer(pos)
           \/ IsNeedReqData \/ NextCache \/ RequestByteData \/ Read \/ WaitEnds

Next ==
  \/ Loading
  \/ Answering \/ Linking \/ OnDataReceived
  \/ SetSource \/ NotifyPlayComplete \/ Reading
  \/ \E i \in 1 .. MaxCaches : RequestIsLate(i)

Spec == Init /\ [][Next]_vars

\* Requests and answers are dealt with where they arrive, the media player
\* asks again until it has all, and time passes.
FairSpec ==
  /\ Spec
  /\ WF_vars(Answering) /\ WF_vars(OnDataReceived) /\ WF_vars(Reading)
  /\ \A i \in 1 .. MaxCaches : WF_vars(RequestIsLate(i))

-----------------------------------------------------------------------------
(* Properties                                                              *)

Byte == [file : Files \cup {None}, pos : Positions]

TypeOK ==
  /\ open \in [Fds -> [file : Files \cup {None}, offset : Positions]]
  /\ fileMap \in [Fds -> Files \cup {None}]
  /\ load \in [Loads -> [at : {"none", "clear", "add", "notify", "done"}, fd : 0 .. MaxFds]]
  /\ serve.at \in {"idle", "seek", "read", "send"}
  /\ link \in {"none", "asked", "up", "broken"}
  /\ channel \in [Ends -> BOOLEAN]
  /\ news \in [Ends -> SUBSET {"opened", "closed"}]
  /\ listening \in BOOLEAN /\ crossed \in BOOLEAN
  /\ commands \in Seq([file : Files, id : Fds] \cup {None})
  /\ item \in [file : Files, id : Fds] \cup {None}
  /\ Len(caches) <= MaxCaches
  /\ \A i \in DOMAIN caches : caches[i].bytes \in Seq(Byte) /\ caches[i].late \in BOOLEAN
  /\ {recency[k] : k \in DOMAIN recency} = DOMAIN caches
  /\ reader.pos \in Positions
  /\ seeks \in 0 .. MaxSeeks
  /\ given \in [Fds -> SUBSET Files]

\* Every descriptor of a cast file is either in fileMap_ or with the one Load
\* that has yet to enter it: none is left open that nobody will close, and no
\* entry is of a closed one, however Loads overlap (
\* cast_local_file_channel_server.cpp:55-66, remote_player_controller.cpp:105).
FdsAreHeld ==
  \A fd \in Fds :
    (open[fd].file # None) <=>
      (fileMap[fd] # None \/ \E l \in Loads : load[l].at \in {"clear", "add"} /\ load[l].fd = fd)

\* A cache never holds, nor waits for, more than its buffer has room for,
\* whatever answers arrive late, twice or for a range it no longer has
\* (local_data_source.cpp:276-342).  And a byte in it is the file's at that very
\* position: of a file that had the number the item's url names.  With numbers
\* not given twice, that is the item's own file.  Where the descriptor was given
\* to another file under the thread that reads it, nothing is said of the bytes
\* (cast_local_file_channel_server.cpp:383-400).
CachedIsTheFiles ==
  \A i \in DOMAIN caches :
    LET c == caches[i]
    IN  /\ c.start <= c.curr /\ c.curr <= EndPos(c)
        /\ EndPos(c) <= c.next /\ c.next <= c.start + Capacity
        /\ ~crossed => \A k \in DOMAIN c.bytes :
             c.bytes[k].pos = c.start + k - 1 /\ c.bytes[k].file \in given[item.id]

\* What it takes for a request to be answered.
Served ==
  /\ item # None /\ listening
  /\ fileMap[item.id] # None
  /\ link = "up" /\ channel["source"] /\ channel["sink"]

\* An item whose descriptor stays entered at the source, while both ends hold
\* one channel that carries, is read to its end, whatever was lost before: a
\* request without an answer is made again (local_data_source.cpp:283-296).
ServedIsReadToTheEnd == <>[]Served => []<>(item # None /\ reader.pos = Length[item.file])
=============================================================================
