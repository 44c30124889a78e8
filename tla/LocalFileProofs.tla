--------------------------- MODULE LocalFileProofs ---------------------------
(***************************************************************************)
(* What is true of local files played at the other end for any files, any  *)
(* sizes of requests and caches, any number of Loads and descriptors: every *)
(* descriptor of the source is held by somebody who will close it, and the *)
(* caches of the sink stay within their bounds and hold the file's bytes.  *)
(*                                                                         *)
(* The bytes are followed from the descriptor to the cache.  As long as no *)
(* descriptor was given away under the thread that reads it, what was      *)
(* looked up in fileMap_ is what the descriptor still leads to when it is  *)
(* sought and read, or it leads to nothing.                                *)
(***************************************************************************)
EXTENDS LocalFile, WellFoundedInduction, TLAPS

(***************************************************************************)
(* Types.                                                                  *)
(***************************************************************************)
Item == [file : Files, id : Fds]
Request == [id : Fds, start : Nat, end : Nat]
Answer == [id : Fds, start : Nat, bytes : Seq(Byte)]
Task == {Idle} \cup [at : {"seek", "read"}, id : Fds, start : Nat, size : Nat \ {0}]
               \cup [at : {"send"}, id : Fds, start : Nat, bytes : Seq(Byte)]
Cache == [start : Nat, curr : Nat, bytes : Seq(Byte), next : Nat, late : BOOLEAN]
Reader ==
  [at : {"idle", "solve", "next", "request", "read", "wait"}, stage : {"before", "after"},
   pos : Positions, cache : Nat, asked : Nat, range : Nat \X Nat]

SourceOK ==
  /\ open \in [Fds -> [file : Files \cup {None}, offset : Positions]]
  /\ fileMap \in [Fds -> Files \cup {None}]
  /\ load \in [Loads -> [at : {"none", "clear", "add", "notify", "done"}, fd : 0 .. MaxFds]]
  /\ serve \in Task
  /\ given \in [Fds -> SUBSET Files]
  /\ crossed \in BOOLEAN

LinkOK ==
  /\ link \in {"none", "asked", "up", "broken"}
  /\ channel \in [Ends -> BOOLEAN]
  /\ news \in [Ends -> SUBSET {"opened", "closed"}]
  /\ requests \in Seq(Request)
  /\ answers \in Seq(Answer)
  /\ commands \in Seq(Item \cup {None})

SinkOK ==
  /\ item \in Item \cup {None}
  /\ listening \in BOOLEAN
  /\ caches \in Seq(Cache)
  /\ recency \in Seq(Nat)
  /\ reader \in Reader
  /\ seeks \in 0 .. MaxSeeks

RecencyOK ==
  /\ Len(caches) <= MaxCaches
  /\ {recency[k] : k \in DOMAIN recency} = DOMAIN caches

TypeInv == SourceOK /\ LinkOK /\ SinkOK /\ RecencyOK

(***************************************************************************)
(* Descriptors.                                                            *)
(***************************************************************************)
Holds(l, fd) == load[l].at \in {"clear", "add"} /\ load[l].fd = fd

LoadInv ==
  \A l \in Loads :
    /\ l \in Files /\ load[l].at # "none" => load[l].fd \in Fds
    /\ l \notin Files => load[l].fd = 0 /\ load[l].at # "add"

DescriptorInv ==
  \A fd \in Fds :
    /\ open[fd].file # None <=> fileMap[fd] # None \/ \E l \in Loads : Holds(l, fd)
    /\ fileMap[fd] # None => open[fd].file = fileMap[fd] /\ fileMap[fd] \in given[fd]
    /\ \A l \in Loads : Holds(l, fd) =>
         l \in Files /\ open[fd].file = l /\ fileMap[fd] = None /\ l \in given[fd]

(***************************************************************************)
(* Bytes.                                                                  *)
(***************************************************************************)
\* These are the bytes from start on of a file that had this descriptor.
Genuine(id, start, bytes) ==
  \A k \in DOMAIN bytes : bytes[k].pos = start + k - 1 /\ bytes[k].file \in given[id]

ServeInv ==
  /\ IsToRead(serve.id) =>
       /\ serve.start + serve.size \in Positions
       /\ ~crossed =>
            /\ \E f \in given[serve.id] :
                 /\ serve.start + serve.size <= Length[f]
                 /\ open[serve.id].file \in {None, f}
                 /\ serve.at = "read" /\ open[serve.id].file = f =>
                      open[serve.id].offset = serve.start
            /\ \A l \in Loads : ~Holds(l, serve.id)
  /\ serve.at = "send" =>
       /\ serve.start + Len(serve.bytes) \in Positions
       /\ ~crossed => Genuine(serve.id, serve.start, serve.bytes)

AnswerInv(a) ==
  /\ a.start + Len(a.bytes) \in Positions
  /\ ~crossed => Genuine(a.id, a.start, a.bytes)

CacheInv(c) ==
  /\ c.start <= c.curr /\ c.curr <= EndPos(c)
  /\ EndPos(c) <= c.next /\ c.next <= c.start + Capacity
  /\ EndPos(c) \in Positions
  /\ ~crossed => Genuine(item.id, c.start, c.bytes)

ReaderInv ==
  /\ caches # <<>> \/ reader.at # "idle" => item # None
  /\ reader.at # "idle" =>
       reader.cache \in DOMAIN caches /\ reader.asked \in DOMAIN caches
  /\ reader.at = "wait" => caches[reader.cache].start <= reader.pos

AnswersInv == \A k \in DOMAIN answers : AnswerInv(answers[k])
CachesInv == \A i \in DOMAIN caches : CacheInv(caches[i])

(***************************************************************************)
(* The inductive invariant.                                                *)
(***************************************************************************)
SourceInv == SourceOK /\ LoadInv /\ DescriptorInv /\ ServeInv
WireInv == LinkOK /\ AnswersInv
SinkInv == SinkOK /\ RecencyOK /\ CachesInv /\ ReaderInv
IInv == SourceInv /\ WireInv /\ SinkInv

(***************************************************************************)
(* Lengths and positions.                                                  *)
(***************************************************************************)
LEMMA LengthFacts ==
  \A f \in Files : f \in Loads /\ f # None /\ Length[f] \in Nat /\ Length[f] > 0
  BY LocalFileAssumption DEF Files, Loads

LEMMA BoundFacts ==
  /\ FirstRequest \in Nat /\ FirstRequest > 0 /\ SingleRequest \in Nat /\ SingleRequest > 0
  /\ MaxRead \in Nat /\ MaxRead > 0 /\ ReadSize \in Nat /\ ReadSize > 0
  /\ Capacity \in Nat /\ FirstRequest <= Capacity /\ SingleRequest <= Capacity
  /\ MaxCaches \in Nat /\ MaxCaches > 1 /\ MaxSeeks \in Nat /\ MaxLoads \in Nat /\ MaxFds \in Nat
  BY LocalFileAssumption

LEMMA NoneIsApart == \A n \in Nat : n # None
  BY LocalFileAssumption

LEMMA PositionFacts ==
  /\ 0 \in Positions /\ Positions \subseteq Nat
  /\ \A f \in Files, n \in Nat : n <= Length[f] => n \in Positions
  /\ \A p \in Positions, n \in Nat : n <= p => n \in Positions
  BY LengthFacts DEF Positions

LEMMA LesserFacts ==
  ASSUME NEW a \in Int, NEW b \in Int
  PROVE  /\ Lesser(a, b) \in Int /\ Lesser(a, b) <= a /\ Lesser(a, b) <= b
         /\ Lesser(a, b) \in {a, b}
  BY DEF Lesser

(***************************************************************************)
(* What a step leaves alone.                                               *)
(***************************************************************************)
\* The history only grows.
Later == (crossed => crossed') /\ \A fd \in Fds : given[fd] \subseteq given'[fd]

LEMMA NoHistory ==
  ASSUME UNCHANGED <<given, crossed>>
  PROVE  Later
  BY DEF Later

LEMMA GenuineLater ==
  ASSUME Later, NEW id \in Fds, NEW start, NEW bytes, ~crossed => Genuine(id, start, bytes)
  PROVE  ~crossed' => Genuine(id, start, bytes)'
  BY DEF Later, Genuine

LEMMA SinkStays ==
  ASSUME SinkInv, Later, UNCHANGED sinkVars
  PROVE  SinkInv'
  <1>1. SinkOK' /\ RecencyOK' /\ ReaderInv'
    BY DEF SinkInv, SinkOK, RecencyOK, ReaderInv, sinkVars
  <1>2. ASSUME NEW i \in DOMAIN caches
        PROVE  CacheInv(caches[i])'
    <2>1. CacheInv(caches[i]) /\ caches # <<>> /\ UNCHANGED <<item, caches>>
      BY <1>2 DEF SinkInv, CachesInv, SinkOK, sinkVars
    <2>2. item.id \in Fds
      BY <2>1 DEF SinkInv, ReaderInv, SinkOK, Item
    <2>3. ~crossed' => Genuine(item.id, caches[i].start, caches[i].bytes)'
      BY <2>1, <2>2, GenuineLater DEF CacheInv
    <2> QED
      BY <2>1, <2>3 DEF CacheInv, EndPos
  <1> QED
    BY <1>1, <1>2 DEF SinkInv, CachesInv, sinkVars

LEMMA AnswersStay ==
  ASSUME LinkOK, AnswersInv, Later, UNCHANGED answers
  PROVE  AnswersInv'
  <1>1. ASSUME NEW k \in DOMAIN answers
        PROVE  AnswerInv(answers[k])'
    <2>1. answers \in Seq(Answer)
      BY DEF LinkOK
    <2>2. answers[k] \in Answer
      BY <1>1, <2>1
    <2>3. AnswerInv(answers[k]) /\ answers[k].id \in Fds
      BY <1>1, <2>2 DEF AnswersInv, Answer
    <2>4. ~crossed' => Genuine(answers[k].id, answers[k].start, answers[k].bytes)'
      BY <2>3, GenuineLater DEF AnswerInv
    <2> QED
      BY <2>3, <2>4 DEF AnswerInv
  <1> QED
    BY <1>1 DEF AnswersInv

LEMMA WireStays ==
  ASSUME WireInv, Later, UNCHANGED linkVars, UNCHANGED <<requests, answers, commands>>
  PROVE  WireInv'
  <1>1. LinkOK'
    BY DEF WireInv, LinkOK, linkVars
  <1> QED
    BY <1>1, AnswersStay DEF WireInv

LEMMA SourceStays ==
  ASSUME SourceInv, UNCHANGED sourceVars
  PROVE  SourceInv' /\ Later
  BY DEF SourceInv, SourceOK, LoadInv, DescriptorInv, ServeInv, Later, IsToRead, Genuine,
         Holds, sourceVars

(***************************************************************************)
(* Loads.                                                                  *)
(***************************************************************************)
LEMMA ReadMediaInfoStep ==
  ASSUME IInv, NEW l \in Loads, ReadMediaInfo(l)
  PROVE  IInv'
  <1>1. SourceOK /\ LoadInv /\ DescriptorInv /\ ServeInv
    BY DEF IInv, SourceInv
  <1>2. PICK fd \in Fds :
          /\ open[fd].file = None
          /\ open' = [open EXCEPT ![fd] = [file |-> l, offset |-> 0]]
          /\ load' = [load EXCEPT ![l] = [at |-> "clear", fd |-> fd]]
          /\ given' = [given EXCEPT ![fd] = @ \cup {l}]
          /\ crossed' = (crossed \/ IsToRead(fd))
    BY DEF ReadMediaInfo
  <1>3. l \in Files /\ l # None /\ load[l].at = "none" /\ UNCHANGED <<fileMap, serve>>
    BY LengthFacts DEF ReadMediaInfo, Begins
  <1>4. /\ open'[fd] = [file |-> l, offset |-> 0]
        /\ \A g \in Fds \ {fd} : open'[g] = open[g] /\ given'[g] = given[g]
        /\ given'[fd] = given[fd] \cup {l}
        /\ load'[l] = [at |-> "clear", fd |-> fd]
        /\ \A k \in Loads \ {l} : load'[k] = load[k]
    BY <1>1, <1>2 DEF SourceOK
  <1>5. SourceOK'
    BY <1>1, <1>2, <1>3, PositionFacts DEF SourceOK, Fds
  <1>6. Later
    BY <1>2, <1>4 DEF Later
  <1>7. LoadInv'
    BY <1>1, <1>3, <1>4 DEF LoadInv
  <1>8. fileMap[fd] = None /\ \A k \in Loads : ~Holds(k, fd)
    BY <1>1, <1>2 DEF DescriptorInv
  <1>9. /\ \A k \in Loads \ {l}, g \in Fds : Holds(k, g)' <=> Holds(k, g)
        /\ \A g \in Fds : Holds(l, g)' <=> g = fd
        /\ \A g \in Fds : ~Holds(l, g)
    BY <1>3, <1>4 DEF Holds
  <1>10. ASSUME NEW g \in Fds
         PROVE  /\ open'[g].file # None <=> fileMap'[g] # None \/ \E k \in Loads : Holds(k, g)'
                /\ fileMap'[g] # None => open'[g].file = fileMap'[g] /\ fileMap'[g] \in given'[g]
                /\ \A k \in Loads : Holds(k, g)' =>
                     k \in Files /\ open'[g].file = k /\ fileMap'[g] = None /\ k \in given'[g]
    <2>1. CASE g = fd
      BY <1>3, <1>4, <1>8, <1>9, <2>1
    <2>2. CASE g # fd
      BY <1>1, <1>3, <1>4, <1>9, <2>2 DEF DescriptorInv
    <2> QED
      BY <2>1, <2>2
  <1>11. DescriptorInv'
    BY <1>10 DEF DescriptorInv
  <1>12. ServeInv'
    <2>1. CASE IsToRead(serve.id)
      <3>1. serve.id \in Fds /\ serve.at # "send"
        BY <1>1, <2>1 DEF SourceOK, Task, Idle, IsToRead
      <3>2. ~crossed' => ~crossed /\ serve.id # fd
        BY <1>2, <2>1
      <3> QED
        BY <1>1, <1>3, <1>4, <1>9, <2>1, <3>1, <3>2 DEF ServeInv, IsToRead
    <2>2. CASE serve.at = "send"
      <3>1. serve.id \in Fds
        BY <1>1, <2>2 DEF SourceOK, Task, Idle
      <3>2. ~crossed' => Genuine(serve.id, serve.start, serve.bytes)'
        BY <1>1, <1>3, <1>6, <2>2, <3>1, GenuineLater DEF ServeInv
      <3> QED
        BY <1>1, <1>3, <2>2, <3>2 DEF ServeInv, IsToRead
    <2>3. CASE ~IsToRead(serve.id) /\ serve.at # "send"
      BY <1>3, <2>3 DEF ServeInv, IsToRead
    <2> QED
      BY <2>1, <2>2, <2>3
  <1> QED
    BY <1>5, <1>6, <1>7, <1>11, <1>12, SinkStays, WireStays
    DEF IInv, SourceInv, ReadMediaInfo, linkVars

LEMMA ReadUrlStep ==
  ASSUME IInv, NEW l \in Loads, ReadUrl(l)
  PROVE  IInv'
  <1>1. SourceOK /\ LoadInv /\ DescriptorInv /\ ServeInv
    BY DEF IInv, SourceInv
  <1>2. /\ load' = [load EXCEPT ![l].at = "clear"]
        /\ l \notin Files /\ UNCHANGED <<open, fileMap, serve, given, crossed>>
    BY DEF ReadUrl
  <1>3. /\ load'[l].at = "clear" /\ load'[l].fd = load[l].fd
        /\ \A k \in Loads \ {l} : load'[k] = load[k]
    BY <1>1, <1>2 DEF SourceOK
  <1>4. SourceOK'
    BY <1>1, <1>2 DEF SourceOK
  <1>5. LoadInv'
    BY <1>1, <1>2, <1>3 DEF LoadInv
  <1>6. \A k \in Loads, fd \in Fds : Holds(k, fd)' <=> Holds(k, fd)
    BY <1>1, <1>2, <1>3 DEF Holds, LoadInv, Fds
  <1>7. DescriptorInv' /\ ServeInv'
    BY <1>1, <1>2, <1>6 DEF DescriptorInv, ServeInv, IsToRead, Genuine, SourceOK, Task, Idle
  <1> QED
    BY <1>2, <1>4, <1>5, <1>7, NoHistory, SinkStays, WireStays
    DEF IInv, SourceInv, ReadUrl

LEMMA ClearAllLocalFileInfoStep ==
  ASSUME IInv, NEW l \in Loads, ClearAllLocalFileInfo(l)
  PROVE  IInv'
  <1>1. SourceOK /\ LoadInv /\ DescriptorInv /\ ServeInv
    BY DEF IInv, SourceInv
  <1>2. /\ load[l].at = "clear" /\ open' = CloseMapped /\ fileMap' = NoEntry
        /\ load' = [load EXCEPT ![l].at = IF l \in Files THEN "add" ELSE "notify"]
        /\ UNCHANGED <<serve, given, crossed>>
    BY DEF ClearAllLocalFileInfo
  <1>3. /\ load'[l].at = (IF l \in Files THEN "add" ELSE "notify") /\ load'[l].fd = load[l].fd
        /\ \A k \in Loads \ {l} : load'[k] = load[k]
    BY <1>1, <1>2 DEF SourceOK
  <1>4. \A fd \in Fds :
          /\ fileMap'[fd] = None
          /\ fileMap[fd] # None => open'[fd] = Closed
          /\ fileMap[fd] = None => open'[fd] = open[fd]
    BY <1>2 DEF CloseMapped, NoEntry
  <1>5. Closed \in [file : Files \cup {None}, offset : Positions]
    BY PositionFacts DEF Closed
  <1>6. SourceOK'
    BY <1>1, <1>2, <1>5 DEF SourceOK, CloseMapped, NoEntry
  <1>7. LoadInv'
    BY <1>1, <1>2, <1>3 DEF LoadInv
  <1>8. \A k \in Loads, fd \in Fds : Holds(k, fd)' <=> Holds(k, fd)
    BY <1>1, <1>2, <1>3 DEF Holds, LoadInv, Fds
  <1>9. DescriptorInv'
    BY <1>1, <1>2, <1>4, <1>8, LengthFacts DEF DescriptorInv, Closed
  <1>10. ServeInv'
    <2>1. CASE IsToRead(serve.id)
      <3>1. serve.id \in Fds /\ serve.at # "send"
        BY <1>1, <2>1 DEF SourceOK, Task, Idle, IsToRead
      <3>2. ~crossed => given[serve.id] \subseteq Files
        BY <1>1, <3>1 DEF SourceOK
      <3> QED
        BY <1>1, <1>2, <1>4, <1>8, <2>1, <3>1, <3>2, LengthFacts
        DEF ServeInv, IsToRead, Closed
    <2>2. CASE ~IsToRead(serve.id)
      BY <1>1, <1>2, <2>2 DEF ServeInv, IsToRead, Genuine
    <2> QED
      BY <2>1, <2>2
  <1> QED
    BY <1>2, <1>6, <1>7, <1>9, <1>10, NoHistory, SinkStays, WireStays
    DEF IInv, SourceInv, ClearAllLocalFileInfo

LEMMA AddLocalFileInfoStep ==
  ASSUME IInv, NEW l \in Loads, AddLocalFileInfo(l)
  PROVE  IInv'
  <1>1. SourceOK /\ LoadInv /\ DescriptorInv /\ ServeInv
    BY DEF IInv, SourceInv
  <1>2. /\ load[l].at = "add"
        /\ open' = [open EXCEPT ![load[l].fd].offset = Length[l]]
        /\ fileMap' = [fileMap EXCEPT ![load[l].fd] = IF @ = None THEN l ELSE @]
        /\ load' = [load EXCEPT ![l].at = "notify"]
        /\ UNCHANGED <<serve, given, crossed>>
    BY DEF AddLocalFileInfo
  <1>3. l \in Files /\ l # None /\ Length[l] \in Positions
    BY <1>1, <1>2, LengthFacts, PositionFacts DEF LoadInv
  <1>4. PICK fd \in Fds : load[l].fd = fd
    BY <1>1, <1>2, <1>3 DEF LoadInv
  <1>5. Holds(l, fd) /\ open[fd].file = l /\ fileMap[fd] = None /\ l \in given[fd]
    BY <1>1, <1>2, <1>4 DEF Holds, DescriptorInv
  <1>6. \A k \in Loads : Holds(k, fd) => k = l
    BY <1>1, <1>5 DEF DescriptorInv
  <1>7. /\ load'[l].at = "notify" /\ load'[l].fd = fd
        /\ \A k \in Loads \ {l} : load'[k] = load[k]
        /\ open'[fd].file = l /\ fileMap'[fd] = l
        /\ \A g \in Fds \ {fd} : open'[g] = open[g] /\ fileMap'[g] = fileMap[g]
    BY <1>1, <1>2, <1>4, <1>5 DEF SourceOK
  <1>8. SourceOK'
    BY <1>1, <1>2, <1>3, <1>4 DEF SourceOK
  <1>9. LoadInv'
    BY <1>1, <1>3, <1>4, <1>7 DEF LoadInv
  <1>10. /\ \A k \in Loads : ~Holds(k, fd)'
         /\ \A k \in Loads, g \in Fds : g # fd => (Holds(k, g)' <=> Holds(k, g))
    BY <1>4, <1>6, <1>7 DEF Holds
  <1>11. ASSUME NEW g \in Fds
         PROVE  /\ open'[g].file # None <=> fileMap'[g] # None \/ \E k \in Loads : Holds(k, g)'
                /\ fileMap'[g] # None => open'[g].file = fileMap'[g] /\ fileMap'[g] \in given'[g]
                /\ \A k \in Loads : Holds(k, g)' =>
                     k \in Files /\ open'[g].file = k /\ fileMap'[g] = None /\ k \in given'[g]
    <2>1. CASE g = fd
      BY <1>2, <1>3, <1>5, <1>7, <1>10, <2>1
    <2>2. CASE g # fd
      BY <1>1, <1>2, <1>7, <1>10, <2>2 DEF DescriptorInv
    <2> QED
      BY <2>1, <2>2
  <1>12. DescriptorInv'
    BY <1>11 DEF DescriptorInv
  <1>13. ServeInv'
    <2>1. CASE IsToRead(serve.id)
      <3>1. serve.id \in Fds /\ serve.at # "send"
        BY <1>1, <2>1 DEF SourceOK, Task, Idle, IsToRead
      <3>2. ~crossed => serve.id # fd
        BY <1>1, <1>5, <2>1 DEF ServeInv
      <3> QED
        BY <1>1, <1>2, <1>7, <1>10, <2>1, <3>1, <3>2 DEF ServeInv, IsToRead
    <2>2. CASE ~IsToRead(serve.id)
      BY <1>1, <1>2, <2>2 DEF ServeInv, IsToRead, Genuine
    <2> QED
      BY <2>1, <2>2
  <1> QED
    BY <1>2, <1>8, <1>9, <1>12, <1>13, NoHistory, SinkStays, WireStays
    DEF IInv, SourceInv, AddLocalFileInfo

LEMMA NotifyPeerLoadStep ==
  ASSUME IInv, NEW l \in Loads, NotifyPeerLoad(l)
  PROVE  IInv'
  <1>1. SourceOK /\ LoadInv /\ DescriptorInv /\ ServeInv
    BY DEF IInv, SourceInv
  <1>2. /\ load[l].at = "notify"
        /\ commands' = Append(commands, IF l \in Files THEN [file |-> l, id |-> load[l].fd]
                                        ELSE None)
        /\ load' = [load EXCEPT ![l].at = "done"]
        /\ UNCHANGED <<open, fileMap, serve, given, crossed, linkVars, sinkVars,
                       requests, answers>>
    BY DEF NotifyPeerLoad
  <1>3. /\ load'[l].at = "done" /\ load'[l].fd = load[l].fd
        /\ \A k \in Loads \ {l} : load'[k] = load[k]
    BY <1>1, <1>2 DEF SourceOK
  <1>4. SourceOK'
    BY <1>1, <1>2 DEF SourceOK
  <1>5. LoadInv'
    BY <1>1, <1>2, <1>3 DEF LoadInv
  <1>6. \A k \in Loads, fd \in Fds : Holds(k, fd)' <=> Holds(k, fd)
    BY <1>2, <1>3 DEF Holds
  <1>7. DescriptorInv' /\ ServeInv'
    BY <1>1, <1>2, <1>6 DEF DescriptorInv, ServeInv, IsToRead, Genuine, SourceOK, Task, Idle
  <1>8. (IF l \in Files THEN [file |-> l, id |-> load[l].fd] ELSE None) \in Item \cup {None}
    BY <1>1, <1>2 DEF LoadInv, Item
  <1>9. LinkOK /\ AnswersInv
    BY DEF IInv, WireInv
  <1>10. LinkOK'
    BY <1>2, <1>8, <1>9 DEF LinkOK, linkVars
  <1>11. Later
    BY <1>2, NoHistory
  <1>12. AnswersInv'
    BY <1>2, <1>9, <1>11, AnswersStay
  <1> QED
    BY <1>2, <1>4, <1>5, <1>7, <1>10, <1>11, <1>12, SinkStays
    DEF IInv, SourceInv, WireInv

(***************************************************************************)
(* A request answered.                                                     *)
(***************************************************************************)
LEMMA TakeRequestStep ==
  ASSUME IInv, TakeRequest
  PROVE  IInv'
  <1>1. SourceOK /\ LoadInv /\ DescriptorInv /\ ServeInv /\ LinkOK /\ AnswersInv
    BY DEF IInv, SourceInv, WireInv
  <1>2. PICK request :
        /\ requests # <<>> /\ requests' = Tail(requests) /\ request = Head(requests)
        /\ serve' = IF fileMap[request.id] # None /\ AnswerEnd(request) > request.start
                      THEN [at |-> "seek", id |-> request.id, start |-> request.start,
                            size |-> AnswerEnd(request) - request.start]
                      ELSE Idle
        /\ UNCHANGED <<open, fileMap, load, given, crossed, linkVars, sinkVars, answers,
                       commands>>
    BY DEF TakeRequest
  <1>3. requests \in Seq(Request)
    BY <1>1 DEF LinkOK
  <1>4. request \in Request /\ requests' \in Seq(Request)
    BY <1>2, <1>3
  <1>5. LinkOK' /\ AnswersInv'
    <2>1. LinkOK'
      BY <1>1, <1>2, <1>4 DEF LinkOK, linkVars
    <2> QED
      BY <1>1, <1>2, <2>1, NoHistory, AnswersStay
  <1>6. UNCHANGED <<load, open, fileMap, given, crossed>>
    BY <1>2
  <1>7. LoadInv' /\ DescriptorInv'
    BY <1>1, <1>6 DEF LoadInv, DescriptorInv, Holds
  <1>8. SourceOK' /\ ServeInv'
    <2>1. CASE fileMap[request.id] # None /\ AnswerEnd(request) > request.start
      <3> DEFINE f == fileMap[request.id]
      <3>1. /\ request.id \in Fds /\ request.start \in Nat /\ request.end \in Nat
            /\ f \in Files /\ Length[f] \in Nat
        BY <1>1, <1>4, <2>1, LengthFacts DEF Request, SourceOK
      <3>2. AnswerEnd(request) \in Int /\ AnswerEnd(request) <= Length[f]
        BY <3>1, BoundFacts DEF AnswerEnd, Lesser
      <3>3. AnswerEnd(request) \in Positions
        BY <2>1, <3>1, <3>2, PositionFacts
      <3>4. /\ serve'.at = "seek" /\ serve'.id = request.id /\ serve'.start = request.start
            /\ serve'.size = AnswerEnd(request) - request.start
            /\ serve'.start + serve'.size = AnswerEnd(request)
            /\ serve' \in Task
        BY <1>2, <2>1, <3>1, <3>2 DEF Task
      <3>5. open[request.id].file = f /\ f \in given[request.id]
        BY <1>1, <2>1, <3>1 DEF DescriptorInv
      <3>6. \A l \in Loads : ~Holds(l, request.id)'
        BY <1>1, <1>6, <2>1, <3>1 DEF DescriptorInv, Holds
      <3> QED
        BY <1>1, <1>6, <3>2, <3>3, <3>4, <3>5, <3>6 DEF SourceOK, ServeInv, IsToRead
    <2>2. CASE ~(fileMap[request.id] # None /\ AnswerEnd(request) > request.start)
      BY <1>1, <1>2, <2>2 DEF SourceOK, ServeInv, IsToRead, Idle, Task
    <2> QED
      BY <2>1, <2>2
  <1> QED
    BY <1>2, <1>5, <1>7, <1>8, NoHistory, SinkStays DEF IInv, SourceInv, WireInv

\* What the thread that answers changes: the offset of one descriptor.
LEMMA OffsetOnly ==
  ASSUME SourceOK, LoadInv, DescriptorInv, NEW fd \in Fds, NEW pos \in Positions,
         open' = [open EXCEPT ![fd].offset = pos], serve' \in Task,
         UNCHANGED <<fileMap, load, given, crossed>>
  PROVE  /\ SourceOK' /\ LoadInv' /\ DescriptorInv'
         /\ open'[fd].file = open[fd].file /\ open'[fd].offset = pos
  <1>1. /\ \A g \in Fds : open'[g].file = open[g].file
        /\ open'[fd].offset = pos
        /\ SourceOK'
    BY DEF SourceOK
  <1> QED
    BY <1>1 DEF LoadInv, DescriptorInv, Holds

LEMMA SeekStep ==
  ASSUME IInv, Seek
  PROVE  IInv'
  <1>1. SourceOK /\ LoadInv /\ DescriptorInv /\ ServeInv
    BY DEF IInv, SourceInv
  <1>2. /\ serve.at = "seek"
        /\ UNCHANGED <<fileMap, load, given, crossed, linkVars, sinkVars, requests, answers,
                       commands>>
    BY DEF Seek
  <1>3. /\ serve \in [at : {"seek", "read"}, id : Fds, start : Nat, size : Nat \ {0}]
        /\ IsToRead(serve.id)
    BY <1>1, <1>2 DEF SourceOK, Task, Idle, IsToRead
  <1>4. serve.start \in Positions
    <2>1. serve.start + serve.size \in Positions /\ serve.start \in Nat /\ serve.size \in Nat
      BY <1>1, <1>3 DEF ServeInv
    <2>2. serve.start <= serve.start + serve.size
      BY <2>1
    <2> QED
      BY <2>1, <2>2, PositionFacts
  <1>5. SourceInv'
    <2>1. CASE open[serve.id].file = None
      <3>1. serve' = Idle /\ UNCHANGED open
        BY <2>1 DEF Seek
      <3> QED
        BY <1>1, <1>2, <3>1
        DEF SourceInv, SourceOK, LoadInv, DescriptorInv, Holds, ServeInv, IsToRead, Idle,
            Task
    <2>2. CASE open[serve.id].file # None
      <3>1. /\ serve' = [serve EXCEPT !.at = "read"]
            /\ open' = [open EXCEPT ![serve.id].offset = serve.start]
        BY <2>2 DEF Seek
      <3>2. serve' \in Task /\ serve'.at = "read" /\ UNCHANGED <<serve.id, serve.start, serve.size>>
        BY <1>3, <3>1 DEF Task
      <3>3. /\ SourceOK' /\ LoadInv' /\ DescriptorInv'
            /\ open'[serve.id].file = open[serve.id].file
            /\ open'[serve.id].offset = serve.start
        BY <1>1, <1>2, <1>3, <1>4, <3>1, <3>2, OffsetOnly
      <3>4. ServeInv'
        BY <1>1, <1>2, <1>3, <3>2, <3>3 DEF ServeInv, IsToRead, Holds
      <3> QED
        BY <3>3, <3>4 DEF SourceInv
    <2> QED
      BY <2>1, <2>2
  <1> QED
    BY <1>2, <1>5, NoHistory, SinkStays, WireStays DEF IInv

LEMMA ReadFileDataByFdStep ==
  ASSUME IInv, ReadFileDataByFd
  PROVE  IInv'
  <1>1. SourceOK /\ LoadInv /\ DescriptorInv /\ ServeInv
    BY DEF IInv, SourceInv
  <1> DEFINE file == open[serve.id].file
             from == open[serve.id].offset
             total == IF file = None THEN 0 ELSE Lesser(serve.size, Length[file] - from)
  <1>2. /\ serve.at = "read"
        /\ IF total <= 0
             THEN serve' = Idle /\ UNCHANGED open
             ELSE /\ serve' = [at |-> "send", id |-> serve.id, start |-> serve.start,
                               bytes |-> Filled(file, from, total)]
                  /\ open' = [open EXCEPT ![serve.id].offset = @ + total]
        /\ UNCHANGED <<fileMap, load, given, crossed, linkVars, sinkVars, requests, answers,
                       commands>>
    BY DEF ReadFileDataByFd
  <1>3. /\ serve \in [at : {"seek", "read"}, id : Fds, start : Nat, size : Nat \ {0}]
        /\ IsToRead(serve.id)
    BY <1>1, <1>2 DEF SourceOK, Task, Idle, IsToRead
  <1>4. /\ open[serve.id] \in [file : Files \cup {None}, offset : Positions]
        /\ given[serve.id] \subseteq Files
    BY <1>1, <1>3 DEF SourceOK
  <1>5. SourceInv'
    <2>1. CASE total <= 0
      BY <1>1, <1>2, <2>1
      DEF SourceInv, SourceOK, LoadInv, DescriptorInv, Holds, ServeInv, IsToRead, Idle, Task
    <2>2. CASE ~(total <= 0)
      <3> DEFINE bytes == Filled(file, from, total)
      <3>1. file \in Files /\ file # None /\ Length[file] \in Nat /\ from \in Nat
        <4>1. file # None
          BY <2>2
        <4> HIDE DEF total
        <4> QED
          BY <1>4, <4>1, LengthFacts, PositionFacts
      <3>2. total = Lesser(serve.size, Length[file] - from)
        BY <3>1
      <3>3. /\ serve.size \in Nat /\ total \in Nat /\ total > 0 /\ total <= serve.size
            /\ from + total <= Length[file] /\ total \in {serve.size, Length[file] - from}
        BY <1>3, <2>2, <3>1, <3>2 DEF Lesser
      <3> HIDE DEF total, file, from
      <3>4. ASSUME NEW k \in 1 .. serve.size, k <= total
            PROVE  from + k - 1 \in Positions
        <4>1. from + k - 1 \in Nat /\ from + k - 1 <= Length[file]
          BY <3>1, <3>3, <3>4
        <4> QED
          BY <3>1, <4>1, PositionFacts
      <3>5. \A k \in 1 .. serve.size :
              (IF k <= total THEN [file |-> file, pos |-> from + k - 1]
               ELSE [file |-> None, pos |-> 0]) \in Byte
        BY <3>1, <3>4, PositionFacts DEF Byte
      <3>6. bytes \in [1 .. serve.size -> Byte]
        BY <3>5 DEF Filled
      <3>7. bytes \in Seq(Byte) /\ Len(bytes) = serve.size
        BY <3>3, <3>6
      <3>8. \A k \in 1 .. serve.size :
              k <= total => bytes[k] = [file |-> file, pos |-> from + k - 1]
        BY DEF Filled
      <3>9. /\ serve' = [at |-> "send", id |-> serve.id, start |-> serve.start, bytes |-> bytes]
            /\ open' = [open EXCEPT ![serve.id].offset = from + total]
        BY <1>2, <2>2 DEF total, file, from
      <3> HIDE DEF bytes
      <3>10. from + total \in Positions
        BY <3>1, <3>3, PositionFacts
      <3>11. serve' \in Task
        BY <1>3, <3>7, <3>9 DEF Task
      <3>12. SourceOK' /\ LoadInv' /\ DescriptorInv'
        BY <1>1, <1>2, <1>3, <3>9, <3>10, <3>11, OffsetOnly
      <3>13. ~crossed => \A k \in 1 .. serve.size :
               bytes[k].pos = serve.start + k - 1 /\ bytes[k].file \in given[serve.id]
        <4> SUFFICES ASSUME ~crossed, NEW k \in 1 .. serve.size
                     PROVE  bytes[k].pos = serve.start + k - 1 /\ bytes[k].file \in given[serve.id]
          OBVIOUS
        <4>1. /\ file \in given[serve.id] /\ from = serve.start
              /\ serve.start + serve.size <= Length[file]
          BY <1>1, <1>2, <1>3, <3>1 DEF ServeInv, file, from
        <4>2. total = serve.size
          BY <1>3, <3>1, <3>3, <4>1
        <4> QED
          <5>1. k <= total
            BY <3>3, <4>2
          <5>2. bytes[k] = [file |-> file, pos |-> from + k - 1]
            BY <3>8, <5>1
          <5> HIDE DEF bytes
          <5> QED
            BY <4>1, <5>2
      <3>14. ServeInv'
        <4>1. serve.start + Len(bytes) \in Positions
          BY <1>1, <1>3, <3>7 DEF ServeInv
        <4>2. DOMAIN bytes = 1 .. serve.size
          BY <3>6
        <4> QED
          BY <1>2, <3>9, <3>13, <4>1, <4>2 DEF ServeInv, IsToRead, Genuine
      <3> QED
        BY <3>12, <3>14 DEF SourceInv
    <2> QED
      BY <2>1, <2>2
  <1> QED
    BY <1>2, <1>5, NoHistory, SinkStays, WireStays DEF IInv

LEMMA SendDataStep ==
  ASSUME IInv, SendData
  PROVE  IInv'
  <1>1. SourceOK /\ LoadInv /\ DescriptorInv /\ ServeInv /\ LinkOK /\ AnswersInv
    BY DEF IInv, SourceInv, WireInv
  <1> DEFINE answer == [id |-> serve.id, start |-> serve.start, bytes |-> serve.bytes]
  <1>2. /\ serve.at = "send" /\ serve' = Idle /\ answers' = Carried("source", answers, answer)
        /\ UNCHANGED <<open, fileMap, load, given, crossed, linkVars, sinkVars, requests,
                       commands>>
    BY DEF SendData
  <1>3. answer \in Answer
    BY <1>1, <1>2 DEF SourceOK, Task, Idle, Answer
  <1>4. AnswerInv(answer)
    BY <1>1, <1>2 DEF ServeInv, AnswerInv
  <1>5. answers \in Seq(Answer)
    BY <1>1 DEF LinkOK
  <1>6. answers' \in Seq(Answer) /\ \A k \in DOMAIN answers' : AnswerInv(answers'[k])
    BY <1>1, <1>2, <1>3, <1>4, <1>5 DEF Carried, AnswersInv
  <1>7. WireInv'
    <2>1. AnswersInv'
      BY <1>2, <1>6 DEF AnswersInv, AnswerInv, Genuine
    <2> QED
      BY <1>1, <1>2, <1>6, <2>1 DEF WireInv, LinkOK, linkVars
  <1>8. SourceInv'
    BY <1>1, <1>2
    DEF SourceInv, SourceOK, LoadInv, DescriptorInv, Holds, ServeInv, IsToRead, Idle, Task
  <1> QED
    BY <1>2, <1>7, <1>8, NoHistory, SinkStays DEF IInv

(***************************************************************************)
(* The channel.                                                            *)
(***************************************************************************)
LEMMA LinkStep ==
  ASSUME IInv, LinkOK', UNCHANGED sourceVars, UNCHANGED sinkVars, answers' \in {answers, <<>>}
  PROVE  IInv'
  <1>1. SourceInv' /\ Later /\ SinkInv'
    BY SourceStays, SinkStays DEF IInv
  <1>2. AnswersInv'
    BY <1>1, AnswersStay DEF IInv, WireInv, AnswersInv
  <1> QED
    BY <1>1, <1>2 DEF IInv, WireInv

LEMMA LinkingStep ==
  ASSUME IInv, Linking
  PROVE  IInv'
  <1>1. LinkOK
    BY DEF IInv, WireInv
  <1>2. CASE CreateStreamChannel
    <2>1. LinkOK'
      BY <1>1, <1>2 DEF CreateStreamChannel, LinkOK
    <2> QED
      BY <1>2, <2>1, LinkStep DEF CreateStreamChannel
  <1>3. CASE LinkBreaks
    <2>1. LinkOK'
      BY <1>1, <1>3 DEF LinkBreaks, LinkOK
    <2> QED
      BY <1>3, <2>1, LinkStep DEF LinkBreaks
  <1>4. ASSUME NEW e \in Ends, AddChannel(e)
        PROVE  IInv'
    <2>1. LinkOK'
      BY <1>1, <1>4 DEF AddChannel, LinkOK
    <2> QED
      BY <1>4, <2>1, LinkStep DEF AddChannel
  <1>5. ASSUME NEW e \in Ends, RemoveChannel(e)
        PROVE  IInv'
    <2>1. LinkOK'
      BY <1>1, <1>5 DEF RemoveChannel, LinkOK
    <2> QED
      BY <1>5, <2>1, LinkStep DEF RemoveChannel
  <1> QED
    BY <1>2, <1>3, <1>4, <1>5 DEF Linking

(***************************************************************************)
(* The caches.                                                             *)
(***************************************************************************)
LEMMA LeastIsThere ==
  ASSUME NEW S, S \subseteq Nat, S # {}
  PROVE  (CHOOSE i \in S : \A k \in S : i <= k) \in S
  <1>1. \E i \in S : \A k \in S : <<k, i>> \notin OpToRel(<, Nat)
    BY NatLessThanWellFounded, WFMin
  <1>2. \A k, i \in Nat : k < i => <<k, i>> \in OpToRel(<, Nat)
    BY DEF OpToRel
  <1>3. PICK i \in S : \A k \in S : ~(k < i)
    BY <1>1, <1>2
  <1>4. \A k \in S : i <= k
    BY <1>3
  <1> QED
    BY <1>4

LEMMA ConcatFacts ==
  ASSUME NEW S, NEW a \in Seq(S), NEW b \in Seq(S)
  PROVE  /\ a \o b \in Seq(S) /\ Len(a \o b) = Len(a) + Len(b)
         /\ \A k \in 1 .. Len(a) : (a \o b)[k] = a[k]
         /\ \A k \in Len(a) + 1 .. Len(a) + Len(b) : (a \o b)[k] = b[k - Len(a)]
  OBVIOUS

\* What lies under an index that was touched is in the order once, and so is
\* all that was there before.
LEMMA TouchedFacts ==
  ASSUME recency \in Seq(Nat), NEW i \in Nat
  PROVE  /\ Touched(i) \in Seq(Nat)
         /\ {Touched(i)[k] : k \in DOMAIN Touched(i)}
              = {recency[k] : k \in DOMAIN recency} \cup {i}
  <1> DEFINE at == {k \in DOMAIN recency : recency[k] = i}
             j == CHOOSE k \in at : TRUE
             others == IF at = {} THEN recency
                       ELSE SubSeq(recency, 1, j - 1) \o SubSeq(recency, j + 1, Len(recency))
  <1>1. Touched(i) = Append(others, i)
    BY DEF Touched
  <1>2. others \in Seq(Nat) /\ {others[k] : k \in DOMAIN others} \cup {i}
                                 = {recency[k] : k \in DOMAIN recency} \cup {i}
    <2>1. CASE at = {}
      BY <2>1
    <2>2. CASE at # {}
      <3>1. j \in 1 .. Len(recency) /\ recency[j] = i /\ Len(recency) \in Nat
        BY <2>2
      <3> HIDE DEF j
      <3> DEFINE left == SubSeq(recency, 1, j - 1)
                 right == SubSeq(recency, j + 1, Len(recency))
      <3>2. /\ left \in Seq(Nat) /\ Len(left) = j - 1
            /\ \A k \in 1 .. j - 1 : left[k] = recency[k]
        BY <3>1
      <3>3. /\ right \in Seq(Nat) /\ Len(right) = Len(recency) - j
            /\ \A k \in 1 .. Len(recency) - j : right[k] = recency[k + j]
        BY <3>1
      <3>4. others = left \o right
        BY <2>2
      <3> HIDE DEF left, right, others
      <3>5. /\ others \in Seq(Nat) /\ Len(others) = Len(recency) - 1
            /\ \A k \in 1 .. j - 1 : others[k] = recency[k]
            /\ \A k \in j .. Len(recency) - 1 : others[k] = recency[k + 1]
        <4>1. others \in Seq(Nat)
          BY <3>2, <3>3, <3>4
        <4>2. Len(others) = Len(left) + Len(right)
          BY <3>2, <3>3, <3>4, ConcatFacts
        <4>3. ASSUME NEW k \in 1 .. j - 1
              PROVE  others[k] = recency[k]
          <5>1. k \in 1 .. Len(left)
            BY <3>2
          <5>2. others[k] = left[k]
            BY <3>2, <3>3, <3>4, <5>1
          <5> QED
            BY <3>2, <5>2
        <4>4. ASSUME NEW k \in j .. Len(recency) - 1
              PROVE  others[k] = recency[k + 1]
          <5>1. k \in Len(left) + 1 .. Len(left) + Len(right) /\ k - Len(left) = k - j + 1
            BY <3>1, <3>2, <3>3
          <5>2. others[k] = right[k - Len(left)]
            BY <3>2, <3>3, <3>4, <5>1, ConcatFacts
          <5>3. k - j + 1 \in 1 .. Len(recency) - j /\ k - j + 1 + j = k + 1
            BY <3>1
          <5>4. right[k - j + 1] = recency[k + 1]
            BY <3>3, <5>3
          <5> QED
            BY <5>1, <5>2, <5>4
        <4> QED
          BY <3>1, <3>2, <3>3, <4>1, <4>2, <4>3, <4>4
      <3>6. ASSUME NEW k \in DOMAIN others
            PROVE  \E m \in DOMAIN recency : others[k] = recency[m]
        <4>1. k \in 1 .. Len(recency) - 1 /\ DOMAIN recency = 1 .. Len(recency)
          BY <3>5
        <4>2. k \in DOMAIN recency /\ k + 1 \in DOMAIN recency
          BY <3>1, <4>1
        <4>3. k \in 1 .. j - 1 \/ k \in j .. Len(recency) - 1
          BY <3>1, <4>1
        <4> QED
          BY <3>5, <4>2, <4>3
      <3>7. ASSUME NEW m \in DOMAIN recency, recency[m] # i
            PROVE  \E k \in DOMAIN others : others[k] = recency[m]
        <4>1. CASE m < j
          <5>1. /\ m \in 1 .. Len(recency) /\ Len(recency) \in Nat /\ j \in 1 .. Len(recency)
                /\ DOMAIN others = 1 .. Len(recency) - 1
            BY <3>1, <3>5
          <5>2. m \in 1 .. j - 1 /\ m \in 1 .. Len(recency) - 1
            BY <4>1, <5>1
          <5> QED
            BY <3>5, <5>1, <5>2
        <4>2. CASE m > j
          <5>1. m \in 1 .. Len(recency) /\ Len(recency) \in Nat /\ j \in 1 .. Len(recency)
            BY <3>1
          <5>2. m - 1 \in j .. Len(recency) - 1 /\ (m - 1) + 1 = m
            BY <4>2, <5>1
          <5>3. DOMAIN others = 1 .. Len(recency) - 1
            BY <3>5
          <5>4. m - 1 \in DOMAIN others
            BY <5>1, <5>2, <5>3
          <5> QED
            BY <3>5, <5>2, <5>4
        <4> QED
          BY <3>1, <3>7, <4>1, <4>2
      <3> QED
        BY <3>5, <3>6, <3>7
    <2> QED
      BY <2>1, <2>2
  <1> HIDE DEF others
  <1>3. /\ Append(others, i) \in Seq(Nat)
        /\ {Append(others, i)[k] : k \in DOMAIN Append(others, i)}
             = {others[k] : k \in DOMAIN others} \cup {i}
    <2> DEFINE all == Append(others, i)
    <2>1. /\ all \in Seq(Nat) /\ Len(all) = Len(others) + 1 /\ Len(others) \in Nat
          /\ all[Len(others) + 1] = i
          /\ \A k \in 1 .. Len(others) : all[k] = others[k]
          /\ DOMAIN others = 1 .. Len(others) /\ DOMAIN all = 1 .. Len(others) + 1
      BY <1>2
    <2> HIDE DEF all
    <2>2. \A k \in DOMAIN all : k \in DOMAIN others \/ k = Len(others) + 1
      BY <2>1
    <2>3. \A k \in DOMAIN others : k \in DOMAIN all
      BY <2>1
    <2>4. Len(others) + 1 \in DOMAIN all
      BY <2>1
    <2>5. {all[k] : k \in DOMAIN all} = {others[k] : k \in DOMAIN others} \cup {i}
      BY <2>1, <2>2, <2>3, <2>4
    <2> QED
      BY <2>1, <2>5 DEF all
  <1> QED
    BY <1>1, <1>2, <1>3

LEMMA EndFacts ==
  ASSUME NEW c \in Cache
  PROVE  EndPos(c) \in Nat /\ c.start <= EndPos(c) /\ Len(c.bytes) \in Nat
  BY DEF Cache, EndPos

LEMMA NewCacheFacts ==
  ASSUME NEW pos \in Positions
  PROVE  NewCache(pos) \in Cache /\ CacheInv(NewCache(pos))
  BY PositionFacts, BoundFacts DEF NewCache, Cache, CacheInv, EndPos, Genuine

LEMMA RequestedFacts ==
  ASSUME NEW c \in Cache, CacheInv(c), ~IsFull(c)
  PROVE  RequestEnd(c) \in Nat /\ Requested(c) \in Cache /\ CacheInv(Requested(c))
         /\ Requested(c).start = c.start
  <1>1. /\ EndPos(c) \in Nat /\ EndPos(c) = c.start + Len(c.bytes) /\ Len(c.bytes) \in Nat
        /\ c.start \in Nat /\ c.curr \in Nat /\ Len(c.bytes) < Capacity
    BY BoundFacts DEF Cache, EndPos, IsFull
  <1>2. c.bytes = <<>> => Len(c.bytes) = 0
    OBVIOUS
  <1>3. RequestEnd(c) \in Nat /\ EndPos(c) <= RequestEnd(c) /\ RequestEnd(c) <= c.start + Capacity
    <2>1. CASE c.bytes = <<>>
      BY <1>1, <1>2, <2>1, BoundFacts DEF RequestEnd
    <2>2. CASE c.bytes # <<>>
      <3>1. RequestEnd(c) = EndPos(c) + Lesser(Capacity - Len(c.bytes), SingleRequest)
        BY <2>2 DEF RequestEnd
      <3>2. Lesser(Capacity - Len(c.bytes), SingleRequest) \in 0 .. Capacity - Len(c.bytes)
        BY <1>1, BoundFacts DEF Lesser
      <3> QED
        BY <1>1, <3>1, <3>2, BoundFacts
    <2> QED
      BY <2>1, <2>2
  <1>4. /\ Requested(c) = [c EXCEPT !.next = RequestEnd(c), !.late = FALSE]
        /\ Requested(c) \in Cache
    BY <1>3 DEF Requested, Cache
  <1>5. /\ Requested(c).start = c.start /\ Requested(c).curr = c.curr
        /\ Requested(c).bytes = c.bytes /\ Requested(c).next = RequestEnd(c)
    BY <1>4 DEF Cache
  <1> QED
    BY <1>3, <1>4, <1>5 DEF CacheInv, EndPos

LEMMA ExpiredFacts ==
  ASSUME NEW c \in Cache, CacheInv(c)
  PROVE  Expired(c) \in Cache /\ CacheInv(Expired(c)) /\ Expired(c).start = c.start
  <1>1. CASE c.late
    <2>1. Expired(c) = [c EXCEPT !.next = EndPos(c), !.late = FALSE] /\ Expired(c) \in Cache
      BY <1>1, EndFacts DEF Expired, Cache
    <2>2. /\ Expired(c).start = c.start /\ Expired(c).curr = c.curr
          /\ Expired(c).bytes = c.bytes /\ Expired(c).next = EndPos(c)
      BY <2>1 DEF Cache
    <2>3. EndPos(c) <= c.start + Capacity /\ EndPos(c) \in Nat
      BY EndFacts, BoundFacts DEF CacheInv, Cache
    <2> QED
      BY <2>1, <2>2, <2>3 DEF CacheInv, EndPos
  <1> QED
    BY <1>1 DEF Expired

LEMMA LateFacts ==
  ASSUME NEW c \in Cache, CacheInv(c)
  PROVE  /\ [c EXCEPT !.late = TRUE] \in Cache /\ CacheInv([c EXCEPT !.late = TRUE])
         /\ [c EXCEPT !.late = TRUE].start = c.start
  BY DEF Cache, CacheInv, EndPos, Genuine

LEMMA CurrFacts ==
  ASSUME NEW c \in Cache, CacheInv(c), NEW pos \in Nat, c.start <= pos, pos <= EndPos(c)
  PROVE  /\ [c EXCEPT !.curr = pos] \in Cache /\ CacheInv([c EXCEPT !.curr = pos])
         /\ [c EXCEPT !.curr = pos].start = c.start
  BY DEF Cache, CacheInv, EndPos, Genuine

LEMMA WrittenFacts ==
  ASSUME NEW c \in Cache, CacheInv(c), NEW a \in Answer, AnswerInv(a), a.id = item.id,
         Takes(c, a)
  PROVE  Written(c, a) \in Cache /\ CacheInv(Written(c, a)) /\ Written(c, a).start = c.start
  <1> DEFINE room == Lesser(Len(a.bytes), Capacity - Len(c.bytes))
             taken == SubSeq(a.bytes, 1, room)
             bytes == c.bytes \o taken
  <1>1. /\ c.bytes \in Seq(Byte) /\ a.bytes \in Seq(Byte) /\ c.start \in Nat /\ c.curr \in Nat
        /\ Len(c.bytes) \in Nat /\ Len(a.bytes) \in Nat
        /\ a.start = c.start + Len(c.bytes) /\ Len(c.bytes) < Capacity /\ Capacity \in Nat
    BY BoundFacts DEF Cache, Answer, Takes, EndPos, IsFull
  <1>2. room \in 0 .. Len(a.bytes) /\ room <= Capacity - Len(c.bytes)
    BY <1>1 DEF Lesser
  <1>3. PICK n \in Nat, m \in Nat, r \in Nat, s \in Nat :
           n = Len(c.bytes) /\ m = Len(a.bytes) /\ r = room /\ s = c.start
    BY <1>1, <1>2
  <1>4. r <= m /\ r <= Capacity - n /\ n < Capacity /\ a.start = s + n
    BY <1>1, <1>2, <1>3
  <1> HIDE DEF room
  <1>5. /\ taken \in Seq(Byte) /\ Len(taken) = room
        /\ \A k \in 1 .. room : taken[k] = a.bytes[k]
    BY <1>1, <1>2
  <1> HIDE DEF taken
  <1>6. /\ bytes \in Seq(Byte) /\ Len(bytes) = Len(c.bytes) + room
        /\ \A k \in 1 .. Len(c.bytes) : bytes[k] = c.bytes[k]
        /\ \A k \in Len(c.bytes) + 1 .. Len(c.bytes) + room :
             bytes[k] = taken[k - Len(c.bytes)]
    <2>1. /\ bytes \in Seq(Byte) /\ Len(bytes) = Len(c.bytes) + Len(taken)
          /\ \A k \in 1 .. Len(c.bytes) : bytes[k] = c.bytes[k]
          /\ \A k \in Len(c.bytes) + 1 .. Len(c.bytes) + Len(taken) :
               bytes[k] = taken[k - Len(c.bytes)]
      <3>1. c.bytes \in Seq(Byte) /\ taken \in Seq(Byte)
        BY <1>1, <1>5
      <3> QED
        BY <3>1, ConcatFacts
    <2> HIDE DEF bytes
    <2> QED
      BY <1>5, <2>1
  <1>7. Written(c, a) = [c EXCEPT !.bytes = bytes, !.next = c.start + Len(bytes), !.late = FALSE]
    BY DEF Written, bytes, taken, room
  <1> HIDE DEF bytes
  <1>8. Len(bytes) \in Nat /\ Len(bytes) = n + r /\ c.start + Len(bytes) \in Nat
    BY <1>6, <1>3
  <1>9. /\ Written(c, a) \in Cache /\ Written(c, a).start = c.start
        /\ Written(c, a).curr = c.curr /\ Written(c, a).bytes = bytes
        /\ Written(c, a).next = c.start + Len(bytes)
    BY <1>6, <1>7, <1>8 DEF Cache
  <1>10. /\ c.start <= c.curr /\ c.curr <= c.start + Len(bytes)
        /\ c.start + Len(bytes) <= c.start + Capacity
    BY <1>1, <1>2, <1>6 DEF CacheInv, EndPos
  <1>11. c.start + Len(bytes) \in Positions
    <2>1. a.start + Len(a.bytes) \in Positions
      BY DEF AnswerInv
    <2>2. s + (n + r) \in Nat /\ s + (n + r) <= (s + n) + m
      BY <1>4
    <2>3. /\ c.start + Len(bytes) = s + (n + r)
          /\ a.start + Len(a.bytes) = (s + n) + m
      BY <1>3, <1>4, <1>8, Zenon
    <2> QED
      BY <2>1, <2>2, <2>3, PositionFacts
  <1>12. ASSUME ~crossed, NEW k \in DOMAIN bytes
        PROVE  bytes[k].pos = c.start + k - 1 /\ bytes[k].file \in given[item.id]
    <2>1. k \in 1 .. Len(c.bytes) + room /\ k \in Nat
      BY <1>6, <1>3
    <2>2. CASE k <= Len(c.bytes)
      <3>1. k \in 1 .. Len(c.bytes) /\ k \in DOMAIN c.bytes
        BY <1>1, <2>1, <2>2
      <3> QED
        BY <1>6, <1>12, <3>1 DEF CacheInv, Genuine
    <2>3. CASE k > Len(c.bytes)
      <3>1. /\ k \in Len(c.bytes) + 1 .. Len(c.bytes) + room
            /\ k - Len(c.bytes) \in 1 .. room /\ k - Len(c.bytes) \in 1 .. Len(a.bytes)
        <4>1. k \in Nat /\ k > n /\ k <= n + r
          BY <1>3, <2>1, <2>3
        <4>2. k \in n + 1 .. n + r /\ k - n \in 1 .. r /\ k - n \in 1 .. m
          BY <1>4, <4>1
        <4> QED
          BY <1>3, <4>2
      <3>2. bytes[k] = a.bytes[k - Len(c.bytes)]
        BY <1>5, <1>6, <3>1
      <3>3. k - Len(c.bytes) \in DOMAIN a.bytes
        BY <1>1, <3>1
      <3>4. /\ a.bytes[k - Len(c.bytes)].pos = a.start + (k - Len(c.bytes)) - 1
            /\ a.bytes[k - Len(c.bytes)].file \in given[item.id]
        BY <1>12, <3>3 DEF AnswerInv, Genuine
      <3>5. a.start + (k - Len(c.bytes)) - 1 = c.start + k - 1
        BY <1>3, <1>4, <2>1
      <3> QED
        BY <3>2, <3>4, <3>5
    <2> QED
      BY <1>1, <2>1, <2>2, <2>3
  <1> QED
    <2> DEFINE w == Written(c, a)
    <2> HIDE DEF w
    <2>1. /\ w.start = c.start /\ w.curr = c.curr /\ w.bytes = bytes
          /\ w.next = c.start + Len(bytes) /\ EndPos(w) = c.start + Len(bytes)
      BY <1>9 DEF w, EndPos
    <2>2. ~crossed => Genuine(item.id, w.start, w.bytes)
      BY <1>12, <2>1 DEF Genuine
    <2>3. EndPos(w) <= w.next
      BY <1>8, <2>1
    <2>4. CacheInv(w)
      BY <1>10, <1>11, <2>1, <2>2, <2>3 DEF CacheInv
    <2> QED
      BY <1>9, <2>4 DEF w

(***************************************************************************)
(* What a step does to the caches.                                         *)
(***************************************************************************)
LEMMA OneCache ==
  ASSUME SinkOK, RecencyOK, CachesInv, NEW i \in DOMAIN caches,
         NEW c \in Cache, CacheInv(c), caches' = [caches EXCEPT ![i] = c],
         UNCHANGED <<item, given, crossed>>
  PROVE  /\ caches' \in Seq(Cache) /\ Len(caches') = Len(caches)
         /\ DOMAIN caches' = DOMAIN caches /\ CachesInv'
         /\ caches'[i] = c /\ \A k \in DOMAIN caches \ {i} : caches'[k] = caches[k]
  <1>1. caches \in Seq(Cache)
    BY DEF SinkOK
  <1>2. /\ caches' \in Seq(Cache) /\ Len(caches') = Len(caches)
        /\ DOMAIN caches' = DOMAIN caches
        /\ caches'[i] = c /\ \A k \in DOMAIN caches \ {i} : caches'[k] = caches[k]
    BY <1>1
  <1>3. \A k \in DOMAIN caches' : CacheInv(caches'[k])
    BY <1>2 DEF CachesInv
  <1>4. CachesInv'
    BY <1>3 DEF CachesInv, CacheInv, EndPos, Genuine
  <1> QED
    BY <1>2, <1>4

LEMMA GetBestCacheFacts ==
  ASSUME SinkOK, RecencyOK, CachesInv, NEW pos \in Positions, GetBestCache(pos),
         UNCHANGED <<item, given, crossed>>
  PROVE  /\ caches' \in Seq(Cache) /\ recency' \in Seq(Nat) /\ RecencyOK' /\ CachesInv'
         /\ BestCache(pos) \in DOMAIN caches' /\ DOMAIN caches \subseteq DOMAIN caches'
  <1> DEFINE i == BestCache(pos)
  <1>1. /\ caches \in Seq(Cache) /\ recency \in Seq(Nat) /\ Len(caches) \in Nat
        /\ DOMAIN caches = 1 .. Len(caches) /\ Hits(pos) \subseteq DOMAIN caches
        /\ Len(caches) <= MaxCaches /\ {recency[k] : k \in DOMAIN recency} = DOMAIN caches
    BY DEF SinkOK, RecencyOK, Hits
  <1> HIDE DEF i
  <1>2. /\ recency' = Touched(i)
        /\ Hits(pos) # {} /\ ~(i > Len(caches)) => caches' = caches
        /\ Hits(pos) = {} /\ i > Len(caches) => caches' = Append(caches, NewCache(pos))
        /\ Hits(pos) = {} /\ ~(i > Len(caches)) =>
             caches' = [caches EXCEPT ![i] = NewCache(pos)]
    <2>1. recency' = Touched(i)
      BY DEF GetBestCache, i
    <2>2. caches' = CASE Hits(pos) # {} -> caches
                      [] i > Len(caches) -> Append(caches, NewCache(pos))
                      [] OTHER -> [caches EXCEPT ![i] = NewCache(pos)]
      BY DEF GetBestCache, Reset, i
    <2>3. Hits(pos) # {} /\ ~(i > Len(caches)) => caches' = caches
      BY <2>2
    <2>4. Hits(pos) = {} /\ i > Len(caches) => caches' = Append(caches, NewCache(pos))
      BY <2>2
    <2>5. Hits(pos) = {} /\ ~(i > Len(caches)) =>
            caches' = [caches EXCEPT ![i] = NewCache(pos)]
      BY <2>2
    <2> QED
      BY <2>1, <2>3, <2>4, <2>5
  <1>3. ASSUME i \in Nat
        PROVE  /\ recency' \in Seq(Nat)
               /\ {recency'[k] : k \in DOMAIN recency'} = DOMAIN caches \cup {i}
    <2>1. /\ Touched(i) \in Seq(Nat)
          /\ {Touched(i)[k] : k \in DOMAIN Touched(i)}
               = {recency[k] : k \in DOMAIN recency} \cup {i}
      BY <1>1, <1>3, TouchedFacts
    <2>2. recency' = Touched(i) /\ {recency[k] : k \in DOMAIN recency} = DOMAIN caches
      BY <1>1, <1>2
    <2> QED
      BY <2>1, <2>2, Zenon
  <1>4. CASE Hits(pos) # {}
    <2>1. i = CHOOSE k \in Hits(pos) : \A m \in Hits(pos) : k <= m
      BY <1>4 DEF BestCache, i
    <2>2. i \in Hits(pos)
      <3>1. Hits(pos) \subseteq Nat
        BY <1>1
      <3> QED
        BY <1>4, <2>1, <3>1, LeastIsThere
    <2>3. i \in DOMAIN caches /\ i \in Nat /\ i <= Len(caches)
      BY <1>1, <2>2
    <2>4. caches' = caches
      BY <1>1, <1>2, <1>4, <2>3
    <2>5. CachesInv'
      BY <2>4 DEF CachesInv, CacheInv, EndPos, Genuine
    <2> QED
      BY <1>1, <1>3, <2>3, <2>4, <2>5 DEF RecencyOK, i
  <1>5. CASE Hits(pos) = {} /\ MayGrow
    <2>1. i = Len(caches) + 1
      BY <1>5 DEF BestCache, i
    <2>2. caches' = Append(caches, NewCache(pos))
      BY <1>1, <1>2, <1>5, <2>1
    <2>3. /\ caches' \in Seq(Cache) /\ Len(caches') = Len(caches) + 1
          /\ DOMAIN caches' = 1 .. Len(caches) + 1
          /\ caches'[Len(caches) + 1] = NewCache(pos)
          /\ \A k \in 1 .. Len(caches) : caches'[k] = caches[k]
      BY <1>1, <2>2, NewCacheFacts
    <2>4. \A k \in DOMAIN caches' : CacheInv(caches'[k])
      <3> SUFFICES ASSUME NEW k \in DOMAIN caches' PROVE CacheInv(caches'[k])
        OBVIOUS
      <3>1. k \in 1 .. Len(caches) \/ k = Len(caches) + 1
        BY <1>1, <2>3
      <3> QED
        BY <1>1, <2>3, <3>1, NewCacheFacts DEF CachesInv
    <2>5. CachesInv'
      BY <2>4 DEF CachesInv, CacheInv, EndPos, Genuine
    <2>6. Len(caches') <= MaxCaches
      BY <1>1, <1>5, <2>3, BoundFacts DEF MayGrow
    <2>7. i \in Nat /\ i \in DOMAIN caches' /\ DOMAIN caches' = DOMAIN caches \cup {i}
      BY <1>1, <2>1, <2>3
    <2> QED
      BY <1>3, <2>3, <2>5, <2>6, <2>7 DEF RecencyOK, i
  <1>6. CASE Hits(pos) = {} /\ ~MayGrow
    <2>1. i = Head(recency)
      BY <1>6 DEF BestCache, i
    <2>2. Len(caches) >= 1 /\ 1 \in DOMAIN caches
      BY <1>1, <1>6, BoundFacts DEF MayGrow
    <2>3. recency # <<>>
      BY <1>1, <2>2
    <2>4. i = recency[1] /\ 1 \in DOMAIN recency
      BY <1>1, <2>1, <2>3
    <2>5. i \in DOMAIN caches
      BY <1>1, <2>4
    <2>6. i \in Nat /\ i <= Len(caches)
      BY <1>1, <2>5
    <2>7. caches' = [caches EXCEPT ![i] = NewCache(pos)]
      BY <1>1, <1>2, <1>6, <2>6
    <2>8. /\ caches' \in Seq(Cache) /\ Len(caches') = Len(caches)
          /\ DOMAIN caches' = DOMAIN caches /\ CachesInv'
      BY <2>5, <2>7, NewCacheFacts, OneCache
    <2> QED
      BY <1>1, <1>3, <2>5, <2>6, <2>8 DEF RecencyOK, i
  <1> QED
    BY <1>4, <1>5, <1>6

(***************************************************************************)
(* The media player's thread, and what the sink's other threads do.        *)
(***************************************************************************)
LEMMA SinkStep ==
  ASSUME IInv, SinkInv', LinkOK', UNCHANGED sourceVars, UNCHANGED answers
  PROVE  IInv'
  <1>1. SourceInv' /\ Later
    BY SourceStays DEF IInv
  <1> QED
    BY <1>1, AnswersStay DEF IInv, WireInv

\* Caches that are only added to, or changed where they began.
LEMMA ReaderStays ==
  ASSUME SinkOK, ReaderInv, SinkOK', RecencyOK', CachesInv', UNCHANGED <<item, reader>>,
         caches # <<>>, DOMAIN caches' = DOMAIN caches,
         \A i \in DOMAIN caches : caches'[i].start = caches[i].start
  PROVE  SinkInv'
  BY DEF SinkInv, ReaderInv, SinkOK

LEMMA SetSourceStep ==
  ASSUME IInv, SetSource
  PROVE  IInv'
  <1>1. LinkOK /\ SinkOK
    BY DEF IInv, WireInv, SinkInv
  <1>2. /\ commands # <<>> /\ reader.at = "idle" /\ item' = Head(commands)
        /\ commands' = Tail(commands) /\ listening' = (item' # None)
        /\ caches' = <<>> /\ recency' = <<>> /\ reader' = [reader EXCEPT !.pos = 0]
        /\ link' = IF item' # None /\ link = "none" THEN "asked" ELSE link
        /\ UNCHANGED <<channel, news, sourceVars, seeks, requests, answers>>
    BY DEF SetSource
  <1>3. commands \in Seq(Item \cup {None})
    BY <1>1 DEF LinkOK
  <1>4. item' \in Item \cup {None} /\ commands' \in Seq(Item \cup {None})
    BY <1>2, <1>3
  <1>5. LinkOK'
    BY <1>1, <1>2, <1>4 DEF LinkOK
  <1>6. reader' \in Reader /\ reader'.at = "idle"
    BY <1>1, <1>2, PositionFacts DEF SinkOK, Reader
  <1>7. SinkOK'
    BY <1>1, <1>2, <1>4, <1>6 DEF SinkOK
  <1>8. RecencyOK' /\ CachesInv' /\ ReaderInv'
    BY <1>2, <1>6, BoundFacts DEF RecencyOK, CachesInv, ReaderInv
  <1> QED
    BY <1>2, <1>5, <1>7, <1>8, SinkStep DEF SinkInv

LEMMA NotifyPlayCompleteStep ==
  ASSUME IInv, NotifyPlayComplete
  PROVE  IInv'
  <1>1. SinkInv /\ LinkOK
    BY DEF IInv, WireInv
  <1>2. /\ listening' = FALSE
        /\ UNCHANGED <<item, caches, recency, reader, seeks, sourceVars, linkVars,
                       requests, answers, commands>>
    BY DEF NotifyPlayComplete
  <1>3. LinkOK' /\ UNCHANGED <<given, crossed>>
    BY <1>1, <1>2 DEF LinkOK, linkVars, sourceVars
  <1>4. SinkInv'
    BY <1>1, <1>2, <1>3
    DEF SinkInv, SinkOK, RecencyOK, CachesInv, CacheInv, EndPos, Genuine, ReaderInv
  <1> QED
    BY <1>2, <1>3, <1>4, SinkStep

LEMMA OnDataReceivedStep ==
  ASSUME IInv, OnDataReceived
  PROVE  IInv'
  <1>1. SinkOK /\ RecencyOK /\ CachesInv /\ ReaderInv /\ LinkOK /\ AnswersInv
    BY DEF IInv, WireInv, SinkInv
  <1>2. /\ answers # <<>> /\ answers' = Tail(answers)
        /\ UNCHANGED <<item, listening, recency, reader, seeks, sourceVars, linkVars,
                       requests, commands>>
    BY DEF OnDataReceived
  <1>3. answers \in Seq(Answer)
    BY <1>1 DEF LinkOK
  <1>4. PICK a \in Answer : a = Head(answers) /\ AnswerInv(a)
    BY <1>1, <1>2, <1>3 DEF AnswersInv
  <1>5. UNCHANGED <<given, crossed>> /\ SourceInv' /\ Later
    BY <1>2, SourceStays DEF IInv, sourceVars
  <1>6. WireInv'
    <2>1. answers' \in Seq(Answer) /\ Len(answers') = Len(answers) - 1
          /\ \A k \in DOMAIN answers' :
               k + 1 \in DOMAIN answers /\ answers'[k] = answers[k + 1]
      BY <1>2, <1>3
    <2>2. LinkOK'
      BY <1>1, <1>2, <2>1 DEF LinkOK, linkVars
    <2>3. AnswersInv'
      BY <1>1, <1>5, <2>1 DEF AnswersInv, AnswerInv, Genuine
    <2> QED
      BY <2>2, <2>3 DEF WireInv
  <1>7. SinkInv'
    <2> DEFINE takers == {i \in DOMAIN caches : Takes(caches[i], a)}
               first == CHOOSE i \in takers : \A k \in takers : i <= k
    <2>1. caches' = IF listening /\ a.id = item.id /\ takers # {}
                      THEN [caches EXCEPT ![first] = Written(@, a)] ELSE caches
      BY <1>4 DEF OnDataReceived
    <2>2. CASE listening /\ a.id = item.id /\ takers # {}
      <3>1. takers \subseteq Nat
        BY <1>1 DEF SinkOK
      <3>2. first \in takers
        <4> HIDE DEF takers
        <4> QED
          BY <2>2, <3>1, LeastIsThere
      <3> HIDE DEF first
      <3>3. /\ first \in DOMAIN caches /\ caches[first] \in Cache
            /\ CacheInv(caches[first]) /\ Takes(caches[first], a)
        BY <1>1, <3>2 DEF SinkOK, CachesInv
      <3>4. /\ Written(caches[first], a) \in Cache /\ CacheInv(Written(caches[first], a))
            /\ Written(caches[first], a).start = caches[first].start
        BY <1>4, <2>2, <3>3, WrittenFacts
      <3>5. caches' = [caches EXCEPT ![first] = Written(caches[first], a)]
        BY <2>1, <2>2
      <3>6. /\ caches' \in Seq(Cache) /\ Len(caches') = Len(caches)
            /\ DOMAIN caches' = DOMAIN caches /\ CachesInv'
            /\ caches'[first] = Written(caches[first], a)
            /\ \A k \in DOMAIN caches \ {first} : caches'[k] = caches[k]
        BY <1>1, <1>2, <1>5, <3>3, <3>4, <3>5, OneCache
      <3>7. SinkOK' /\ RecencyOK'
        BY <1>1, <1>2, <3>6 DEF SinkOK, RecencyOK
      <3>8. \A i \in DOMAIN caches : caches'[i].start = caches[i].start
        BY <3>4, <3>6
      <3>9. caches # <<>>
        BY <3>3
      <3> QED
        BY <1>1, <1>2, <3>6, <3>7, <3>8, <3>9, ReaderStays
    <2>3. CASE ~(listening /\ a.id = item.id /\ takers # {})
      <3>1. UNCHANGED sinkVars
        BY <1>2, <2>1, <2>3 DEF sinkVars
      <3> QED
        BY <1>1, <1>5, <3>1, SinkStays DEF SinkInv
    <2> QED
      BY <2>2, <2>3
  <1> QED
    BY <1>5, <1>6, <1>7 DEF IInv

LEMMA RequestIsLateStep ==
  ASSUME IInv, NEW i \in 1 .. MaxCaches, RequestIsLate(i)
  PROVE  IInv'
  <1>1. SinkOK /\ RecencyOK /\ CachesInv /\ ReaderInv /\ LinkOK
    BY DEF IInv, WireInv, SinkInv
  <1>2. /\ i \in DOMAIN caches /\ caches' = [caches EXCEPT ![i].late = TRUE]
        /\ UNCHANGED <<item, listening, recency, reader, seeks, sourceVars, linkVars,
                       requests, answers, commands>>
    BY DEF RequestIsLate
  <1>3. caches[i] \in Cache /\ CacheInv(caches[i])
    BY <1>1, <1>2 DEF SinkOK, CachesInv
  <1> DEFINE c == [caches[i] EXCEPT !.late = TRUE]
  <1>4. c \in Cache /\ CacheInv(c) /\ c.start = caches[i].start
    BY <1>3, LateFacts
  <1>5. caches' = [caches EXCEPT ![i] = c]
    BY <1>2
  <1> HIDE DEF c
  <1>6. /\ caches' \in Seq(Cache) /\ Len(caches') = Len(caches)
        /\ DOMAIN caches' = DOMAIN caches /\ CachesInv'
        /\ caches'[i] = c /\ \A k \in DOMAIN caches \ {i} : caches'[k] = caches[k]
    BY <1>1, <1>2, <1>4, <1>5, OneCache DEF sourceVars
  <1>7. SinkOK' /\ RecencyOK' /\ LinkOK'
    BY <1>1, <1>2, <1>6 DEF SinkOK, RecencyOK, LinkOK, linkVars
  <1>8. \A k \in DOMAIN caches : caches'[k].start = caches[k].start
    BY <1>4, <1>6
  <1>9. caches # <<>>
    BY <1>2
  <1>10. SinkInv'
    BY <1>1, <1>2, <1>6, <1>7, <1>8, <1>9, ReaderStays
  <1> QED
    BY <1>2, <1>7, <1>10, SinkStep

LEMMA ReadBufferStep ==
  ASSUME IInv, NEW pos \in Positions, ReadBuffer(pos)
  PROVE  IInv'
  <1>1. SinkOK /\ RecencyOK /\ CachesInv /\ ReaderInv /\ LinkOK
    BY DEF IInv, WireInv, SinkInv
  <1>2. /\ item # None /\ reader.at = "idle" /\ GetBestCache(pos)
        /\ seeks' = (IF pos = reader.pos THEN seeks ELSE seeks + 1) /\ seeks' <= MaxSeeks
        /\ reader' = [reader EXCEPT !.at = "solve", !.stage = "before", !.pos = pos,
                                    !.cache = BestCache(pos), !.asked = BestCache(pos)]
        /\ UNCHANGED <<item, listening, sourceVars, linkVars, requests, answers, commands>>
    BY DEF ReadBuffer
  <1>3. /\ caches' \in Seq(Cache) /\ recency' \in Seq(Nat) /\ RecencyOK' /\ CachesInv'
        /\ BestCache(pos) \in DOMAIN caches'
    BY <1>1, <1>2, GetBestCacheFacts DEF sourceVars
  <1>4. BestCache(pos) \in Nat
    BY <1>3
  <1>5. /\ reader' \in Reader /\ reader'.at = "solve"
        /\ reader'.cache = BestCache(pos) /\ reader'.asked = BestCache(pos)
    BY <1>1, <1>2, <1>4 DEF SinkOK, Reader
  <1>6. seeks' \in 0 .. MaxSeeks
    BY <1>1, <1>2, BoundFacts DEF SinkOK
  <1>7. SinkOK' /\ LinkOK'
    BY <1>1, <1>2, <1>3, <1>5, <1>6 DEF SinkOK, LinkOK, linkVars
  <1>8. ReaderInv'
    BY <1>2, <1>3, <1>5 DEF ReaderInv
  <1> QED
    BY <1>2, <1>3, <1>7, <1>8, SinkStep DEF SinkInv

LEMMA NextCacheStep ==
  ASSUME IInv, NextCache
  PROVE  IInv'
  <1>1. SinkOK /\ RecencyOK /\ CachesInv /\ ReaderInv /\ LinkOK
    BY DEF IInv, WireInv, SinkInv
  <1>2. PICK pos : /\ pos = EndPos(caches[reader.cache]) /\ GetBestCache(pos)
                   /\ reader' = [reader EXCEPT !.at = "solve", !.asked = BestCache(pos)]
    BY DEF NextCache
  <1>3. /\ reader.at = "next"
        /\ UNCHANGED <<item, listening, seeks, sourceVars, linkVars, requests, answers, commands>>
    BY DEF NextCache
  <1>4. pos \in Positions
    BY <1>1, <1>2, <1>3 DEF ReaderInv, CachesInv, CacheInv
  <1>5. /\ caches' \in Seq(Cache) /\ recency' \in Seq(Nat) /\ RecencyOK' /\ CachesInv'
        /\ BestCache(pos) \in DOMAIN caches' /\ DOMAIN caches \subseteq DOMAIN caches'
    BY <1>1, <1>2, <1>3, <1>4, GetBestCacheFacts DEF sourceVars
  <1>6. BestCache(pos) \in Nat
    BY <1>5
  <1>7. /\ reader' \in Reader /\ reader'.at = "solve"
        /\ reader'.cache = reader.cache /\ reader'.asked = BestCache(pos)
    BY <1>1, <1>2, <1>6 DEF SinkOK, Reader
  <1>8. SinkOK' /\ LinkOK'
    BY <1>1, <1>3, <1>5, <1>7 DEF SinkOK, LinkOK, linkVars
  <1>9. ReaderInv'
    BY <1>1, <1>3, <1>5, <1>7 DEF ReaderInv
  <1> QED
    BY <1>3, <1>5, <1>8, <1>9, SinkStep DEF SinkInv

\* A step of the reader that goes on with the caches it has.
LEMMA ReaderGoesOn ==
  ASSUME IInv, reader.at # "idle", reader' \in Reader,
         reader'.cache = reader.cache, reader'.asked \in {reader.cache, reader.asked},
         reader'.at = "wait" => caches[reader.cache].start <= reader'.pos,
         caches' \in Seq(Cache), DOMAIN caches' = DOMAIN caches, Len(caches') = Len(caches),
         \A i \in DOMAIN caches : caches'[i].start = caches[i].start,
         CachesInv', recency' \in Seq(Nat),
         {recency'[k] : k \in DOMAIN recency'} = {recency[k] : k \in DOMAIN recency},
         LinkOK', UNCHANGED <<item, listening, seeks, sourceVars, answers>>
  PROVE  IInv'
  <1>1. SinkOK /\ RecencyOK /\ ReaderInv
    BY DEF IInv, SinkInv
  <1>2. SinkOK' /\ RecencyOK'
    BY <1>1 DEF SinkOK, RecencyOK
  <1>3. ReaderInv'
    BY <1>1 DEF ReaderInv
  <1> QED
    BY <1>2, <1>3, SinkStep DEF SinkInv

\* The caches as they are.
LEMMA SameCaches ==
  ASSUME SinkOK, CachesInv, UNCHANGED <<caches, item, given, crossed>>
  PROVE  /\ caches' \in Seq(Cache) /\ DOMAIN caches' = DOMAIN caches
         /\ Len(caches') = Len(caches) /\ CachesInv'
         /\ \A i \in DOMAIN caches : caches'[i].start = caches[i].start
  BY DEF SinkOK, CachesInv, CacheInv, EndPos, Genuine

LEMMA SolvedFacts ==
  ASSUME SinkOK
  PROVE  /\ Solved \in Reader /\ Solved.at \in {"read", "idle"}
         /\ Solved.cache = reader.cache /\ Solved.asked = reader.asked
  BY DEF SinkOK, Reader, Solved

LEMMA RequestByteDataStep ==
  ASSUME IInv, RequestByteData
  PROVE  IInv'
  <1>1. SinkOK /\ RecencyOK /\ CachesInv /\ ReaderInv /\ LinkOK
    BY DEF IInv, WireInv, SinkInv
  <1> DEFINE request == [id |-> item.id, start |-> reader.range[1], end |-> reader.range[2]]
  <1>2. /\ reader.at = "request" /\ requests' = Carried("sink", requests, request)
        /\ reader' = [Solved EXCEPT !.range = <<0, 0>>]
        /\ UNCHANGED <<item, listening, caches, recency, seeks, sourceVars, linkVars, answers,
                       commands>>
    BY DEF RequestByteData
  <1>3. request \in Request
    BY <1>1, <1>2 DEF ReaderInv, SinkOK, Item, Reader, Request
  <1>4. requests \in Seq(Request)
    BY <1>1 DEF LinkOK
  <1>5. requests' \in Seq(Request)
    BY <1>2, <1>3, <1>4 DEF Carried
  <1>6. LinkOK'
    BY <1>1, <1>2, <1>5 DEF LinkOK, linkVars
  <1>7. /\ reader' \in Reader /\ reader'.at \in {"read", "idle"}
        /\ reader'.cache = reader.cache /\ reader'.asked = reader.asked
    BY <1>1, <1>2, SolvedFacts DEF Reader
  <1>8. SinkOK' /\ RecencyOK' /\ CachesInv'
    BY <1>1, <1>2, <1>7, SameCaches DEF SinkOK, RecencyOK, sourceVars
  <1>9. ReaderInv'
    BY <1>1, <1>2, <1>7 DEF ReaderInv
  <1> QED
    BY <1>2, <1>6, <1>8, <1>9, SinkStep DEF SinkInv

LEMMA IsNeedReqDataStep ==
  ASSUME IInv, IsNeedReqData
  PROVE  IInv'
  <1>1. SinkOK /\ RecencyOK /\ CachesInv /\ ReaderInv /\ LinkOK
    BY DEF IInv, WireInv, SinkInv
  <1> DEFINE i == reader.asked
             c == caches[i]
  <1>2. /\ reader.at = "solve"
        /\ UNCHANGED <<item, listening, recency, seeks, sourceVars, linkVars,
                       requests, answers, commands>>
    BY DEF IsNeedReqData
  <1>3. UNCHANGED <<given, crossed>> /\ LinkOK'
    BY <1>1, <1>2 DEF LinkOK, linkVars, sourceVars
  <1>4. i \in DOMAIN caches /\ c \in Cache /\ CacheInv(c) /\ reader \in Reader
    BY <1>1, <1>2 DEF ReaderInv, SinkOK, CachesInv
  <1>5. \/ /\ reader' \in {Solved, [reader EXCEPT !.at = "next"]}
           /\ UNCHANGED caches
        \/ /\ ~IsFull(c) /\ caches' = [caches EXCEPT ![i] = Requested(c)]
           /\ reader' = [reader EXCEPT !.at = "request", !.range = <<EndPos(c), RequestEnd(c)>>]
    BY DEF IsNeedReqData
  <1> HIDE DEF i
  <1>6. CASE reader' \in {Solved, [reader EXCEPT !.at = "next"]} /\ UNCHANGED caches
    <2>1. /\ reader' \in Reader /\ reader'.at # "wait"
          /\ reader'.cache = reader.cache /\ reader'.asked = reader.asked
      BY <1>1, <1>4, <1>6, SolvedFacts DEF Reader
    <2>2. recency' \in Seq(Nat) /\ UNCHANGED recency
      BY <1>1, <1>2 DEF SinkOK
    <2> QED
      BY <1>1, <1>2, <1>3, <1>6, <2>1, <2>2, SameCaches, ReaderGoesOn
  <1>7. CASE /\ ~IsFull(c) /\ caches' = [caches EXCEPT ![i] = Requested(c)]
             /\ reader' = [reader EXCEPT !.at = "request",
                                         !.range = <<EndPos(c), RequestEnd(c)>>]
    <2>1. /\ RequestEnd(c) \in Nat /\ Requested(c) \in Cache /\ CacheInv(Requested(c))
          /\ Requested(c).start = c.start /\ EndPos(c) \in Nat
      BY <1>4, <1>7, RequestedFacts, EndFacts
    <2>2. /\ caches' \in Seq(Cache) /\ Len(caches') = Len(caches)
          /\ DOMAIN caches' = DOMAIN caches /\ CachesInv'
          /\ caches'[i] = Requested(c) /\ \A k \in DOMAIN caches \ {i} : caches'[k] = caches[k]
      BY <1>1, <1>2, <1>3, <1>4, <1>7, <2>1, OneCache
    <2>3. \A k \in DOMAIN caches : caches'[k].start = caches[k].start
      BY <2>1, <2>2
    <2>4. /\ reader' \in Reader /\ reader'.at = "request"
          /\ reader'.cache = reader.cache /\ reader'.asked = reader.asked
      BY <1>4, <1>7, <2>1 DEF Reader
    <2>5. recency' \in Seq(Nat) /\ UNCHANGED recency
      BY <1>1, <1>2 DEF SinkOK
    <2> QED
      BY <1>2, <1>3, <2>2, <2>3, <2>4, <2>5, ReaderGoesOn
  <1> QED
    BY <1>5, <1>6, <1>7

\* The cache read from, after the n bytes at pos were copied from it.
LEMMA CopiesFacts ==
  ASSUME SinkOK, RecencyOK, CachesInv, UNCHANGED <<item, given, crossed>>,
         reader.cache \in DOMAIN caches,
         caches[reader.cache].start <= reader.pos, reader.pos < EndPos(caches[reader.cache]),
         Copies(caches[reader.cache])
  PROVE  /\ reader' \in Reader /\ reader'.at = "solve"
         /\ reader'.cache = reader.cache /\ reader'.asked = reader.cache
         /\ caches' \in Seq(Cache) /\ DOMAIN caches' = DOMAIN caches
         /\ Len(caches') = Len(caches) /\ CachesInv'
         /\ \A i \in DOMAIN caches : caches'[i].start = caches[i].start
  <1> DEFINE i == reader.cache
             c == caches[i]
             n == Lesser(ReadSize, EndPos(c) - reader.pos)
  <1>1. /\ c \in Cache /\ CacheInv(c) /\ reader \in Reader /\ i \in DOMAIN caches
        /\ reader.pos \in Positions /\ reader.pos \in Nat
    <2>1. c \in Cache /\ CacheInv(c) /\ reader \in Reader
      BY DEF SinkOK, CachesInv
    <2>2. reader.pos \in Positions
      BY <2>1 DEF Reader
    <2> QED
      BY <2>1, <2>2, PositionFacts
  <1>2. EndPos(c) \in Nat /\ EndPos(c) \in Positions
    BY <1>1, EndFacts DEF CacheInv
  <1>3. /\ reader' = [reader EXCEPT !.at = "solve", !.stage = "after", !.asked = i,
                                    !.pos = @ + n]
        /\ caches' = [caches EXCEPT ![i] = [c EXCEPT !.curr = reader.pos]]
    BY DEF Copies, Returns
  <1> HIDE DEF i, c
  <1>4. n \in Nat /\ reader.pos + n \in Nat /\ reader.pos + n <= EndPos(c)
    BY <1>1, <1>2, BoundFacts DEF Lesser, c, i
  <1>5. reader.pos + n \in Positions
    BY <1>2, <1>4, PositionFacts
  <1> HIDE DEF n
  <1>6. /\ reader' \in Reader /\ reader'.at = "solve"
        /\ reader'.cache = reader.cache /\ reader'.asked = i
    <2>1. i \in Nat
      BY <1>1 DEF SinkOK
    <2>2. reader'.pos = reader.pos + n
      BY <1>1, <1>3 DEF Reader
    <2> QED
      BY <1>1, <1>3, <1>5, <2>1, <2>2 DEF Reader, i
  <1>7. /\ [c EXCEPT !.curr = reader.pos] \in Cache
        /\ CacheInv([c EXCEPT !.curr = reader.pos])
        /\ [c EXCEPT !.curr = reader.pos].start = c.start
    <2>1. c.start <= reader.pos /\ reader.pos <= EndPos(c)
      <3>1. c.start <= reader.pos /\ reader.pos < EndPos(c)
        BY DEF c, i
      <3> QED
        BY <1>1, <1>2, <3>1
    <2> QED
      BY <1>1, <2>1, CurrFacts
  <1>8. /\ caches' \in Seq(Cache) /\ Len(caches') = Len(caches)
        /\ DOMAIN caches' = DOMAIN caches /\ CachesInv'
        /\ caches'[i] = [c EXCEPT !.curr = reader.pos]
        /\ \A k \in DOMAIN caches \ {i} : caches'[k] = caches[k]
    BY <1>1, <1>3, <1>7, OneCache
  <1>9. \A k \in DOMAIN caches : caches'[k].start = caches[k].start
    BY <1>7, <1>8 DEF c
  <1> QED
    BY <1>6, <1>8, <1>9 DEF i

LEMMA ReturnsNothing ==
  ASSUME SinkOK, reader' = Returns(0)
  PROVE  /\ reader' \in Reader /\ reader'.at = "solve"
         /\ reader'.cache = reader.cache /\ reader'.asked = reader.cache
  <1>1. reader \in Reader /\ reader.pos + 0 = reader.pos
    <2>1. reader \in Reader
      BY DEF SinkOK
    <2>2. reader.pos \in Positions
      BY <2>1 DEF Reader
    <2>3. reader.pos \in Nat
      BY <2>2, PositionFacts
    <2> QED
      BY <2>1, <2>3
  <1> QED
    BY <1>1 DEF Returns, Reader

LEMMA ReadStep ==
  ASSUME IInv, Read
  PROVE  IInv'
  <1>1. SinkOK /\ RecencyOK /\ CachesInv /\ ReaderInv /\ LinkOK
    BY DEF IInv, WireInv, SinkInv
  <1> DEFINE c == caches[reader.cache]
  <1>2. /\ reader.at = "read"
        /\ UNCHANGED <<item, listening, seeks, sourceVars, linkVars, requests, answers, commands>>
        /\ IF ~InRange(c, reader.pos)
             THEN reader' = Returns(0) /\ UNCHANGED <<caches, recency>>
             ELSE /\ recency' = Touched(reader.cache)
                  /\ IF reader.pos >= EndPos(c)
                       THEN reader' = [reader EXCEPT !.at = "wait"] /\ UNCHANGED caches
                       ELSE Copies(c)
    BY DEF Read
  <1>3. UNCHANGED <<item, given, crossed>> /\ LinkOK'
    BY <1>1, <1>2 DEF LinkOK, linkVars, sourceVars
  <1>4. /\ reader.cache \in DOMAIN caches /\ c \in Cache /\ reader \in Reader
        /\ reader.pos \in Nat /\ reader.cache \in Nat /\ EndPos(c) \in Nat
        /\ {recency[k] : k \in DOMAIN recency} = DOMAIN caches /\ recency \in Seq(Nat)
    BY <1>1, <1>2, EndFacts, PositionFacts DEF ReaderInv, SinkOK, Reader, RecencyOK
  <1>5. CASE ~InRange(c, reader.pos)
    <2>1. reader' = Returns(0) /\ UNCHANGED <<caches, recency>>
      BY <1>2, <1>5
    <2> QED
      BY <1>1, <1>2, <1>3, <1>4, <2>1, ReturnsNothing, SameCaches, ReaderGoesOn
  <1>6. CASE InRange(c, reader.pos)
    <2>1. recency' = Touched(reader.cache) /\ c.start <= reader.pos
      BY <1>2, <1>6 DEF InRange
    <2>2. /\ Touched(reader.cache) \in Seq(Nat)
          /\ {Touched(reader.cache)[k] : k \in DOMAIN Touched(reader.cache)}
               = {recency[k] : k \in DOMAIN recency}
      BY <1>4, TouchedFacts
    <2>3. recency' \in Seq(Nat)
      BY <2>1, <2>2
    <2>4. {recency'[k] : k \in DOMAIN recency'} = {recency[k] : k \in DOMAIN recency}
      BY <2>1, <2>2, Zenon
    <2>5. CASE reader.pos >= EndPos(c)
      <3>1. reader' = [reader EXCEPT !.at = "wait"] /\ UNCHANGED caches
        BY <1>2, <1>6, <2>5
      <3>2. /\ reader' \in Reader /\ reader'.pos = reader.pos
            /\ reader'.cache = reader.cache /\ reader'.asked = reader.asked
        BY <1>4, <3>1 DEF Reader
      <3> QED
        BY <1>1, <1>2, <1>3, <1>4, <2>1, <2>3, <2>4, <3>1, <3>2, SameCaches, ReaderGoesOn
    <2>6. CASE ~(reader.pos >= EndPos(c))
      <3>1. Copies(c) /\ reader.pos < EndPos(c)
        BY <1>2, <1>4, <1>6, <2>6
      <3> QED
        BY <1>1, <1>2, <1>3, <1>4, <2>1, <2>3, <2>4, <3>1, CopiesFacts, ReaderGoesOn
    <2> QED
      BY <2>5, <2>6
  <1> QED
    BY <1>5, <1>6

LEMMA WaitEndsStep ==
  ASSUME IInv, WaitEnds
  PROVE  IInv'
  <1>1. SinkOK /\ RecencyOK /\ CachesInv /\ ReaderInv /\ LinkOK
    BY DEF IInv, WireInv, SinkInv
  <1> DEFINE i == reader.cache
             c == caches[i]
  <1>2. /\ reader.at = "wait"
        /\ UNCHANGED <<item, listening, recency, seeks, sourceVars, linkVars,
                       requests, answers, commands>>
        /\ IF reader.pos < EndPos(c) THEN Copies(c)
           ELSE reader' = Returns(0) /\ caches' = [caches EXCEPT ![i] = Expired(c)]
    BY DEF WaitEnds
  <1>3. UNCHANGED <<item, given, crossed>> /\ LinkOK'
    BY <1>1, <1>2 DEF LinkOK, linkVars, sourceVars
  <1>4. /\ i \in DOMAIN caches /\ c \in Cache /\ CacheInv(c) /\ c.start <= reader.pos
        /\ recency' \in Seq(Nat) /\ UNCHANGED recency
    BY <1>1, <1>2 DEF ReaderInv, SinkOK, CachesInv
  <1>5. CASE reader.pos < EndPos(c)
    BY <1>1, <1>2, <1>3, <1>4, <1>5, CopiesFacts, ReaderGoesOn
  <1>6. CASE ~(reader.pos < EndPos(c))
    <2>1. reader' = Returns(0) /\ caches' = [caches EXCEPT ![i] = Expired(c)]
      BY <1>2, <1>6
    <2>2. Expired(c) \in Cache /\ CacheInv(Expired(c)) /\ Expired(c).start = c.start
      BY <1>4, ExpiredFacts
    <2>3. /\ caches' \in Seq(Cache) /\ Len(caches') = Len(caches)
          /\ DOMAIN caches' = DOMAIN caches /\ CachesInv'
          /\ caches'[i] = Expired(c) /\ \A k \in DOMAIN caches \ {i} : caches'[k] = caches[k]
      BY <1>1, <1>3, <1>4, <2>1, <2>2, OneCache
    <2>4. \A k \in DOMAIN caches : caches'[k].start = caches[k].start
      BY <2>2, <2>3
    <2> QED
      BY <1>1, <1>2, <1>3, <1>4, <2>1, <2>3, <2>4, ReturnsNothing, ReaderGoesOn
  <1> QED
    BY <1>5, <1>6

(***************************************************************************)
(* The invariant holds at first and is kept.                               *)
(***************************************************************************)
LEMMA InitIInv == Init => IInv
  <1> SUFFICES ASSUME Init PROVE IInv
    OBVIOUS
  <1>1. /\ SourceOK /\ LinkOK /\ SinkOK /\ RecencyOK
    <2>1. SourceOK
      <3>1. Closed \in [file : Files \cup {None}, offset : Positions]
        BY PositionFacts DEF Closed
      <3>2. MaxFds \in Nat /\ 0 \in 0 .. MaxFds
        BY BoundFacts
      <3>3. load \in [Loads -> [at : {"none", "clear", "add", "notify", "done"}, fd : 0 .. MaxFds]]
        BY <3>2 DEF Init
      <3>4. fileMap \in [Fds -> Files \cup {None}]
        BY DEF Init, NoEntry
      <3> QED
        BY <3>1, <3>3, <3>4 DEF Init, SourceOK, Task
    <2>2. LinkOK
      BY DEF Init, LinkOK
    <2>3. reader \in Reader
      BY PositionFacts DEF Init, Reader
    <2>4. SinkOK
      <3>1. seeks \in 0 .. MaxSeeks
        BY BoundFacts DEF Init
      <3> QED
        <4>1. item \in Item \cup {None} /\ listening \in BOOLEAN
          BY DEF Init
        <4>2. caches \in Seq(Cache) /\ recency \in Seq(Nat)
          BY DEF Init
        <4> QED
          BY <2>3, <3>1, <4>1, <4>2 DEF SinkOK
    <2>5. RecencyOK
      BY BoundFacts DEF Init, RecencyOK
    <2> QED
      BY <2>1, <2>2, <2>4, <2>5
  <1>2. LoadInv /\ DescriptorInv /\ ServeInv
    BY DEF Init, LoadInv, DescriptorInv, ServeInv, Holds, IsToRead, Closed, NoEntry, Idle
  <1>3. AnswersInv /\ CachesInv /\ ReaderInv
    BY DEF Init, AnswersInv, CachesInv, ReaderInv
  <1> QED
    BY <1>1, <1>2, <1>3 DEF IInv, SourceInv, WireInv, SinkInv

LEMMA NextIInv == IInv /\ [Next]_vars => IInv'
  <1> SUFFICES ASSUME IInv, [Next]_vars PROVE IInv'
    OBVIOUS
  <1>1. CASE Loading
    BY <1>1, ReadMediaInfoStep, ReadUrlStep, ClearAllLocalFileInfoStep,
       AddLocalFileInfoStep,
       NotifyPeerLoadStep DEF Loading
  <1>2. CASE Answering
    BY <1>2, TakeRequestStep, SeekStep, ReadFileDataByFdStep, SendDataStep DEF Answering
  <1>3. CASE Linking
    BY <1>3, LinkingStep
  <1>4. CASE OnDataReceived \/ SetSource \/ NotifyPlayComplete
    BY <1>4, OnDataReceivedStep, SetSourceStep, NotifyPlayCompleteStep
  <1>5. CASE Reading
    BY <1>5, ReadBufferStep, IsNeedReqDataStep, NextCacheStep, RequestByteDataStep,
       ReadStep,
       WaitEndsStep DEF Reading
  <1>6. CASE \E i \in 1 .. MaxCaches : RequestIsLate(i)
    BY <1>6, RequestIsLateStep
  <1>7. CASE UNCHANGED vars
    <2>1. UNCHANGED <<sourceVars, linkVars, sinkVars, requests, answers, commands>>
      BY <1>7 DEF vars
    <2> QED
      BY <2>1, SourceStays, SinkStays, WireStays DEF IInv
  <1> QED
    BY <1>1, <1>2, <1>3, <1>4, <1>5, <1>6, <1>7 DEF Next

LEMMA Invariant == Spec => []IInv
  BY InitIInv, NextIInv, PTL DEF Spec

(***************************************************************************)
(* The theorems.                                                           *)
(***************************************************************************)
LEMMA TypesFollow == IInv => TypeOK
  <1> SUFFICES ASSUME IInv PROVE TypeOK
    OBVIOUS
  <1>1. SourceOK /\ LinkOK /\ SinkOK /\ RecencyOK
    BY DEF IInv, SourceInv, WireInv, SinkInv
  <1>2. serve.at \in {"idle", "seek", "read", "send"}
    BY <1>1 DEF SourceOK, Task, Idle
  <1>3. \A i \in DOMAIN caches : caches[i] \in Cache
    BY <1>1 DEF SinkOK
  <1>4. \A i \in DOMAIN caches : caches[i].bytes \in Seq(Byte) /\ caches[i].late \in BOOLEAN
    BY <1>3 DEF Cache
  <1>5. reader.pos \in Positions
    BY <1>1 DEF SinkOK, Reader
  <1> QED
    BY <1>1, <1>2, <1>4, <1>5 DEF TypeOK, SourceOK, LinkOK, SinkOK, RecencyOK, Item

\* Whatever is asked, answered, lost, cached and read, every variable keeps its
\* type: no more caches than there may be, no position beyond a file's end, and
\* each cache once in the order of use.
THEOREM LocalFileTypeCorrect == Spec => []TypeOK
  BY Invariant, TypesFollow, PTL

\* For any files, Loads and descriptors: a descriptor is open exactly while it is
\* entered in fileMap_ or with the Load that has yet to enter it, so that none is
\* leaked and no entry is of a closed one, however Loads overlap.
THEOREM DescriptorsHeld == Spec => []FdsAreHeld
  <1>1. IInv => FdsAreHeld
    BY DEF IInv, SourceInv, DescriptorInv, FdsAreHeld, Holds
  <1> QED
    BY <1>1, Invariant, PTL

\* For any sizes of requests, answers and caches: no cache waits for or holds more
\* than it has room for, and each of its bytes is the byte at that position of a
\* file that had the item's number, unless a number was given away under the
\* thread that reads.
THEOREM CachesHoldTheFiles == Spec => []CachedIsTheFiles
  <1>1. IInv => CachedIsTheFiles
    BY DEF IInv, SinkInv, CachesInv, CacheInv, CachedIsTheFiles, Genuine
  <1> QED
    BY <1>1, Invariant, PTL
=============================================================================
