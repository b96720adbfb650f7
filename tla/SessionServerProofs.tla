------------------------ MODULE SessionServerProofs ------------------------
(***************************************************************************)
(* For any clients, listing processes, places and size of the channel: an  *)
(* answer is true, now and later, and a session that runs is in the        *)
(* registry, and nobody removes it, unless one who read its directory       *)
(* before it was private went on to remove it.                             *)
(***************************************************************************)
EXTENDS SessionServer, TLAPS

Answers == {"none", "ok"} \cup Refusals
Phases == {"none", "backlog", "reading", "sending", "rejecting", "waiting", "replying", "over"}
Connections == [at: Phases, method: {"none", "get", "reload"}, open: BOOLEAN, sent: BOOLEAN,
                reply: Answers, told: {"nothing"} \cup Answers]
Places == Running \cup Removals \cup {"finishing", "leaving", "exited"}
Views == [at: Places, load: Client \cup {NONE}]

Types ==
    /\ conn \in [Client -> Connections] /\ queue \in Seq(Client)
    /\ view \in Views /\ done \subseteq Client

Queued(c) == \E k \in DOMAIN queue : queue[k] = c
QueuedOnce == \A j, k \in DOMAIN queue : queue[j] = queue[k] => j = k

(* Where the command of a client is, by what its connection says: nowhere   *)
(* yet; in the channel or in the reload that loads, and then only once; or  *)
(* answered, and then for good.                                             *)
Standing(c) ==
    /\ conn[c].at \in {"none", "backlog", "reading", "sending", "rejecting"} =>
          conn[c].reply = "none" /\ c \notin done /\ ~Queued(c) /\ view.load # c
    /\ conn[c].at \in {"waiting", "replying"} =>
          /\ Queued(c) => view.load # c
          /\ conn[c].reply = "none" => c \notin done
          /\ conn[c].reply # "none" => ~Queued(c) /\ view.load # c
          /\ conn[c].reply # "none" => (c \in done <=> conn[c].reply = "ok")
    /\ conn[c].at = "replying" => conn[c].reply # "none"
    /\ conn[c].at = "over" =>
          /\ ~Queued(c) /\ view.load # c
          /\ conn[c].told = "ok" => c \in done
          /\ conn[c].told \in Refusals => c \notin done
    /\ conn[c].at # "over" => conn[c].told \in {"none", "nothing"}

AnswersInv == Types /\ QueuedOnce /\ \A c \in Client : Standing(c)

(* What the directory holds before each step of a startup nobody disturbs.  *)
Holds(step) ==
    CASE step = "make" -> NoEntry
      [] step = "secure" -> [NoEntry EXCEPT !.mode = "open"]
      [] step = "bind" -> [NoEntry EXCEPT !.mode = "private"]
      [] step \in {"restrict", "remake", "resecure", "write"} ->
            [mode |-> "private", socket |-> "bound", record |-> FALSE, temp |-> FALSE]
      [] step = "rename" -> [mode |-> "private", socket |-> "bound", record |-> FALSE, temp |-> TRUE]
      [] step \in {"protect", "serving"} ->
            [mode |-> "private", socket |-> "bound", record |-> TRUE, temp |-> FALSE]

RegistryInv ==
    /\ server \in ToSet(Steps) \cup {"failed"} /\ scan = [s \in Scanner |-> scan[s]]
    /\ hasty = [s \in Scanner |-> hasty[s]]
    /\ /\ server # "failed" /\ view.at \in Running \cup {"finishing"}
       /\ \A s \in Scanner : hasty[s] # "removed"
       => /\ entry = Holds(server)
          /\ \A s \in Scanner :
                /\ scan[s] \in {"idle", "reading", "probing", "checking"}
                /\ scan[s] = "probing" => entry.socket = "bound"
                /\ scan[s] = "checking" => hasty[s] = "read"

---------------------------------------------------------------------------
(* What an action does to connections. *)
LEMMA OverFields ==
  ASSUME conn \in [Client -> Connections], NEW c \in Client,
         NEW told \in {"nothing"} \cup Answers, Over(c, told)
  PROVE  /\ conn' \in [Client -> Connections]
         /\ conn'[c].at = "over" /\ conn'[c].told = told /\ conn'[c].reply = conn[c].reply
         /\ \A d \in Client : d # c => conn'[d] = conn[d]
<1> DEFINE n == [conn[c] EXCEPT !.at = "over", !.open = FALSE, !.told = told]
<1>1. n \in Connections /\ n.at = "over" /\ n.told = told /\ n.reply = conn[c].reply
  BY DEF Connections, Phases
<1>2. conn' = [conn EXCEPT ![c] = n]
  BY DEF Over
<1> HIDE DEF n
<1> QED  BY <1>1, <1>2

LEMMA ReplyFields ==
  ASSUME conn \in [Client -> Connections], NEW c \in Client, NEW result \in Answers, Reply(c, result)
  PROVE  /\ conn' \in [Client -> Connections]
         /\ conn'[c].at = "replying" /\ conn'[c].reply = result /\ conn'[c].told = conn[c].told
         /\ \A d \in Client : d # c => conn'[d] = conn[d]
<1> DEFINE n == [conn[c] EXCEPT !.at = "replying", !.reply = result]
<1>1. n \in Connections /\ n.at = "replying" /\ n.reply = result /\ n.told = conn[c].told
  BY DEF Connections, Phases
<1>2. conn' = [conn EXCEPT ![c] = n]
  BY DEF Reply
<1> HIDE DEF n
<1> QED  BY <1>1, <1>2

LEMMA MovesFields ==
  ASSUME conn \in [Client -> Connections], NEW c \in Client, NEW at \in Phases,
         conn' = [conn EXCEPT ![c].at = at]
  PROVE  /\ conn' \in [Client -> Connections]
         /\ conn'[c].at = at /\ conn'[c].reply = conn[c].reply /\ conn'[c].told = conn[c].told
         /\ \A d \in Client : d # c => conn'[d] = conn[d]
<1> DEFINE n == [conn[c] EXCEPT !.at = at]
<1>1. n \in Connections /\ n.at = at /\ n.reply = conn[c].reply /\ n.told = conn[c].told
  BY DEF Connections
<1>2. conn' = [conn EXCEPT ![c] = n]
  OBVIOUS
<1> HIDE DEF n
<1> QED  BY <1>1, <1>2

LEMMA ToldFields ==
  ASSUME conn \in [Client -> Connections], NEW cs, NEW result \in Answers
  PROVE  /\ Told(cs, result) \in [Client -> Connections]
         /\ \A c \in cs \cap Client :
               /\ Told(cs, result)[c].at = conn[c].at /\ Told(cs, result)[c].told = conn[c].told
               /\ Told(cs, result)[c].reply = result
         /\ \A c \in Client \ cs : Told(cs, result)[c] = conn[c]
<1>1. ASSUME NEW c \in Client
      PROVE  LET n == [conn[c] EXCEPT !.reply = result]
             IN  n \in Connections /\ n.at = conn[c].at /\ n.told = conn[c].told /\ n.reply = result
  BY DEF Connections
<1> QED  BY <1>1 DEF Told

LEMMA DroppedFields ==
  ASSUME conn \in [Client -> Connections], NEW c \in Client
  PROVE  /\ Dropped(c) \in Connections /\ Dropped(c).at = "over" /\ Dropped(c).told = "nothing"
BY DEF Dropped, Connections, Phases

(* A command that stays where it is. *)
LEMMA StandingKept ==
  ASSUME NEW c \in Client, Standing(c),
         conn'[c].at = conn[c].at, conn'[c].reply = conn[c].reply,
         conn'[c].told = conn[c].told \/ conn'[c].told = "nothing",
         c \in done' <=> c \in done, Queued(c)' <=> Queued(c), view'.load = c <=> view.load = c
  PROVE  Standing(c)'
<1> DEFINE q == Queued(c)
<1>1. "nothing" \notin Refusals /\ "nothing" # "ok"
  BY DEF Refusals
<1>2. q' <=> Queued(c)'
  OBVIOUS
<1> QED  BY <1>1 DEF Standing

(* The channel. *)
LEMMA Channel ==
  ASSUME queue \in Seq(Client), QueuedOnce
  PROVE  /\ \A c \in Client : queue' = Append(queue, c) /\ ~Queued(c) =>
               /\ queue' \in Seq(Client) /\ QueuedOnce' /\ Queued(c)'
               /\ \A d \in Client : d # c => (Queued(d)' <=> Queued(d))
         /\ queue # <<>> /\ queue' = Tail(queue) =>
               /\ queue' \in Seq(Client) /\ QueuedOnce' /\ Head(queue) \in Client
               /\ \A c \in Client : c = Head(queue) => Queued(c) /\ ~Queued(c)'
               /\ \A d \in Client : d # Head(queue) => (Queued(d)' <=> Queued(d))
         /\ queue' = <<>> => queue' \in Seq(Client) /\ QueuedOnce' /\ \A c \in Client : ~Queued(c)'
         /\ queue' = queue => QueuedOnce' /\ \A c \in Client : Queued(c)' <=> Queued(c)
<1>1. ASSUME NEW c \in Client, queue' = Append(queue, c), ~Queued(c)
      PROVE  /\ queue' \in Seq(Client) /\ QueuedOnce' /\ Queued(c)'
             /\ \A d \in Client : d # c => (Queued(d)' <=> Queued(d))
  <2>1. /\ queue' \in Seq(Client) /\ DOMAIN queue' = 1..(Len(queue) + 1) /\ DOMAIN queue = 1..Len(queue)
        /\ Len(queue) \in Nat /\ queue'[Len(queue) + 1] = c
        /\ \A k \in DOMAIN queue : queue'[k] = queue[k] /\ k \in DOMAIN queue'
        /\ \A k \in DOMAIN queue' : k \in DOMAIN queue \/ k = Len(queue) + 1
    BY <1>1
  <2>2. QueuedOnce'
    BY <1>1, <2>1 DEF QueuedOnce, Queued
  <2>3. Queued(c)'
    BY <2>1 DEF Queued
  <2> QED  BY <2>1, <2>2, <2>3 DEF Queued
<1>2. ASSUME queue # <<>>, queue' = Tail(queue)
      PROVE  /\ queue' \in Seq(Client) /\ QueuedOnce' /\ Head(queue) \in Client
             /\ \A c \in Client : c = Head(queue) => Queued(c) /\ ~Queued(c)'
             /\ \A d \in Client : d # Head(queue) => (Queued(d)' <=> Queued(d))
  <2>1. /\ queue' \in Seq(Client) /\ DOMAIN queue' = 1..(Len(queue) - 1) /\ DOMAIN queue = 1..Len(queue)
        /\ Len(queue) \in Nat \ {0} /\ 1 \in DOMAIN queue /\ Head(queue) = queue[1] /\ Head(queue) \in Client
        /\ \A k \in DOMAIN queue' : queue'[k] = queue[k + 1] /\ k + 1 \in DOMAIN queue /\ k + 1 # 1
        /\ \A k \in DOMAIN queue : k = 1 \/ (k - 1 \in DOMAIN queue' /\ queue'[k - 1] = queue[k])
    BY <1>2
  <2>2. QueuedOnce'
    <3> SUFFICES ASSUME NEW j \in DOMAIN queue', NEW k \in DOMAIN queue', queue'[j] = queue'[k]
                 PROVE  j = k
      BY DEF QueuedOnce
    <3>1. j + 1 = k + 1 /\ j \in Nat /\ k \in Nat
      BY <2>1 DEF QueuedOnce
    <3> QED  BY <3>1
  <2>3. Queued(Head(queue))
    BY <2>1 DEF Queued
  <2>4. ASSUME NEW k \in DOMAIN queue', queue'[k] = Head(queue) PROVE FALSE
    BY <2>1, <2>4 DEF QueuedOnce
  <2>5. ASSUME NEW d \in Client, d # Head(queue) PROVE Queued(d)' <=> Queued(d)
    BY <2>1, <2>5 DEF Queued
  <2>6. ASSUME NEW c \in Client, c = Head(queue) PROVE Queued(c) /\ ~Queued(c)'
    BY <2>3, <2>4, <2>6 DEF Queued
  <2> QED  BY <2>1, <2>2, <2>3, <2>4, <2>5, <2>6
<1>3. ASSUME queue' = <<>>
      PROVE  queue' \in Seq(Client) /\ QueuedOnce' /\ \A c \in Client : ~Queued(c)'
  BY <1>3 DEF QueuedOnce, Queued
<1>4. ASSUME queue' = queue
      PROVE  QueuedOnce' /\ \A c \in Client : Queued(c)' <=> Queued(c)
  BY <1>4 DEF QueuedOnce, Queued
<1> QED  BY <1>1, <1>2, <1>3, <1>4

(* Clients, and the server's end of their connections. *)
LEMMA ConnectionStep ==
  ASSUME AnswersInv, NEW c \in Client, NEW method \in {"get", "reload"},
         Connect(c, method) \/ Send(c) \/ Leave(c) \/ Connection(c)
  PROVE  AnswersInv'
<1>0. /\ conn \in [Client -> Connections] /\ queue \in Seq(Client) /\ QueuedOnce
      /\ Standing(c) /\ conn[c] \in Connections
      /\ view' = view /\ done' = done /\ view \in Views /\ done \subseteq Client
      /\ \A d \in Client : Standing(d)
  BY DEF AnswersInv, Types, Connect, Send, Leave, Connection, Accept, RejectBusy, ReadFrame, Enqueue, Answer,
     WriteReply, ClientUnchanged
<1>a. "nothing" \notin Answers /\ "none" \notin Refusals /\ "ok" \notin Refusals
  BY DEF Answers, Refusals
(* It is enough to look at this client, and at the channel. *)
<1>b. ASSUME conn' \in [Client -> Connections], \A d \in Client : d # c => conn'[d] = conn[d],
             queue' \in Seq(Client), QueuedOnce', \A d \in Client : d # c => (Queued(d)' <=> Queued(d)),
             Standing(c)'
      PROVE  AnswersInv'
  <2>1. ASSUME NEW d \in Client, d # c PROVE Standing(d)'
    <3>1. conn'[d] = conn[d] /\ (Queued(d)' <=> Queued(d)) /\ Standing(d)
      BY <1>0, <1>b, <2>1
    <3> QED  BY <1>0, <3>1, StandingKept
  <2> QED  BY <1>0, <1>b, <2>1 DEF AnswersInv, Types
<1>c. queue' = queue => queue' \in Seq(Client) /\ QueuedOnce' /\ \A d \in Client : Queued(d)' <=> Queued(d)
  BY <1>0, Channel
(* A call that ends: nobody has its command any more, and what is told is true. *)
<1>d. ASSUME NEW told \in {"nothing"} \cup Answers, Over(c, told), queue' = queue,
             ~Queued(c), view.load # c, told = "ok" => c \in done, told \in Refusals => c \notin done
      PROVE  AnswersInv'
  <2>1. /\ conn' \in [Client -> Connections] /\ \A d \in Client : d # c => conn'[d] = conn[d]
        /\ conn'[c].at = "over" /\ conn'[c].told = told
    BY <1>0, <1>d, OverFields
  <2>2. Standing(c)'
    BY <1>0, <1>c, <1>d, <2>1 DEF Standing
  <2> QED  BY <1>b, <1>c, <1>d, <2>1, <2>2
(* An answer is chosen. *)
<1>e. ASSUME NEW result \in Answers \ {"none"}, Reply(c, result), queue' = queue,
             ~Queued(c), view.load # c, c \in done <=> result = "ok", conn[c].told \in {"none", "nothing"}
      PROVE  AnswersInv'
  <2>1. /\ conn' \in [Client -> Connections] /\ \A d \in Client : d # c => conn'[d] = conn[d]
        /\ conn'[c].at = "replying" /\ conn'[c].reply = result /\ conn'[c].told = conn[c].told
    BY <1>0, <1>e, ReplyFields
  <2>2. Standing(c)'
    BY <1>0, <1>c, <1>e, <2>1 DEF Standing
  <2> QED  BY <1>b, <1>c, <1>e, <2>1, <2>2
(* The connection goes on, and its command has not been read. *)
<1>f. ASSUME NEW at \in {"reading", "sending", "rejecting"}, conn' = [conn EXCEPT ![c].at = at], queue' = queue,
             conn[c].at \in {"backlog", "reading"}
      PROVE  AnswersInv'
  <2>1. /\ conn' \in [Client -> Connections] /\ \A d \in Client : d # c => conn'[d] = conn[d]
        /\ conn'[c].at = at /\ conn'[c].reply = conn[c].reply /\ conn'[c].told = conn[c].told
    BY <1>0, <1>f, MovesFields DEF Phases
  <2>2. Standing(c)'
    BY <1>0, <1>c, <1>f, <2>1 DEF Standing
  <2> QED  BY <1>b, <1>c, <1>f, <2>1, <2>2
<1>1. CASE Connect(c, method)
  <2>1. conn[c].at = "none" /\ queue' = queue
    BY <1>1 DEF Connect
  <2>2. CASE Over(c, "unreachable")
    <3>1. "unreachable" \in Refusals /\ "unreachable" \in Answers
      BY DEF Refusals, Answers
    <3> QED  BY <1>0, <1>a, <1>d, <2>1, <2>2, <3>1 DEF Standing
  <2>3. CASE conn' = [conn EXCEPT ![c].at = "backlog", ![c].method = method, ![c].open = TRUE]
    <3> DEFINE n == [conn[c] EXCEPT !.at = "backlog", !.method = method, !.open = TRUE]
    <3>1. n \in Connections /\ n.at = "backlog" /\ n.reply = conn[c].reply /\ n.told = conn[c].told
      BY <1>0 DEF Connections, Phases
    <3>2. conn' = [conn EXCEPT ![c] = n]
      BY <2>3
    <3> HIDE DEF n
    <3>3. /\ conn' \in [Client -> Connections] /\ conn'[c] = n /\ \A d \in Client : d # c => conn'[d] = conn[d]
      BY <1>0, <3>1, <3>2
    <3>4. Standing(c)'
      BY <1>0, <1>c, <2>1, <3>1, <3>3 DEF Standing
    <3> QED  BY <1>b, <1>c, <2>1, <3>3, <3>4
  <2> QED  BY <1>1, <2>2, <2>3 DEF Connect
<1>2. CASE Send(c) \/ Leave(c)
  <2> DEFINE n == IF Send(c) THEN [conn[c] EXCEPT !.sent = TRUE]
                  ELSE [conn[c] EXCEPT !.open = FALSE, !.told = "nothing"]
  <2>1. /\ n \in Connections /\ n.at = conn[c].at /\ n.reply = conn[c].reply
        /\ n.told = conn[c].told \/ n.told = "nothing"
    BY <1>0 DEF Connections
  <2>2. conn' = [conn EXCEPT ![c] = n] /\ queue' = queue
    BY <1>2 DEF Send, Leave
  <2> HIDE DEF n
  <2>3. /\ conn' \in [Client -> Connections] /\ conn'[c] = n /\ \A d \in Client : d # c => conn'[d] = conn[d]
    BY <1>0, <2>1, <2>2
  <2>4. Standing(c)'
    BY <1>0, <1>c, <2>1, <2>2, <2>3, StandingKept
  <2> QED  BY <1>b, <1>c, <2>2, <2>3, <2>4
<1>3. CASE Accept(c)
  BY <1>f, <1>3 DEF Accept
<1>4. CASE RejectBusy(c)
  <2>1. conn[c].at = "rejecting" /\ queue' = queue
        /\ (Over(c, "busy") \/ Over(c, "nothing"))
    BY <1>4 DEF RejectBusy
  <2>2. "busy" \in Refusals /\ "busy" \in Answers
    BY DEF Refusals, Answers
  <2> QED  BY <1>0, <1>a, <1>d, <2>1, <2>2 DEF Standing, Answers
<1>5. CASE ReadFrame(c)
  <2>1. conn[c].at = "reading" /\ queue' = queue
    BY <1>5 DEF ReadFrame
  <2>2. CASE conn' = [conn EXCEPT ![c].at = "sending"]
    BY <1>f, <2>1, <2>2
  <2>3. CASE Reply(c, "invalid") \/ Reply(c, "request_timeout")
    <3>1. {"invalid", "request_timeout"} \subseteq Answers \ {"none", "ok"}
      BY DEF Refusals, Answers
    <3> QED  BY <1>0, <1>e, <2>1, <2>3, <3>1 DEF Standing
  <2>4. CASE Over(c, "nothing")
    BY <1>0, <1>a, <1>d, <2>1, <2>4 DEF Standing, Answers
  <2> QED  BY <1>5, <2>2, <2>3, <2>4 DEF ReadFrame
<1>6. CASE Enqueue(c)
  <2>1. conn[c].at = "sending"
    BY <1>6 DEF Enqueue
  <2>2. CASE Reply(c, "unavailable") /\ queue' = queue
    <3>1. "unavailable" \in Answers \ {"none", "ok"}
      BY DEF Refusals, Answers
    <3> QED  BY <1>0, <1>e, <2>1, <2>2, <3>1 DEF Standing
  <2>3. CASE conn' = [conn EXCEPT ![c].at = "waiting"] /\ queue' = Append(queue, c)
    <3>1. /\ conn' \in [Client -> Connections] /\ \A d \in Client : d # c => conn'[d] = conn[d]
          /\ conn'[c].at = "waiting" /\ conn'[c].reply = conn[c].reply /\ conn'[c].told = conn[c].told
      BY <1>0, <2>3, MovesFields DEF Phases
    <3>2. ~Queued(c)
      BY <1>0, <2>1 DEF Standing
    <3>3. /\ queue' \in Seq(Client) /\ QueuedOnce' /\ Queued(c)'
          /\ \A d \in Client : d # c => (Queued(d)' <=> Queued(d))
      BY <1>0, <2>3, <3>2, Channel
    <3>4. Standing(c)'
      BY <1>0, <2>1, <3>1, <3>3 DEF Standing
    <3> QED  BY <1>b, <3>1, <3>3, <3>4
  <2> QED  BY <1>6, <2>2, <2>3 DEF Enqueue
<1>7. CASE Answer(c)
  <2>1. conn[c].at = "waiting" /\ conn[c].reply # "none" /\ Reply(c, conn[c].reply) /\ queue' = queue
    BY <1>7 DEF Answer
  <2>2. conn[c].reply \in Answers \ {"none"}
    BY <1>0, <2>1 DEF Connections
  <2>3. ~Queued(c) /\ view.load # c /\ (c \in done <=> conn[c].reply = "ok") /\ conn[c].told \in {"none", "nothing"}
    BY <1>0, <2>1 DEF Standing
  <2> QED  BY <1>e, <2>1, <2>2, <2>3
<1>8. CASE WriteReply(c)
  <2>1. /\ conn[c].at = "replying" /\ queue' = queue
        /\ \/ Over(c, conn[c].reply) \/ Over(c, conn[c].told)
    BY <1>8 DEF WriteReply
  <2>2. /\ conn[c].reply \in Answers \ {"none"} /\ ~Queued(c) /\ view.load # c
        /\ (c \in done <=> conn[c].reply = "ok") /\ conn[c].told \in {"none", "nothing"}
    BY <1>0, <2>1 DEF Standing, Connections
  <2>3. CASE Over(c, conn[c].reply)
    <3>1. conn[c].reply \in Refusals => conn[c].reply # "ok"
      BY <1>a
    <3> QED  BY <1>d, <2>1, <2>2, <2>3, <3>1
  <2>4. CASE Over(c, conn[c].told)
    <3>1. conn[c].told \in {"nothing"} \cup Answers /\ conn[c].told # "ok" /\ conn[c].told \notin Refusals
      BY <1>a, <2>2 DEF Answers
    <3> QED  BY <1>d, <2>1, <2>2, <2>4, <3>1
  <2> QED  BY <2>1, <2>3, <2>4
<1> QED  BY <1>1, <1>2, <1>3, <1>4, <1>5, <1>6, <1>7, <1>8 DEF Connection

---------------------------------------------------------------------------
(* The view *)

LEMMA ViewTypes ==
  ASSUME view \in Views
  PROVE  /\ \A load \in Client \cup {NONE} :
               /\ [view EXCEPT !.load = load] \in Views
               /\ [view EXCEPT !.load = load].load = load /\ [view EXCEPT !.load = load].at = view.at
         /\ \A at \in Places :
               /\ [view EXCEPT !.at = at] \in Views
               /\ [view EXCEPT !.at = at].at = at /\ [view EXCEPT !.at = at].load = view.load
         /\ view.load \in Client \cup {NONE} /\ view.at \in Places
BY DEF Views

(* A step of a removal that does not end it goes on to another. *)
LEMMA RemovalGoesOn ==
  \A at \in Removals : RemovalStep(at).next \in Removals \cup {"over"}
<1> SUFFICES ASSUME NEW at \in Removals PROVE RemovalStep(at).next \in Removals \cup {"over"}
  OBVIOUS
<1>1. CASE at = "checking"
  BY <1>1 DEF RemovalStep, Removals
<1>2. CASE at = "unlinking"
  BY <1>2 DEF RemovalStep, Removals
<1>3. CASE at = "forgetting"
  BY <1>3 DEF RemovalStep, Removals
<1>4. CASE at = "emptying"
  BY <1>4 DEF RemovalStep, Removals
<1> QED  BY <1>1, <1>2, <1>3, <1>4 DEF Removals

(* The view takes a command, ends a load, drops its session or itself.      *)
LEMMA ViewStep ==
  ASSUME AnswersInv, Handle \/ LoadEnds \/ LoadDropped \/ DropSession \/ DropView
  PROVE  AnswersInv'
<1>0. /\ conn \in [Client -> Connections] /\ queue \in Seq(Client) /\ QueuedOnce
      /\ view \in Views /\ done \subseteq Client /\ view.load \in Client \cup {NONE}
      /\ \A d \in Client : Standing(d) /\ conn[d] \in Connections
  BY ViewTypes DEF AnswersInv, Types
<1>a. /\ {"ok", "reload_in_progress", "reload_failed", "stopped"} \subseteq Answers \ {"none"}
      /\ "ok" \notin {"reload_in_progress", "reload_failed", "stopped"}
  BY DEF Answers, Refusals
<1>b. queue' = queue => queue' \in Seq(Client) /\ QueuedOnce' /\ \A d \in Client : Queued(d)' <=> Queued(d)
  BY <1>0, Channel
(* Whoever has a command in the channel or in the load waits for its answer. *)
<1>c. ASSUME NEW d \in Client, Queued(d) \/ view.load = d
      PROVE  conn[d].at \in {"waiting", "replying"} /\ conn[d].reply = "none" /\ d \notin done
  BY <1>0, <1>c DEF Standing, Connections, Phases
(* Some get their answers, and leave the channel and the load. *)
<1>d. ASSUME NEW cs, NEW result \in {"ok", "reload_in_progress", "reload_failed", "stopped"},
             conn' = Told(cs, result),
             \A d \in Client \cap cs : Queued(d) \/ view.load = d,
             \A d \in Client \cap cs : ~Queued(d)' /\ view'.load # d /\ (d \in done' <=> result = "ok"),
             \A d \in Client \ cs : (Queued(d)' <=> Queued(d)) /\ (view'.load = d <=> view.load = d)
                                       /\ (d \in done' <=> d \in done),
             queue' \in Seq(Client), QueuedOnce', view' \in Views, done' \subseteq Client
      PROVE  AnswersInv'
  <2>1. /\ conn' \in [Client -> Connections]
        /\ \A d \in Client \ cs : conn'[d] = conn[d]
        /\ \A d \in Client \cap cs : /\ conn'[d].at = conn[d].at /\ conn'[d].told = conn[d].told
                                     /\ conn'[d].reply = result
    BY <1>0, <1>a, <1>d, ToldFields
  <2>2. ASSUME NEW d \in Client \ cs PROVE Standing(d)'
    BY <1>0, <1>d, <2>1, <2>2, StandingKept
  <2>3. ASSUME NEW d \in Client \cap cs PROVE Standing(d)'
    <3>1. conn'[d].at \in {"waiting", "replying"} /\ conn'[d].told \in {"none", "nothing"}
      BY <1>0, <1>c, <1>d, <2>1, <2>3 DEF Standing
    <3>2. conn'[d].reply = result /\ result # "none" /\ ~Queued(d)' /\ view'.load # d /\ (d \in done' <=> result = "ok")
      BY <1>a, <1>d, <2>1, <2>3
    <3> QED  BY <3>1, <3>2 DEF Standing
  <2> QED  BY <1>d, <2>1, <2>2, <2>3 DEF AnswersInv, Types
<1>1. CASE Handle
  <2> DEFINE c == Head(queue)
  <2>1. queue # <<>> /\ queue' = Tail(queue)
    BY <1>1 DEF Handle
  <2>2. /\ queue' \in Seq(Client) /\ QueuedOnce' /\ c \in Client /\ Queued(c)
        /\ \A d \in Client : d = c => ~Queued(d)'
        /\ \A d \in Client : d # c => (Queued(d)' <=> Queued(d))
    BY <1>0, <2>1, Channel
  <2>3. view.load # c
    BY <1>0, <1>c, <2>2 DEF Standing
  <2>4. \/ conn' = Told({c}, "ok") /\ done' = done \cup {c} /\ view' = view
        \/ conn' = Told({c}, "reload_in_progress") /\ done' = done /\ view' = view
        \/ view.load = NONE /\ view' = [view EXCEPT !.load = c] /\ conn' = conn /\ done' = done
    BY <1>1 DEF Handle
  <2>c. PICK e \in Client : e = c
    BY <2>2
  <2>s. conn[e].at \in {"waiting", "replying"} /\ conn[e].reply = "none" /\ e \notin done
    BY <1>c, <2>2, <2>c
  <2>f. /\ \A d \in Client : d = e => ~Queued(d)'
        /\ \A d \in Client : d # e => (Queued(d)' <=> Queued(d))
        /\ Queued(e) /\ view.load # e
    BY <2>2, <2>3, <2>c
  <2>g. \/ conn' = Told({e}, "ok") /\ done' = done \cup {e} /\ view' = view
        \/ conn' = Told({e}, "reload_in_progress") /\ done' = done /\ view' = view
        \/ view.load = NONE /\ view' = [view EXCEPT !.load = e] /\ conn' = conn /\ done' = done
    BY <2>4, <2>c
  <2>h. queue' \in Seq(Client) /\ QueuedOnce'
    BY <2>2
  <2> HIDE DEF c
  <2>5. CASE conn' = Told({e}, "ok") /\ done' = done \cup {e} /\ view' = view
    BY <1>0, <1>d, <2>f, <2>h, <2>5
  <2>6. CASE conn' = Told({e}, "reload_in_progress") /\ done' = done /\ view' = view
    <3>1. e \notin done' /\ "reload_in_progress" # "ok"
      BY <2>s, <2>6
    <3>2. \A d \in Client \cap {e} : ~Queued(d)' /\ view'.load # d /\ (d \in done' <=> "reload_in_progress" = "ok")
      BY <2>f, <2>6, <3>1
    <3>3. \A d \in Client \ {e} : (Queued(d)' <=> Queued(d)) /\ (view'.load = d <=> view.load = d)
                                    /\ (d \in done' <=> d \in done)
      BY <2>f, <2>6
    <3> QED  BY <1>0, <1>d, <2>f, <2>h, <2>6, <3>2, <3>3
  <2>7. CASE view.load = NONE /\ view' = [view EXCEPT !.load = e] /\ conn' = conn /\ done' = done
    <3>1. view' \in Views /\ view'.load = e
      BY <1>0, <2>7, ViewTypes
    <3>2. ASSUME NEW d \in Client, d # e PROVE Standing(d)'
      <4>1. view.load # d
        BY <2>7, SessionAssumption, <3>2
      <4> QED  BY <1>0, <2>f, <2>7, <3>1, <3>2, <4>1, StandingKept
    <3>3. Standing(e)'
      <4>1. conn'[e].told \in {"none", "nothing"} /\ conn'[e].at \in {"waiting", "replying"}
            /\ conn'[e].reply = "none" /\ conn'[e].at # "replying"
        BY <1>0, <2>s, <2>7 DEF Standing
      <4> QED  BY <2>s, <2>f, <2>7, <3>1, <4>1 DEF Standing
    <3> QED  BY <1>0, <2>h, <2>7, <3>1, <3>2, <3>3 DEF AnswersInv, Types
  <2> QED  BY <2>g, <2>5, <2>6, <2>7
<1>2. CASE LoadEnds \/ LoadDropped \/ DropView
  <2>1. view.load # NONE /\ view' = [view EXCEPT !.load = NONE] /\ queue' = queue
    BY <1>2 DEF LoadEnds, LoadDropped, DropView
  <2>2. PICK c \in Client : c = view.load
    BY <1>0, <2>1
  <2>3. view' \in Views /\ view'.load = NONE
    BY <1>0, <2>1, ViewTypes
  <2>4. \/ conn' = Told({c}, "ok") /\ done' = done \cup {c}
        \/ conn' = Told({c}, "reload_failed") /\ done' = done
        \/ conn' = Told({c}, "stopped") /\ done' = done
    BY <1>2, <2>2 DEF LoadEnds, LoadDropped, DropView
  <2>5. ~Queued(c) /\ c \notin done
    BY <1>0, <1>c, <2>2 DEF Standing
  <2>6. \A d \in Client : view'.load # d /\ (d # c => view.load # d)
    BY <2>2, <2>3, SessionAssumption
  <2> QED  BY <1>0, <1>a, <1>b, <1>d, <2>1, <2>2, <2>3, <2>4, <2>5, <2>6
<1>3. CASE DropSession
  <2>1. /\ view' = [view EXCEPT !.at = "checking"] /\ queue' = <<>> /\ done' = done
        /\ conn' = Told(ToSet(queue), "stopped")
    BY <1>3 DEF DropSession
  <2>2. view' \in Views /\ view'.load = view.load
    BY <1>0, <2>1, ViewTypes DEF Places, Removals
  <2>3. queue' \in Seq(Client) /\ QueuedOnce' /\ \A d \in Client : ~Queued(d)'
    BY <1>0, <2>1, Channel
  <2>4. \A d : d \in ToSet(queue) <=> Queued(d)
    BY DEF ToSet, Queued
  <2>5. \A d \in Client : Queued(d) => view.load # d /\ d \notin done
    BY <1>0, <1>c DEF Standing
  <2> QED  BY <1>0, <1>a, <1>d, <2>1, <2>2, <2>3, <2>4, <2>5
<1> QED  BY <1>1, <1>2, <1>3

(* The rest: listings, startup, the editor, the end of the server.          *)
LEMMA OthersStep ==
  ASSUME AnswersInv,
         \/ UNCHANGED vars \/ Startup \/ Aborted \/ (\E s \in Scanner : Scan(s))
         \/ OpenEditor \/ CloseEditor \/ Quit \/ DropRegistration \/ Exit \/ Crash
  PROVE  AnswersInv'
<1>0. /\ conn \in [Client -> Connections] /\ queue \in Seq(Client) /\ QueuedOnce
      /\ view \in Views /\ done \subseteq Client
      /\ \A d \in Client : Standing(d) /\ conn[d] \in Connections
  BY DEF AnswersInv, Types
<1>a. queue' = queue => queue' \in Seq(Client) /\ QueuedOnce' /\ \A d \in Client : Queued(d)' <=> Queued(d)
  BY <1>0, Channel
<1>b. "nothing" \notin Refusals /\ "nothing" # "ok"
  BY DEF Refusals
<1>1. ASSUME queue' = queue, done' = done, conn' = conn, view' \in Views, view'.load = view.load
      PROVE  AnswersInv'
  <2>1. ASSUME NEW d \in Client PROVE Standing(d)'
    BY <1>0, <1>a, <1>1, StandingKept
  <2> QED  BY <1>0, <1>a, <1>1, <2>1 DEF AnswersInv, Types
<1>2. ASSUME queue' = queue, done' = done, conn' = Unlistened, view' = view
      PROVE  AnswersInv'
  <2>1. ASSUME NEW d \in Client PROVE conn'[d] \in Connections /\ Standing(d)'
    <3>1. CASE conn[d].at = "backlog"
      <4>1. conn'[d] = Dropped(d)
        BY <1>2, <3>1 DEF Unlistened
      <4>2. conn'[d] \in Connections /\ conn'[d].at = "over" /\ conn'[d].told = "nothing"
        BY <1>0, <4>1, DroppedFields
      <4>3. ~Queued(d)' /\ view'.load # d
        BY <1>0, <1>a, <1>2, <3>1 DEF Standing
      <4> QED  BY <1>b, <4>2, <4>3 DEF Standing
    <3>2. CASE conn[d].at # "backlog"
      <4>1. conn'[d] = conn[d]
        BY <1>2, <3>2 DEF Unlistened
      <4> QED  BY <1>0, <1>a, <1>2, <4>1, StandingKept
    <3> QED  BY <3>1, <3>2
  <2>2. conn' \in [Client -> Connections]
    BY <1>2, <2>1 DEF Unlistened
  <2> QED  BY <1>0, <1>a, <1>2, <2>1, <2>2 DEF AnswersInv, Types
<1>3. CASE Ended
  <2>1. /\ view' = [at |-> "exited", load |-> NONE] /\ queue' = <<>> /\ done' = done
        /\ conn' = [c \in Client |-> IF conn[c].at \in {"none", "over"} THEN conn[c] ELSE Dropped(c)]
    BY <1>3 DEF Ended
  <2>2. view' \in Views /\ view'.load = NONE
    BY <2>1 DEF Views, Places
  <2>3. queue' \in Seq(Client) /\ QueuedOnce' /\ \A d \in Client : ~Queued(d)'
    BY <1>0, <2>1, Channel
  <2>4. ASSUME NEW d \in Client PROVE conn'[d] \in Connections /\ Standing(d)'
    <3>0. ~Queued(d)' /\ view'.load # d /\ (d \in done' <=> d \in done)
      BY <2>1, <2>2, <2>3, SessionAssumption
    <3>1. CASE conn[d].at \in {"none", "over"}
      <4>1. conn'[d] = conn[d]
        BY <2>1, <3>1
      <4> QED  BY <1>0, <3>0, <3>1, <4>1 DEF Standing
    <3>2. CASE conn[d].at \notin {"none", "over"}
      <4>1. conn'[d] = Dropped(d)
        BY <2>1, <3>2
      <4>2. conn'[d] \in Connections /\ conn'[d].at = "over" /\ conn'[d].told = "nothing"
        BY <1>0, <4>1, DroppedFields
      <4> QED  BY <1>b, <3>0, <4>2 DEF Standing
    <3> QED  BY <3>1, <3>2
  <2>5. conn' \in [Client -> Connections]
    BY <2>1, <2>4
  <2> QED  BY <1>0, <2>1, <2>2, <2>3, <2>4, <2>5 DEF AnswersInv, Types
<1>4. CASE UNCHANGED vars \/ (\E s \in Scanner : Scan(s))
  <2>1. queue' = queue /\ done' = done /\ conn' = conn /\ view' = view
    BY <1>4 DEF vars, Scan, ScanFinds, ScanReads, ScanProbes, ScanRemoves, ScanUnchanged
  <2> QED  BY <1>0, <1>1, <2>1
<1>5. CASE Startup \/ Aborted
  <2>1. queue' = queue /\ done' = done /\ view' = view /\ (conn' = conn \/ conn' = Unlistened)
    BY <1>5 DEF Startup, Aborted, ServerUnchanged
  <2> QED  BY <1>0, <1>1, <1>2, <2>1
<1>6. CASE OpenEditor \/ CloseEditor \/ Quit
  <2>1. /\ queue' = queue /\ done' = done /\ conn' = conn
        /\ \E at \in {"editing", "loop", "finishing"} : view' = [view EXCEPT !.at = at]
    BY <1>6 DEF OpenEditor, CloseEditor, Quit
  <2>2. view' \in Views /\ view'.load = view.load
    BY <1>0, <2>1, ViewTypes DEF Places, Running
  <2> QED  BY <1>1, <2>1, <2>2
<1>7. CASE DropRegistration
  <2>1. RemovalStep(view.at).next \in Removals \cup {"over"}
    BY <1>7, RemovalGoesOn DEF DropRegistration
  <2>2. /\ queue' = queue /\ done' = done /\ conn' = conn
        /\ \E at \in Removals \cup {"leaving"} : view' = [view EXCEPT !.at = at]
    BY <1>7, <2>1 DEF DropRegistration
  <2>3. view' \in Views /\ view'.load = view.load
    BY <1>0, <2>2, ViewTypes DEF Places
  <2> QED  BY <1>1, <2>2, <2>3
<1> QED  BY <1>3, <1>4, <1>5, <1>6, <1>7 DEF Exit, Crash

LEMMA AnswersInvHolds == Spec => []AnswersInv
<1>1. Init => AnswersInv
  <2> SUFFICES ASSUME Init PROVE AnswersInv
    OBVIOUS
  <2>1. conn \in [Client -> Connections] /\ view \in Views
    BY DEF Init, Connections, Phases, Answers, Views, Places, Running
  <2>2. queue \in Seq(Client) /\ QueuedOnce /\ done \subseteq Client
    BY DEF Init, QueuedOnce
  <2>3. \A c \in Client : Standing(c)
    BY SessionAssumption DEF Init, Standing, Queued
  <2> QED  BY <2>1, <2>2, <2>3 DEF AnswersInv, Types
<1>2. AnswersInv /\ [Next]_vars => AnswersInv'
  <2> SUFFICES ASSUME AnswersInv, [Next]_vars PROVE AnswersInv'
    OBVIOUS
  <2>1. CASE \/ UNCHANGED vars \/ Startup \/ Aborted \/ (\E s \in Scanner : Scan(s))
             \/ OpenEditor \/ CloseEditor \/ Quit \/ DropRegistration \/ Exit \/ Crash
    BY <2>1, OthersStep
  <2>2. CASE Handle \/ LoadEnds \/ LoadDropped \/ DropSession \/ DropView
    BY <2>2, ViewStep
  <2>3. ASSUME NEW c \in Client, NEW method \in {"get", "reload"},
               Connect(c, method) \/ Send(c) \/ Leave(c) \/ Connection(c)
        PROVE  AnswersInv'
    BY <2>3, ConnectionStep
  <2> QED  BY <2>1, <2>2, <2>3 DEF Next, View
<1> QED  BY <1>1, <1>2, PTL DEF Spec

(* An answer is true: "ok" only for a command that was carried out, a       *)
(* refusal only for one that was not and never will be, whatever the        *)
(* channel, the load, the editor and the end of the view did to it.         *)
THEOREM TrueAnswers == Spec => []AnswersAreTrue
<1>1. AnswersInv => AnswersAreTrue
  <2> SUFFICES ASSUME AnswersInv, NEW c \in Client
               PROVE  /\ conn[c].told = "ok" => c \in done
                      /\ conn[c].told \in Refusals => c \notin done /\ ~Contains(queue, c) /\ view.load # c
    BY DEF AnswersAreTrue
  <2>1. Standing(c) /\ conn[c] \in Connections /\ queue \in Seq(Client)
    BY DEF AnswersInv, Types
  <2>2. conn[c].told \in {"ok"} \cup Refusals => conn[c].at = "over"
    BY <2>1 DEF Standing, Refusals
  <2>3. Contains(queue, c) => Queued(c)
    BY <2>1 DEF Contains, Queued
  <2> QED  BY <2>1, <2>2, <2>3 DEF Standing
<1> QED  BY <1>1, AnswersInvHolds, PTL

---------------------------------------------------------------------------
(* The registry *)

LEMMA StartupOrder ==
  /\ After("make") = "secure" /\ After("secure") = "bind" /\ After("bind") = "restrict"
  /\ After("restrict") = "remake" /\ After("remake") = "resecure" /\ After("resecure") = "write"
  /\ After("write") = "rename" /\ After("rename") = "protect" /\ After("protect") = "serving"
<1>1. /\ DOMAIN Steps = 1..10
      /\ Steps[1] = "make" /\ Steps[2] = "secure" /\ Steps[3] = "bind" /\ Steps[4] = "restrict"
      /\ Steps[5] = "remake" /\ Steps[6] = "resecure" /\ Steps[7] = "write" /\ Steps[8] = "rename"
      /\ Steps[9] = "protect" /\ Steps[10] = "serving"
  BY DEF Steps
<1>2. \A k \in 1..10 : k \in {1, 2, 3, 4, 5, 6, 7, 8, 9, 10}
  OBVIOUS
<1>3. \A j, k \in 1..10 : Steps[j] = Steps[k] => j = k
  BY <1>1, <1>2
<1> HIDE DEF Steps
<1>4. ASSUME NEW k \in 1..9 PROVE After(Steps[k]) = Steps[k + 1]
  <2>1. (CHOOSE j \in DOMAIN Steps : Steps[j] = Steps[k]) = k
    BY <1>1, <1>3
  <2> QED  BY <2>1 DEF After
<1>5. \A k \in 1..9 : After(Steps[k]) = Steps[k + 1]
  BY <1>4
<1>6. /\ After(Steps[1]) = Steps[2] /\ After(Steps[2]) = Steps[3] /\ After(Steps[3]) = Steps[4]
      /\ After(Steps[4]) = Steps[5] /\ After(Steps[5]) = Steps[6] /\ After(Steps[6]) = Steps[7]
      /\ After(Steps[7]) = Steps[8] /\ After(Steps[8]) = Steps[9] /\ After(Steps[9]) = Steps[10]
  BY <1>5
<1> QED  BY <1>1, <1>6

LEMMA StartupSteps ==
  /\ ToSet(Front(Steps)) = {"make", "secure", "bind", "restrict", "remake", "resecure", "write",
                            "rename", "protect"}
  /\ ToSet(Steps) = ToSet(Front(Steps)) \cup {"serving"}
<1>1. /\ DOMAIN Steps = 1..10 /\ Len(Steps) = 10
      /\ Steps[1] = "make" /\ Steps[2] = "secure" /\ Steps[3] = "bind" /\ Steps[4] = "restrict"
      /\ Steps[5] = "remake" /\ Steps[6] = "resecure" /\ Steps[7] = "write" /\ Steps[8] = "rename"
      /\ Steps[9] = "protect" /\ Steps[10] = "serving"
  BY DEF Steps
<1>2. Steps \in Seq({"make", "secure", "bind", "restrict", "remake", "resecure", "write", "rename", "protect", "serving"})
  BY DEF Steps
<1> HIDE DEF Steps
<1>3. DOMAIN Front(Steps) = 1..9 /\ \A k \in 1..9 : Front(Steps)[k] = Steps[k]
  BY <1>1, <1>2 DEF Front
<1>4. /\ \A k \in 1..10 : k \in {1, 2, 3, 4, 5, 6, 7, 8, 9, 10}
      /\ \A k \in 1..9 : k \in {1, 2, 3, 4, 5, 6, 7, 8, 9}
  OBVIOUS
<1>5. ToSet(Front(Steps)) = {Steps[k] : k \in 1..9} /\ ToSet(Steps) = {Steps[k] : k \in 1..10}
  BY <1>1, <1>3 DEF ToSet
<1> QED  BY <1>1, <1>4, <1>5

Entries == [mode: {"none", "open", "private"}, socket: {"none", "bound", "dead"},
            record: BOOLEAN, temp: BOOLEAN]

LEMMA SameEntry ==
  ASSUME NEW e \in Entries, NEW f \in Entries,
         e.mode = f.mode, e.socket = f.socket, e.record = f.record, e.temp = f.temp
  PROVE  e = f
BY DEF Entries

(* Each step of the startup finds what it needs and makes what the next one *)
(* needs, if nobody comes between.                                          *)
LEMMA StartupUndisturbed ==
  ASSUME NEW step \in ToSet(Front(Steps)), server = step, entry = Holds(step)
  PROVE  /\ Needs(step) /\ Effect(step) = Holds(After(step))
         /\ entry.socket = "bound" => Effect(step).socket = "bound"
<1> USE DEF Holds, Needs, Effect, Gone, Made, NoEntry
<1>1. CASE step = "make"
  <2>1. After(step) = "secure"
    BY <1>1, StartupOrder
  <2>2. Holds(After(step)) = Holds("secure")
    BY <2>1
  <2>3. Needs(step) /\ Effect(step) = Holds("secure") /\ (entry.socket = "bound" => Effect(step).socket = "bound")
    BY <1>1
  <2> QED  BY <2>2, <2>3
<1>2. CASE step = "secure"
  <2>1. After(step) = "bind"
    BY <1>2, StartupOrder
  <2>2. Holds(After(step)) = Holds("bind")
    BY <2>1
  <2>3. Needs(step) /\ Effect(step) = Holds("bind") /\ (entry.socket = "bound" => Effect(step).socket = "bound")
    BY <1>2
  <2> QED  BY <2>2, <2>3
<1>3. CASE step = "bind"
  <2>1. After(step) = "restrict"
    BY <1>3, StartupOrder
  <2>2. Holds(After(step)) = Holds("restrict")
    BY <2>1
  <2>3. Needs(step) /\ Effect(step) = Holds("restrict") /\ (entry.socket = "bound" => Effect(step).socket = "bound")
    <3>1. entry \in Entries /\ entry.mode = "private" /\ entry.socket = "none" /\ entry.record = FALSE /\ entry.temp = FALSE
      BY <1>3 DEF Entries
    <3>2. Needs(step) /\ Effect(step) = [entry EXCEPT !.socket = "bound"]
      BY <1>3, <3>1
    <3> DEFINE h == Holds("restrict")
    <3>3. h \in Entries /\ h.mode = "private" /\ h.socket = "bound" /\ h.record = FALSE /\ h.temp = FALSE
      BY DEF Entries
    <3> HIDE DEF h, Needs
    <3> DEFINE n == [entry EXCEPT !.socket = "bound"]
    <3>4. n \in Entries /\ n.mode = entry.mode /\ n.socket = "bound" /\ n.record = entry.record /\ n.temp = entry.temp
      BY <3>1 DEF Entries
    <3>5. Effect(step) = n
      BY <3>2
    <3> HIDE DEF n, Effect
    <3>6. n.mode = h.mode /\ n.socket = h.socket /\ n.record = h.record /\ n.temp = h.temp
      BY <3>1, <3>3, <3>4
    <3>7. n = h
      BY <3>3, <3>4, <3>6, SameEntry
    <3> HIDE DEF Holds
    <3> QED  BY <3>1, <3>2, <3>4, <3>5, <3>7 DEF h
  <2> QED  BY <2>2, <2>3
<1>4. CASE step = "restrict"
  <2>1. After(step) = "remake"
    BY <1>4, StartupOrder
  <2>2. Holds(After(step)) = Holds("remake")
    BY <2>1
  <2>3. Needs(step) /\ Effect(step) = Holds("remake") /\ (entry.socket = "bound" => Effect(step).socket = "bound")
    BY <1>4
  <2> QED  BY <2>2, <2>3
<1>5. CASE step = "remake"
  <2>1. After(step) = "resecure"
    BY <1>5, StartupOrder
  <2>2. Holds(After(step)) = Holds("resecure")
    BY <2>1
  <2>3. Needs(step) /\ Effect(step) = Holds("resecure") /\ (entry.socket = "bound" => Effect(step).socket = "bound")
    BY <1>5
  <2> QED  BY <2>2, <2>3
<1>6. CASE step = "resecure"
  <2>1. After(step) = "write"
    BY <1>6, StartupOrder
  <2>2. Holds(After(step)) = Holds("write")
    BY <2>1
  <2>3. Needs(step) /\ Effect(step) = Holds("write") /\ (entry.socket = "bound" => Effect(step).socket = "bound")
    BY <1>6
  <2> QED  BY <2>2, <2>3
<1>7. CASE step = "write"
  <2>1. After(step) = "rename"
    BY <1>7, StartupOrder
  <2>2. Holds(After(step)) = Holds("rename")
    BY <2>1
  <2>3. Needs(step) /\ Effect(step) = Holds("rename") /\ (entry.socket = "bound" => Effect(step).socket = "bound")
    <3>1. entry \in Entries /\ entry.mode = "private" /\ entry.socket = "bound" /\ entry.record = FALSE /\ entry.temp = FALSE
      BY <1>7 DEF Entries
    <3>2. Needs(step) /\ Effect(step) = [entry EXCEPT !.temp = TRUE]
      BY <1>7, <3>1
    <3> DEFINE h == Holds("rename")
    <3>3. h \in Entries /\ h.mode = "private" /\ h.socket = "bound" /\ h.record = FALSE /\ h.temp = TRUE
      BY DEF Entries
    <3> HIDE DEF h, Needs
    <3> DEFINE n == [entry EXCEPT !.temp = TRUE]
    <3>4. n \in Entries /\ n.mode = entry.mode /\ n.socket = entry.socket /\ n.record = entry.record /\ n.temp = TRUE
      BY <3>1 DEF Entries
    <3>5. Effect(step) = n
      BY <3>2
    <3> HIDE DEF n, Effect
    <3>6. n.mode = h.mode /\ n.socket = h.socket /\ n.record = h.record /\ n.temp = h.temp
      BY <3>1, <3>3, <3>4
    <3>7. n = h
      BY <3>3, <3>4, <3>6, SameEntry
    <3> HIDE DEF Holds
    <3> QED  BY <3>1, <3>2, <3>4, <3>5, <3>7 DEF h
  <2> QED  BY <2>2, <2>3
<1>8. CASE step = "rename"
  <2>1. After(step) = "protect"
    BY <1>8, StartupOrder
  <2>2. Holds(After(step)) = Holds("protect")
    BY <2>1
  <2>3. Needs(step) /\ Effect(step) = Holds("protect") /\ (entry.socket = "bound" => Effect(step).socket = "bound")
    <3>1. entry \in Entries /\ entry.mode = "private" /\ entry.socket = "bound" /\ entry.record = FALSE /\ entry.temp = TRUE
      BY <1>8 DEF Entries
    <3>2. Needs(step) /\ Effect(step) = [entry EXCEPT !.temp = FALSE, !.record = TRUE]
      BY <1>8, <3>1
    <3> DEFINE h == Holds("protect")
    <3>3. h \in Entries /\ h.mode = "private" /\ h.socket = "bound" /\ h.record = TRUE /\ h.temp = FALSE
      BY DEF Entries
    <3> HIDE DEF h, Needs
    <3> DEFINE n == [entry EXCEPT !.temp = FALSE, !.record = TRUE]
    <3>4. n \in Entries /\ n.mode = entry.mode /\ n.socket = entry.socket /\ n.record = TRUE /\ n.temp = FALSE
      BY <3>1 DEF Entries
    <3>5. Effect(step) = n
      BY <3>2
    <3> HIDE DEF n, Effect
    <3>6. n.mode = h.mode /\ n.socket = h.socket /\ n.record = h.record /\ n.temp = h.temp
      BY <3>1, <3>3, <3>4
    <3>7. n = h
      BY <3>3, <3>4, <3>6, SameEntry
    <3> HIDE DEF Holds
    <3> QED  BY <3>1, <3>2, <3>4, <3>5, <3>7 DEF h
  <2> QED  BY <2>2, <2>3
<1>9. CASE step = "protect"
  <2>1. After(step) = "serving"
    BY <1>9, StartupOrder
  <2>2. Holds(After(step)) = Holds("serving")
    BY <2>1
  <2>3. Needs(step) /\ Effect(step) = Holds("serving") /\ (entry.socket = "bound" => Effect(step).socket = "bound")
    BY <1>9
  <2> QED  BY <2>2, <2>3
<1> QED  BY <1>1, <1>2, <1>3, <1>4, <1>5, <1>6, <1>7, <1>8, <1>9, StartupSteps

LEMMA RegistryInvHolds == Spec => []RegistryInv
<1> DEFINE Quiet == /\ server # "failed" /\ view.at \in Running \cup {"finishing"}
                    /\ \A s \in Scanner : hasty[s] # "removed"
           Spared == /\ entry = Holds(server)
                     /\ \A s \in Scanner :
                           /\ scan[s] \in {"idle", "reading", "probing", "checking"}
                           /\ scan[s] = "probing" => entry.socket = "bound"
                           /\ scan[s] = "checking" => hasty[s] = "read"
<1>1. Init => RegistryInv
  BY StartupSteps DEF Init, RegistryInv, Holds
<1>2. AnswersInv /\ RegistryInv /\ [Next]_vars => RegistryInv'
  <2> SUFFICES ASSUME AnswersInv, RegistryInv, [Next]_vars PROVE RegistryInv'
    OBVIOUS
  <2>0. /\ view \in Views /\ server \in ToSet(Steps) \cup {"failed"} /\ (Quiet => Spared)
        /\ scan = [s \in Scanner |-> scan[s]] /\ hasty = [s \in Scanner |-> hasty[s]]
    BY DEF AnswersInv, Types, RegistryInv
  <2>a. server' \in ToSet(Steps) \cup {"failed"} /\ (Quiet' => Spared') => RegistryInv'
    <3>1. scan' = [s \in Scanner |-> scan'[s]]
      <4>1. CASE scan' = scan
        BY <2>0, <4>1
      <4>2. ASSUME NEW s \in Scanner, NEW at, scan' = [scan EXCEPT ![s] = at]
            PROVE  scan' = [t \in Scanner |-> scan'[t]]
        BY <2>0, <4>2
      <4>3. CASE \E s \in Scanner : Scan(s)
        <5>1. PICK s \in Scanner : \E at : scan' = [scan EXCEPT ![s] = at]
          BY <4>3 DEF Scan, ScanFinds, ScanReads, ScanProbes, ScanRemoves
        <5> QED  BY <4>2, <5>1
      <4>4. CASE ~(\E s \in Scanner : Scan(s))
        <5>1. scan' = scan
          BY <4>4 DEF Next, Startup, ServerUnchanged, View, Handle, LoadEnds, CloseEditor, DropSession, Aborted,
             DropRegistration, DropView, Exit, Ended, Crash, LoadDropped, OpenEditor, Quit, ViewUnchanged,
             Connect, Send, Leave, Connection, Accept, RejectBusy, ReadFrame, Enqueue, Answer, WriteReply,
             ClientUnchanged, vars
        <5> QED  BY <4>1, <5>1
      <4> QED  BY <4>3, <4>4
    <3>2. hasty' = [s \in Scanner |-> hasty'[s]]
      <4>1. CASE hasty' = hasty
        BY <2>0, <4>1
      <4>2. ASSUME NEW s \in Scanner, NEW mark, hasty' = [hasty EXCEPT ![s] = mark]
            PROVE  hasty' = [t \in Scanner |-> hasty'[t]]
        BY <2>0, <4>2
      <4>3. CASE \E s \in Scanner : Scan(s)
        <5>1. hasty' = hasty \/ \E s \in Scanner : \E mark : hasty' = [hasty EXCEPT ![s] = mark]
          BY <4>3 DEF Scan, ScanFinds, ScanReads, ScanProbes, ScanRemoves
        <5> QED  BY <4>1, <4>2, <5>1
      <4>4. CASE ~(\E s \in Scanner : Scan(s))
        <5>1. hasty' = hasty
          BY <4>4 DEF Next, Startup, ServerUnchanged, View, Handle, LoadEnds, CloseEditor, DropSession, Aborted,
             DropRegistration, DropView, Exit, Ended, Crash, LoadDropped, OpenEditor, Quit, ViewUnchanged,
             Connect, Send, Leave, Connection, Accept, RejectBusy, ReadFrame, Enqueue, Answer, WriteReply,
             ClientUnchanged, vars
        <5> QED  BY <4>1, <5>1
      <4> QED  BY <4>3, <4>4
    <3> QED  BY <3>1, <3>2 DEF RegistryInv
  <2>1. CASE Startup
    <3>1. view' = view /\ hasty' = hasty /\ scan' = scan /\ server \in ToSet(Front(Steps)) /\ server # "failed"
      BY <2>1, StartupSteps DEF Startup, ServerUnchanged
    <3>2. \/ server' = "failed"
          \/ Needs(server) /\ entry' = Effect(server) /\ server' = After(server)
      BY <2>1 DEF Startup
    <3>3. After(server) \in ToSet(Steps)
      BY <3>1, StartupOrder, StartupSteps
    <3>4. CASE server' = "failed"
      BY <2>a, <3>4
    <3>5. CASE entry' = Effect(server) /\ server' = After(server)
      <4>1. Spared => entry' = Holds(server') /\ (entry.socket = "bound" => entry'.socket = "bound")
        BY <3>1, <3>5, StartupUndisturbed
      <4>2. Quiet' => Quiet
        BY <3>1
      <4> QED  BY <2>0, <2>a, <3>1, <3>3, <3>5, <4>1, <4>2
    <3> QED  BY <3>2, <3>4, <3>5
  <2>2. ASSUME NEW s \in Scanner, Scan(s) PROVE RegistryInv'
    <3>1. /\ view' = view /\ server' = server /\ (hasty[s] = "removed" => hasty'[s] = "removed")
          /\ \A t \in Scanner : t # s => scan'[t] = scan[t] /\ hasty'[t] = hasty[t]
      <4>1. view' = view /\ server' = server
        BY <2>2 DEF Scan, ScanFinds, ScanReads, ScanProbes, ScanRemoves, ScanUnchanged
      <4>2. \E at : scan' = [scan EXCEPT ![s] = at]
        BY <2>2 DEF Scan, ScanFinds, ScanReads, ScanProbes, ScanRemoves
      <4>4. \A t \in Scanner : t # s => scan'[t] = scan[t]
        BY <2>0, <4>2
      <4>5. /\ \A t \in Scanner : t # s => hasty'[t] = hasty[t]
            /\ hasty[s] = "removed" => hasty'[s] = "removed"
        <5>1. ASSUME NEW mark, hasty' = [hasty EXCEPT ![s] = mark], hasty[s] = "removed" => mark = "removed"
              PROVE  /\ \A t \in Scanner : t # s => hasty'[t] = hasty[t]
                     /\ hasty[s] = "removed" => hasty'[s] = "removed"
          BY <2>0, <5>1
        <5>2. CASE ScanFinds(s) \/ ScanProbes(s)
          <6>1. hasty' = hasty
            BY <5>2 DEF ScanFinds, ScanProbes
          <6> QED  BY <6>1
        <5>3. CASE ScanReads(s)
          <6> DEFINE mark == IF hasty[s] = "removed" THEN hasty[s]
                             ELSE IF entry.mode = "open" THEN "read" ELSE "no"
          <6>1. hasty' = [hasty EXCEPT ![s] = mark]
            BY <5>3 DEF ScanReads
          <6>2. hasty[s] = "removed" => mark = "removed"
            OBVIOUS
          <6> HIDE DEF mark
          <6> QED  BY <5>1, <6>1, <6>2
        <5>4. CASE ScanRemoves(s)
          <6> DEFINE mark == IF RemovalStep(scan[s]).next = "unlinking" /\ hasty[s] = "read"
                             THEN "removed" ELSE hasty[s]
          <6>1. hasty' = [hasty EXCEPT ![s] = mark]
            BY <5>4 DEF ScanRemoves
          <6>2. hasty[s] = "removed" => mark = "removed"
            OBVIOUS
          <6> HIDE DEF mark
          <6> QED  BY <5>1, <6>1, <6>2
        <5> QED  BY <2>2, <5>2, <5>3, <5>4 DEF Scan
      <4> QED  BY <4>1, <4>4, <4>5
    <3>2. CASE ~Quiet'
      BY <2>0, <2>a, <3>1, <3>2
    <3>3. CASE Quiet'
      <4>1. Quiet /\ Spared
        BY <2>0, <3>1, <3>3
      <4>2. ASSUME entry' = entry, scan'[s] \in {"idle", "reading", "probing", "checking"},
                   scan'[s] = "probing" => entry.socket = "bound",
                   scan'[s] = "checking" => hasty'[s] = "read"
            PROVE  RegistryInv'
        BY <2>0, <2>a, <3>1, <4>1, <4>2
      <4>3. CASE ScanFinds(s)
        <5>1. entry' = entry /\ scan'[s] = "reading"
          BY <2>0, <4>3 DEF ScanFinds
        <5> QED  BY <4>2, <5>1
      <4>4. CASE ScanReads(s)
        <5>1. entry' = entry /\ scan'[s] = Judgement(entry) /\ entry = Holds(server)
          BY <2>0, <4>1, <4>4 DEF ScanReads
        <5>2. entry.mode = "open" => hasty'[s] = "read"
          BY <2>0, <4>1, <4>4 DEF ScanReads
        <5>3. /\ Judgement(entry) \in {"idle", "probing", "checking"}
              /\ Judgement(entry) = "probing" => entry.socket = "bound"
              /\ Judgement(entry) = "checking" => entry.mode = "open"
          <6>1. CASE server = "make"
            BY <5>1, <6>1 DEF Holds, NoEntry, Judgement, Gone
          <6>2. CASE server \in {"secure", "bind"}
            BY <5>1, <6>2 DEF Holds, NoEntry, Judgement, Gone
          <6>3. CASE server \in {"restrict", "remake", "resecure", "write", "rename", "protect", "serving"}
            BY <5>1, <6>3 DEF Holds, Judgement, Gone
          <6> QED  BY <2>0, <4>1, <6>1, <6>2, <6>3, StartupSteps
        <5> QED  BY <4>2, <5>1, <5>2, <5>3
      <4>5. CASE ScanProbes(s)
        <5>1. entry' = entry /\ scan'[s] = "idle"
          BY <2>0, <4>1, <4>5 DEF ScanProbes
        <5> QED  BY <4>2, <5>1
      <4>6. CASE ScanRemoves(s)
        <5>1. scan[s] = "checking" /\ hasty[s] = "read"
          BY <4>1, <4>6 DEF ScanRemoves, Removals
        <5> DEFINE step == RemovalStep("checking")
        <5>2. step.entry = entry /\ step.next \in {"unlinking", "over"}
          BY DEF RemovalStep
        <5>3. step.next = "unlinking" => hasty'[s] = "removed"
          BY <2>0, <4>6, <5>1 DEF ScanRemoves
        <5>4. step.next = "over"
          BY <3>3, <5>2, <5>3
        <5>5. entry' = entry /\ scan'[s] = "idle"
          BY <2>0, <4>6, <5>1, <5>2, <5>4 DEF ScanRemoves
        <5> QED  BY <4>2, <5>5
      <4> QED  BY <2>2, <4>3, <4>4, <4>5, <4>6 DEF Scan
    <3> QED  BY <3>2, <3>3
  <2>3. CASE Aborted \/ Exit \/ Crash
    BY <2>a, <2>3 DEF Aborted, Exit, Crash, Ended
  <2>4. CASE DropRegistration \/ DropSession
    <3>1. server' = server
      BY <2>4 DEF DropRegistration, DropSession, ViewUnchanged
    <3>2. view'.at \notin Running \cup {"finishing"}
      <4>1. ASSUME NEW at \in Removals \cup {"leaving"}, view' = [view EXCEPT !.at = at]
            PROVE  view'.at \notin Running \cup {"finishing"}
        BY <2>0, <4>1 DEF Views, Removals, Running
      <4>2. CASE DropRegistration
        BY <4>1, <4>2, RemovalGoesOn DEF DropRegistration
      <4>3. CASE DropSession
        BY <4>1, <4>3 DEF DropSession, Removals
      <4> QED  BY <2>4, <4>2, <4>3
    <3> QED  BY <2>0, <2>a, <3>1, <3>2
  <2>5. ASSUME UNCHANGED <<server, scan, hasty, entry>>, view'.at \in Running \cup {"finishing"} =>
                   view.at \in Running \cup {"finishing"}
        PROVE  RegistryInv'
    <3>1. Quiet' => Quiet
      BY <2>5
    <3>2. Spared => Spared'
      BY <2>5
    <3> QED  BY <2>0, <2>a, <2>5, <3>1, <3>2
  <2>6. CASE Handle \/ LoadEnds \/ LoadDropped \/ DropView \/ OpenEditor \/ CloseEditor \/ Quit
    <3>1. UNCHANGED <<server, scan, hasty, entry>>
      BY <2>6 DEF Handle, LoadEnds, LoadDropped, DropView, OpenEditor, CloseEditor, Quit, ViewUnchanged
    <3>2. \/ view' = view \/ view.at \in Running
          \/ \E l : view' = [view EXCEPT !.load = l]
      BY <2>6 DEF Handle, LoadEnds, LoadDropped, DropView, OpenEditor, CloseEditor, Quit, Running
    <3>3. \A l : [view EXCEPT !.load = l].at = view.at
      BY <2>0 DEF Views
    <3> QED  BY <2>5, <3>1, <3>2, <3>3
  <2>7. ASSUME NEW c \in Client, NEW method \in {"get", "reload"},
               Connect(c, method) \/ Send(c) \/ Leave(c) \/ Connection(c)
        PROVE  RegistryInv'
    <3>1. UNCHANGED <<server, scan, hasty, entry>> /\ view' = view
      BY <2>7 DEF Connect, Send, Leave, Connection, Accept, RejectBusy, ReadFrame, Enqueue, Answer, WriteReply,
         ClientUnchanged
    <3> QED  BY <2>5, <3>1
  <2>8. CASE UNCHANGED vars
    BY <2>5, <2>8 DEF vars
  <2> QED  BY <2>1, <2>2, <2>3, <2>4, <2>6, <2>7, <2>8 DEF Next, View
<1> QED  BY <1>1, <1>2, AnswersInvHolds, PTL DEF Spec

(* Whatever any number of listings do at any time, a session whose view     *)
(* runs is in the registry and nobody removes it, unless one of them read    *)
(* its directory after it was made and before it was private, and found it   *)
(* private when it came to remove it.                                        *)
THEOREM RunningSessionsAreListed == Spec => []RunningIsListed
<1>1. RegistryInv => RunningIsListed
  <2> SUFFICES ASSUME RegistryInv, server = "serving", view.at \in Running,
                      \A s \in Scanner : hasty[s] # "removed"
               PROVE  Registered /\ \A s \in Scanner : scan[s] \in Removals => hasty[s] = "read"
    BY DEF RunningIsListed
  <2> QED  BY DEF RegistryInv, Holds, Registered, Removals
<1> QED  BY <1>1, RegistryInvHolds, PTL
=============================================================================
