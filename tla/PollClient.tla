----------------------------- MODULE PollClient -----------------------------
(***************************************************************************)
(* How one GitHub feed gets into the shadow log: _poll_collection and _get *)
(* (github_client.py) with the ETag store of the daemon (daemon.py).       *)
(*                                                                         *)
(* The feed is a sequence of event ids, newest position first, that GitHub *)
(* serves in pages of PageSize.  The ETag of a page stands for its content *)
(* and is therefore modelled as the content itself.  ETags and logged      *)
(* events are rows of the database, each written in a transaction of its   *)
(* own, and survive a crash; the walk over the pages does not.             *)
(*                                                                         *)
(* Every attempt of a request asks for its headers first, and so for the   *)
(* installation token (GitHubAppAuth), which expires.  Time is counted in  *)
(* what the token has left, and passes while the client waits: between two *)
(* polls, in the back-off after a rate limit, and while a request is out.  *)
(***************************************************************************)
EXTENDS Naturals, Sequences

CONSTANTS
  PageSize,     \* per_page
  MaxRetries,   \* GitHubClient.max_retries, attempts after a rate limit
  Lifetime,     \* how long GitHub lets a token live
  Buffer,       \* TOKEN_REFRESH_BUFFER_MINUTES, in which a request is answered
  FirstIds,     \* the feed before the daemon ever polled has the ids 1 .. FirstIds
  MaxIds,       \* bound: ids GitHub ever gives out
  Appends,      \* TRUE if new ids enter at the front (the issue events)
  Updates,      \* TRUE if an item gets a new id where it stands (the pull requests)
  Closes,       \* TRUE if items leave and come back (the pull requests that are open)
  MaxDeficit,   \* bound: deficit, below, when an item leaves
  MaxFailures   \* bound: crashes and requests that fail for good

ASSUME PageSizeType == PageSize \in Nat \ {0}
ASSUME PollBounds ==
  /\ MaxRetries \in Nat /\ MaxFailures \in Nat /\ MaxDeficit \in Nat
  /\ FirstIds \in Nat /\ MaxIds \in Nat \ {0} /\ FirstIds <= MaxIds
  /\ Appends \in BOOLEAN /\ Updates \in BOOLEAN /\ Closes \in BOOLEAN
ASSUME TokenTimes == Buffer \in Nat \ {0} /\ Lifetime \in Nat /\ Lifetime > Buffer

VARIABLES
  feed,      \* what GitHub serves
  lastId,    \* the newest id in it
  logged,    \* raw_events
  etags,     \* the stored ETag of every page, None if there is none
  pc,        \* "down", "idle" (between polls), "headers", "get" (request out), "log"
  page,      \* the page being fetched or logged
  attempt,   \* rate-limited answers to the request so far
  items,     \* the items of the payload not logged yet
  more,      \* the response had a link to a next page
  left,      \* _expires_at less the time it is, 0 if there is no token; while a
             \* request is out, less the time its answer takes
  failures,  \* failures so far
  fresh,     \* history: since an item last entered with no deficit, none has left,
             \* nothing failed, and no page but the first has changed otherwise
  deficit    \* history: items that have left and that no new ones have made up for

history == <<fresh, deficit>>
pollVars == <<feed, lastId, logged, etags, pc, page, attempt, items, more, left,
              failures, history>>
server == <<feed, lastId>>
walk == <<pc, page, attempt, items, more>>

None == <<0>>
Least(a, b) == IF a <= b THEN a ELSE b

Pages == 1 .. MaxIds
Content(p) ==
  SubSeq(feed, (p - 1) * PageSize + 1, Least(p * PageSize, Len(feed)))

(* A slip, not the code: a last page of one item is not asked for. *)
HasNextFull(p) == p * PageSize + 1 < Len(feed)

HasNext(p) == p * PageSize < Len(feed)
Published == {feed[k] : k \in DOMAIN feed}

PollInit ==
  /\ feed = [k \in 1 .. FirstIds |-> FirstIds + 1 - k]
  /\ lastId = FirstIds
  /\ logged = {}
  /\ etags = [p \in Pages |-> None]
  /\ pc = "down"
  /\ page = 1
  /\ attempt = 0
  /\ items = <<>>
  /\ more = FALSE
  /\ left = 0
  /\ failures = 0
  /\ fresh = TRUE
  /\ deficit = 0

(***************************************************************************)
(* GitHub.                                                                 *)
(***************************************************************************)

Publish ==
  /\ Appends
  /\ lastId < MaxIds
  /\ lastId' = lastId + 1
  /\ feed' = <<lastId'>> \o feed
  /\ fresh' = (fresh \/ deficit = 0)
  /\ deficit' = IF deficit = 0 THEN 0 ELSE deficit - 1
  /\ UNCHANGED <<logged, etags, walk, left, failures>>

(* A pull request changes: its event id, which contains updated_at, is new, *)
(* its place in the list (sorted by creation) is not.                       *)
UpdateItem(k) ==
  /\ Updates
  /\ lastId < MaxIds
  /\ lastId' = lastId + 1
  /\ feed' = [feed EXCEPT ![k] = lastId']
  /\ fresh' = (fresh /\ k <= PageSize)
  /\ UNCHANGED <<logged, etags, walk, left, failures, deficit>>

(* A pull request is closed: only open ones are listed, and those behind it *)
(* move forward.                                                            *)
CloseItem(k) ==
  /\ Closes
  /\ deficit < MaxDeficit
  /\ feed' = SubSeq(feed, 1, k - 1) \o SubSeq(feed, k + 1, Len(feed))
  /\ fresh' = FALSE
  /\ deficit' = deficit + 1
  /\ UNCHANGED <<lastId, logged, etags, walk, left, failures>>

(* One that was closed, maybe before the daemon ever polled, is opened again: *)
(* it comes back behind k others, where its creation puts it, as an update.   *)
ReopenItem(k) ==
  /\ Closes
  /\ lastId < MaxIds
  /\ lastId' = lastId + 1
  /\ feed' = SubSeq(feed, 1, k) \o <<lastId'>> \o SubSeq(feed, k + 1, Len(feed))
  /\ fresh' = (fresh /\ k < PageSize)
  /\ UNCHANGED <<logged, etags, walk, left, failures, deficit>>

(***************************************************************************)
(* The client.                                                             *)
(***************************************************************************)

GoIdle(next) ==
  /\ pc' = next
  /\ page' = 1
  /\ attempt' = 0
  /\ items' = <<>>
  /\ more' = FALSE

StartDaemon ==
  /\ pc = "down"
  /\ GoIdle("idle")
  /\ UNCHANGED <<server, logged, etags, left, failures, history>>

StartPoll ==
  /\ pc = "idle"
  /\ pc' = "headers"
  /\ UNCHANGED <<server, logged, etags, page, attempt, items, more, left, failures, history>>

(* The client has waited, for the next poll or for a rate limit to end. *)
Wait ==
  /\ pc = "headers"
  /\ left' \in 0 .. left
  /\ UNCHANGED <<server, logged, etags, walk, failures, history>>

(* The request goes out with a token that has t left.  The timeouts of the   *)
(* client are shorter than the buffer.                                      *)
Send(t) ==
  /\ pc' = "get"
  /\ left' \in {IF u <= t THEN t - u ELSE 0 : u \in 0 .. Buffer}
  /\ UNCHANGED <<server, logged, etags, page, attempt, items, more, failures, history>>

(* A slip, not the code: the buffer itself is still time enough. *)
SendWithCachedTokenToTheEnd ==
  /\ pc = "headers"
  /\ left >= Buffer
  /\ Send(left)

SendWithCachedToken ==
  /\ pc = "headers"
  /\ left > Buffer
  /\ Send(left)

SendWithNewToken ==
  /\ pc = "headers"
  /\ left <= Buffer
  /\ Send(Lifetime)

(* 304: the page is what its stored ETag says, and the walk ends here.     *)
NotModified ==
  /\ pc = "get"
  /\ etags[page] = Content(page)
  /\ GoIdle("idle")
  /\ UNCHANGED <<server, logged, etags, left, failures, history>>

(* A slip, not the code: one retry too many. *)
RateLimitedOnceMore ==
  /\ pc = "get"
  /\ attempt <= MaxRetries
  /\ attempt' = attempt + 1
  /\ pc' = "headers"
  /\ UNCHANGED <<server, logged, etags, page, items, more, left, failures, history>>

(* A slip, not the code: the headers are made once for all attempts. *)
RateLimitedKeepsHeaders ==
  /\ pc = "get"
  /\ attempt < MaxRetries
  /\ attempt' = attempt + 1
  /\ left' \in 0 .. left
  /\ UNCHANGED <<server, logged, etags, pc, page, items, more, failures, history>>

(* 403 or 429: wait and ask again, a bounded number of times. *)
RateLimited ==
  /\ pc = "get"
  /\ attempt < MaxRetries
  /\ attempt' = attempt + 1
  /\ pc' = "headers"
  /\ UNCHANGED <<server, logged, etags, page, items, more, left, failures, history>>

(* 200: the ETag is stored before anything of the payload is logged.       *)
Modified ==
  /\ pc = "get"
  /\ etags[page] # Content(page)
  /\ etags' = [etags EXCEPT ![page] = Content(page)]
  /\ items' = Content(page)
  /\ more' = HasNext(page)
  /\ attempt' = 0
  /\ pc' = "log"
  /\ UNCHANGED <<server, logged, page, left, failures, history>>

(* A slip, not the code: only the first item of the payload is logged. *)
LogFirstItem ==
  /\ pc = "log"
  /\ items # <<>>
  /\ logged' = logged \cup {Head(items)}
  /\ items' = <<>>
  /\ UNCHANGED <<server, etags, pc, page, attempt, more, left, failures, history>>

(* INSERT OR IGNORE of one item, in its own transaction. *)
LogItem ==
  /\ pc = "log"
  /\ items # <<>>
  /\ logged' = logged \cup {Head(items)}
  /\ items' = Tail(items)
  /\ UNCHANGED <<server, etags, pc, page, attempt, more, left, failures, history>>

NextPage ==
  /\ pc = "log"
  /\ items = <<>>
  /\ more
  /\ page' = page + 1
  /\ more' = FALSE
  /\ pc' = "headers"
  /\ UNCHANGED <<server, logged, etags, attempt, items, left, failures, history>>

LastPage ==
  /\ pc = "log"
  /\ items = <<>>
  /\ ~more
  /\ GoIdle("idle")
  /\ UNCHANGED <<server, logged, etags, left, failures, history>>

(* The process dies, the request fails, or the rate limit outlasts the     *)
(* retries, which raises as well: run() ends in each case.                 *)
Fail ==
  /\ pc # "down"
  /\ failures < MaxFailures
  /\ failures' = failures + 1
  /\ fresh' = FALSE
  /\ left' = 0
  /\ GoIdle("down")
  /\ UNCHANGED <<server, logged, etags, deficit>>

ClientStep ==
  \/ StartDaemon \/ StartPoll \/ SendWithCachedToken \/ SendWithNewToken
  \/ NotModified \/ Modified
  \/ LogItem \/ NextPage \/ LastPage

PollNext ==
  \/ Publish
  \/ \E k \in DOMAIN feed : UpdateItem(k) \/ CloseItem(k)
  \/ \E k \in 0 .. Len(feed) : ReopenItem(k)
  \/ ClientStep
  \/ Wait
  \/ RateLimited
  \/ Fail

PollSpec == PollInit /\ [][PollNext]_pollVars

(* The daemon keeps polling and someone restarts it; GitHub answers at the *)
(* latest when it has refused MaxRetries times.                            *)
FairPollSpec == PollSpec /\ WF_pollVars(ClientStep)

-----------------------------------------------------------------------------
PollTypeOK ==
  /\ feed \in Seq(1 .. MaxIds)
  /\ lastId \in FirstIds .. MaxIds
  /\ logged \subseteq 1 .. MaxIds
  /\ DOMAIN etags = Pages
  /\ pc \in {"down", "idle", "headers", "get", "log"}
  /\ page \in Pages
  /\ attempt \in 0 .. MaxRetries
  /\ items \in Seq(1 .. MaxIds)
  /\ more \in BOOLEAN
  /\ left \in 0 .. Lifetime
  /\ failures \in 0 .. MaxFailures
  /\ fresh \in BOOLEAN
  /\ deficit \in 0 .. MaxDeficit

(* However long the client has waited before it, and however long the answer *)
(* takes, no request is answered after the token it was sent with has        *)
(* expired, which would end the daemon.                                      *)
TokenOutlivesRequest == pc = "get" => left > 0

(* While nothing fails, a stored ETag never vouches for an item that is not  *)
(* in the log or in the payload being logged: "not modified" is safe.        *)
EtagVouchesForLogged ==
  failures = 0 =>
    \A p \in Pages \ {k \in Pages : etags[k] = None} :
      \A j \in DOMAIN etags[p] :
        etags[p][j] \in logged \cup {items[m] : m \in DOMAIN items}

(* Nothing GitHub keeps showing stays out of the log for ever.               *)
EveryEventLogged ==
  \A id \in 1 .. MaxIds : id \in Published ~> (id \in logged \/ id \notin Published)

(* What a failure between the ETag and the log, or a change on a page the    *)
(* walk does not get to, keeps out of the log stays out only until the next  *)
(* event enters the feed, once as many have entered as have left: it shifts  *)
(* every page to where it never was, so that no old ETag holds, wherever the *)
(* walk is at that moment.  (An item that takes the place of one that left   *)
(* may bring an old page back, and with it a 304 that ends the walk.)        *)
LossEndsWithGrowth == <>[]fresh => <>[](Published \subseteq logged)
=============================================================================
