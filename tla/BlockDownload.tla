--------------------------- MODULE BlockDownload ---------------------------
(***************************************************************************)
(* Which block is asked for from which peer (net_processing.cpp): headers, *)
(* inventory, block and compact block messages, the download window, peers *)
(* that stall, time out, send what cannot be used, or go away.             *)
(*                                                                         *)
(* One thread handles the messages of all peers, one message at a time;    *)
(* the socket thread removes peers (FinalizeNode), and submitblock may     *)
(* hand in a block. A handler that gives up cs_main on its way is one      *)
(* step: no other thread asks for a block.                                 *)
(*                                                                         *)
(* Every caller of MarkBlockAsInFlight passes the block's index entry, so  *)
(* all blocks in flight have validated headers and nBlocksInFlight is the  *)
(* length of the peer's queue. Time is left out: whatever may time out may *)
(* do so at once.                                                          *)
(***************************************************************************)
EXTENDS Integers, Sequences, FiniteSets, Functions

CONSTANTS
    Peer,               \* peers
    Preferred,          \* those with fPreferredDownload
    Settings,           \* the circumstances to consider: see the variable setting
    Reliable,           \* a peer that comes to have Best, announces it and answers
    Best,               \* the block with the most work
    Block, Genesis,     \* blocks
    Parent,             \* pprev
    Work,               \* nChainWork
    BadBlock,           \* blocks that turn out to be invalid
    Window,             \* BLOCK_DOWNLOAD_WINDOW, 1024
    MaxTransit,         \* MAX_BLOCKS_IN_TRANSIT_PER_PEER, 16
    MaxHeaders,         \* MAX_HEADERS_RESULTS, 2000
    MaxPending,         \* bound on getheaders without an answer
    MaxConnect,         \* bound on the number of connections of a peer
    NULL                \* no block, no peer

ASSUME TreeAssumption ==
    /\ IsFiniteSet(Block)
    /\ Genesis \in Block
    /\ Parent \in [Block \ {Genesis} -> Block]
    /\ Work \in [Block -> Nat]
    /\ \A b \in Block \ {Genesis} : Work[Parent[b]] < Work[b]

ASSUME PeerAssumption ==
    /\ IsFiniteSet(Peer)
    /\ Reliable \in Peer
    /\ Window \in Nat
    /\ MaxTransit \in Nat

ASSUME SettingsAssumption ==
    /\ Best \in Block
    /\ \A s \in Settings : /\ s.offer \in Block
                           /\ s.hashes \subseteq Block /\ s.headers \subseteq Block

VARIABLES
    index,              \* mapBlockIndex
    bestHeader,         \* pindexBestHeader
    have,               \* blocks with BLOCK_HAVE_DATA
    failed,             \* blocks with BLOCK_FAILED_MASK
    tip,                \* chainActive.Tip()
    connected,          \* mapNodeState
    connects,           \* connections made, by peer
    syncing,            \* peers with fSyncStarted
    requests,           \* getheaders: pending   nPendingHeaderRequests, by peer
                        \*             asked     those the reliable peer has yet to answer
    best,               \* pindexBestKnownBlock
    unknown,            \* hashLastUnknownBlock
    common,             \* pindexLastCommonBlock
    fDisconnect,        \* peers that are to be disconnected
    dl,                 \* downloads: flight    mapBlocksInFlight, from block to peer
                        \*            queue     vBlocksInFlight, by peer
                        \*            partial   blocks in flight with a partialBlock
                        \*            stalling  peers with nStallingSince set
                        \*            nPeers    nPeersWithValidatedDownloads
    remote,             \* the reliable peer: tip       the last block of its chain
                        \*                    untold    it has yet to announce that block
    setting             \* what stays: recent       the chain is close to today
                        \*             whitelisted  peers with fWhitelisted
                        \*             offer        the last block of the reliable peer at first
                        \*             headers      blocks other peers announce by headers
                        \*             hashes       blocks they announce by hash
                        \*             unasked      blocks that may be sent unasked
                        \*             compact      blocks sent as compact blocks
                        \*             submitted    blocks handed to submitblock

chainstate == <<index, bestHeader, have, failed, tip>>
availability == <<best, unknown, common>>
connections == <<connected, connects, syncing>>
nodes == <<connections, requests>>
world == <<remote, setting>>
vars == <<chainstate, availability, nodes, fDisconnect, dl, world>>

-----------------------------------------------------------------------------
(* The block tree.                                                         *)

\* The blocks that a walk over pprev reaches.
Anc == [b \in Block |->
          {a \in Block : \A S \in SUBSET Block :
             (b \in S /\ \A x \in S \ {Genesis} : Parent[x] \in S) => a \in S}]

Height == [b \in Block |-> Cardinality(Anc[b]) - 1]

\* The blocks from the first one to b.
ChainTo == [b \in Block |-> [i \in 1 .. Height[b] + 1 |-> CHOOSE a \in Anc[b] : Height[a] = i - 1]]
AncestorAt(b, h) == ChainTo[b][h + 1]
LastCommonAncestor ==
    [a \in Block |-> [b \in Block |->
       CHOOSE c \in Anc[a] \cap Anc[b] : Anc[a] \cap Anc[b] \subseteq Anc[c]]]

\* The blocks towards b above height from, up to height to.
Path(b, from, to) == SubSeq(ChainTo[b], from + 2, to + 1)

Lower(m, n) == IF m <= n THEN m ELSE n

-----------------------------------------------------------------------------
(* The bookkeeping of downloads.                                           *)

\* list::erase of the entry of block b.
Erase(queue, b) ==
    LET i == CHOOSE k \in DOMAIN queue : queue[k] = b
    IN  [k \in 1 .. Len(queue) - 1 |-> IF k < i THEN queue[k] ELSE queue[k + 1]]

\* Mutant: the peer stays marked as stalling.
MarkBlockAsReceivedStalling(d, b) ==
    IF b \notin DOMAIN d.flight THEN d
    ELSE LET p == d.flight[b]
             rest == Erase(d.queue[p], b)
         IN  [d EXCEPT !.flight = Restrict(@, DOMAIN @ \ {b}),
                       !.queue[p] = rest,
                       !.partial = @ \ {b},
                       !.nPeers = IF rest = <<>> THEN @ - 1 ELSE @]

MarkBlockAsReceived(d, b) ==
    IF b \notin DOMAIN d.flight THEN d
    ELSE LET p == d.flight[b]
             rest == Erase(d.queue[p], b)
         IN  [d EXCEPT !.flight = Restrict(@, DOMAIN @ \ {b}),
                       !.queue[p] = rest,
                       !.partial = @ \ {b},
                       !.stalling = @ \ {p},
                       !.nPeers = IF rest = <<>> THEN @ - 1 ELSE @]

\* A block in flight from another peer moves to this one.
MarkBlockAsInFlight(d, p, b, partial) ==
    IF b \in DOMAIN d.flight /\ d.flight[b] = p THEN d
    ELSE LET r == MarkBlockAsReceived(d, b)
         IN  [r EXCEPT !.flight = [x \in DOMAIN @ \cup {b} |-> IF x = b THEN p ELSE @[x]],
                       !.queue[p] = Append(@, b),
                       !.partial = IF partial THEN @ \cup {b} ELSE @,
                       !.nPeers = IF r.queue[p] = <<>> THEN @ + 1 ELSE @]

\* ProcessBlockAvailability: the best block and the unknown one of a peer, once
\* the headers in known are there.
Availability(p, known) ==
    IF unknown[p] \in known
    THEN IF best[p] = NULL \/ Work[unknown[p]] >= Work[IF best[p] = NULL THEN unknown[p] ELSE best[p]]
         THEN [best |-> unknown[p], unknown |-> NULL]
         ELSE [best |-> best[p], unknown |-> NULL]
    ELSE [best |-> best[p], unknown |-> unknown[p]]

\* UpdateBlockAvailability: the peer has announced b.
Announced(p, b, known) ==
    LET a == Availability(p, known)
    IN  IF b \notin known THEN [a EXCEPT !.unknown = b]
        ELSE IF a.best = NULL THEN [a EXCEPT !.best = b]
        ELSE IF Work[b] >= Work[a.best] THEN [a EXCEPT !.best = b] ELSE a

SetAvailability(p, a) ==
    /\ best' = [best EXCEPT ![p] = a.best]
    /\ unknown' = [unknown EXCEPT ![p] = a.unknown]

\* FindNextBlocksToDownload, for one block on the way to the peer's best one.
Walk(p, count, windowEnd, s, b) ==
    IF s.done THEN s
    ELSE IF b \in failed THEN [s EXCEPT !.done = TRUE]
    ELSE IF b \in have \cup Anc[tip] THEN
       IF Anc[b] \subseteq have THEN [s EXCEPT !.common = b] ELSE s
    ELSE IF b \in DOMAIN dl.flight THEN
       IF s.waitingfor = NULL THEN [s EXCEPT !.waitingfor = dl.flight[b]] ELSE s
    ELSE IF Height[b] > windowEnd THEN
       [s EXCEPT !.done = TRUE,
                 !.staller = IF s.blocks = <<>> /\ s.waitingfor # p THEN s.waitingfor ELSE @]
    ELSE [s EXCEPT !.blocks = Append(@, b), !.done = Len(s.blocks) + 1 = count]

FindNextBlocksToDownload(p, from, known, count) ==
    LET last == IF from = NULL THEN AncestorAt(tip, Lower(Height[known], Height[tip])) ELSE from
        start == LastCommonAncestor[last][known]
        windowEnd == Height[start] + Window
        none == [blocks |-> <<>>, waitingfor |-> NULL, staller |-> NULL, common |-> start, done |-> FALSE]
        path == Path(known, Height[start], Lower(Height[known], windowEnd + 1))
        walked[n \in 0 .. Len(path)] ==
          IF n = 0 THEN none ELSE Walk(p, count, windowEnd, walked[n - 1], path[n])
    IN  walked[Len(path)]

-----------------------------------------------------------------------------
(* Blocks and headers as validation takes them.                            *)

\* CanDirectFetch, not IsInitialBlockDownload, and a best header of today: the
\* last block is of today.
TipRecent == setting.recent \/ tip = Best
HeaderRecent == setting.recent \/ bestHeader = Best

\* AddToBlockIndex: the header with the most work, the first one of several.
NewBestHeader(b) == IF Work[b] > Work[bestHeader] THEN b ELSE bestHeader

\* AcceptBlockHeader.
HeaderOk(b) ==
    IF b \in index THEN b \notin failed ELSE Parent[b] \in index \ failed

Linked(stored) == {b \in stored : Anc[b] \subseteq stored}

\* ActivateBestChain: the tip moves to a block with more work.
NewTip(stored) ==
    LET better == {b \in Linked(stored) : Work[b] > Work[tip]}
    IN  IF better = {} THEN tip ELSE CHOOSE b \in better : \A c \in better : Work[c] <= Work[b]

\* AcceptBlock gets as far as looking at the block itself.
Examined(b, forced) == HeaderOk(b) /\ b \notin have /\ (forced \/ Work[b] > Work[tip])

\* ProcessNewBlock. A block that is not intact does not match its header.
ProcessNewBlock(b, forced, intact) ==
    IF intact /\ HeaderOk(b)
    THEN /\ index' = index \cup {b}
         /\ bestHeader' = NewBestHeader(b)
         /\ have' = IF Examined(b, forced) /\ b \notin BadBlock THEN have \cup {b} ELSE have
         /\ failed' = IF Examined(b, forced) /\ b \in BadBlock THEN failed \cup {b} ELSE failed
         /\ tip' = NewTip(have')
    ELSE UNCHANGED chainstate

\* Misbehaving by the limit sets fShouldBan; before the next message SendRejectsAndCheckIfBanned
\* disconnects the peer unless it is whitelisted.
Punished(p) == IF p \in setting.whitelisted THEN fDisconnect ELSE fDisconnect \cup {p}

-----------------------------------------------------------------------------
(* Requests for headers, on the requests q.                                *)

\* RequestHeadersFrom: headers after block from, up to stop or (NULL) to the end; unless
\* forced, not while an answer of the peer is awaited.
RequestHeadersFrom(q, p, from, stop, forced) ==
    IF q.pending[p] > 0 /\ ~forced THEN q
    ELSE [q EXCEPT !.pending[p] = @ + 1,
                   !.asked = IF p = Reliable THEN Append(@, [from |-> from, stop |-> stop]) ELSE @]

\* Another forced request stays within the bound.
MayAsk(p) == requests.pending[p] < MaxPending /\ Len(requests.asked) < MaxPending

\* Mutant: the request that the message answers stays open.
HeadersArrivedOpen(q, p) == q

\* A headers message counts as the answer to a request, if one is open.
HeadersArrived(q, p) == [q EXCEPT !.pending[p] = IF @ > 0 THEN @ - 1 ELSE @]

\* What a message of n headers up to b, which connect, does: when it is full there may
\* be more.
AfterHeaders(q, p, n, b) ==
    IF n = MaxHeaders THEN RequestHeadersFrom(HeadersArrived(q, p), p, b, NULL, FALSE)
    ELSE HeadersArrived(q, p)

-----------------------------------------------------------------------------
Init ==
    /\ index = {Genesis} /\ bestHeader = Genesis
    /\ have = {Genesis} /\ failed = {} /\ tip = Genesis
    /\ connected = {} /\ connects = [p \in Peer |-> 0] /\ syncing = {} /\ fDisconnect = {}
    /\ best = [p \in Peer |-> NULL]
    /\ unknown = [p \in Peer |-> NULL]
    /\ common = [p \in Peer |-> NULL]
    /\ dl = [flight |-> [b \in {} |-> NULL], queue |-> [p \in Peer |-> <<>>],
             partial |-> {}, stalling |-> {}, nPeers |-> 0]
    /\ requests = [pending |-> [p \in Peer |-> 0], asked |-> <<>>]
    /\ setting \in Settings
    /\ remote = [tip |-> setting.offer, untold |-> FALSE]

InitializeNode(p) ==
    /\ p \notin connected /\ connects[p] < MaxConnect
    /\ connected' = connected \cup {p}
    /\ connects' = [connects EXCEPT ![p] = @ + 1]
    /\ UNCHANGED <<chainstate, availability, syncing, requests, fDisconnect, dl>>

\* Mutant: a peer that goes is still counted as downloading.
ReleasedCounted(p) ==
    [dl EXCEPT !.flight = Restrict(@, {b \in DOMAIN @ : @[b] # p}),
               !.queue[p] = <<>>,
               !.partial = {b \in @ : dl.flight[b] # p},
               !.stalling = @ \ {p}]

\* What is left of the downloads when a peer goes.
Released(p) ==
    [dl EXCEPT !.flight = Restrict(@, {b \in DOMAIN @ : @[b] # p}),
               !.queue[p] = <<>>,
               !.partial = {b \in @ : dl.flight[b] # p},
               !.stalling = @ \ {p},
               !.nPeers = IF dl.queue[p] # <<>> THEN @ - 1 ELSE @]

\* The connection is closed, by either side; the reliable peer keeps it.
FinalizeNode(p) ==
    /\ p \in connected \ {Reliable}
    /\ connected' = connected \ {p}
    /\ syncing' = syncing \ {p}
    /\ requests' = [requests EXCEPT !.pending[p] = 0]
    /\ fDisconnect' = fDisconnect \ {p}
    /\ best' = [best EXCEPT ![p] = NULL]
    /\ unknown' = [unknown EXCEPT ![p] = NULL]
    /\ common' = [common EXCEPT ![p] = NULL]
    /\ dl' = Released(p)
    /\ UNCHANGED <<chainstate, connects>>

\* Messages are read from, and sent to, a peer that is to stay.
Live(p) == p \in connected /\ p \notin fDisconnect

\* The reliable peer has no other chain than the one towards the best block.
Has(p, b) == p = Reliable => b \in Anc[remote.tip]

\* A block is announced by its hash: if it is not known, the headers up to it are
\* asked for, whatever else is.
Inv(p, b) ==
    /\ Live(p)
    /\ SetAvailability(p, Announced(p, b, index))
    /\ \/ b \in index /\ UNCHANGED requests
       \/ /\ b \notin index /\ MayAsk(p)
          /\ requests' = RequestHeadersFrom(requests, p, bestHeader, b, TRUE)
    /\ UNCHANGED <<chainstate, common, connections, fDisconnect, dl>>

\* Headers up to b that do not connect: all of them are asked for.
Unconnecting(p, b) ==
    /\ Live(p) /\ MayAsk(p)
    /\ b # Genesis /\ Parent[b] \notin index
    /\ SetAvailability(p, Announced(p, b, index))
    /\ requests' = RequestHeadersFrom(HeadersArrived(requests, p), p, bestHeader, NULL, TRUE)
    /\ UNCHANGED <<chainstate, common, connections, fDisconnect, dl>>

\* A headers message with none, on the requests q.
NoHeaders(p, q) ==
    /\ Live(p)
    /\ requests' = HeadersArrived(q, p)
    /\ UNCHANGED <<chainstate, availability, connections, fDisconnect, dl>>

\* The downloads after headers up to b: what is missing towards b is asked for,
\* from the earliest on, unless there is more of it than a peer may have in flight.
DirectFetch(p, b) ==
    LET path == Path(b, Height[LastCommonAncestor[b][tip]], Height[b])
        missing == Range(path) \ (have \cup DOMAIN dl.flight)
        asked[n \in 0 .. Len(path)] ==
          IF n = 0 THEN dl
          ELSE LET d == asked[n - 1]
               IN  IF path[n] \notin missing \/ Len(d.queue[p]) >= MaxTransit THEN d
                   ELSE MarkBlockAsInFlight(d, p, path[n], FALSE)
    IN  IF /\ TipRecent /\ b \notin failed /\ Work[b] >= Work[tip]
           /\ \/ Cardinality(missing) <= MaxTransit
              \/ Cardinality(missing) = MaxTransit + 1 /\ path[1] \in missing
        THEN asked[Len(path)] ELSE dl

\* The headers from a to b, which connect, on the requests q.
Headers(p, a, b, q) ==
    /\ Live(p)
    /\ a \in Anc[b] \ {Genesis} /\ Parent[a] \in index
    /\ LET headers == Anc[b] \ Anc[Parent[a]]
       IN  /\ Cardinality(headers) <= MaxHeaders
           /\ IF HeaderOk(a) /\ headers \cap failed = {}
              THEN /\ index' = index \cup headers
                   /\ bestHeader' = NewBestHeader(b)
                   /\ SetAvailability(p, Announced(p, b, index'))
                   /\ requests' = AfterHeaders(q, p, Cardinality(headers), b)
                   /\ dl' = DirectFetch(p, b)
                   /\ UNCHANGED <<have, failed, tip, common, fDisconnect>>
              ELSE /\ requests' = HeadersArrived(q, p)
                   /\ fDisconnect' = IF a \notin index THEN Punished(p) ELSE fDisconnect
                   /\ UNCHANGED <<chainstate, availability, dl>>
    /\ UNCHANGED connections

\* A block arrives, asked for or not.
BlockMsg(p, b, intact) ==
    /\ Live(p)
    /\ (Has(p, b) /\ b \in setting.unasked) \/ (b \in DOMAIN dl.flight /\ dl.flight[b] = p)
    /\ dl' = MarkBlockAsReceived(dl, b)
    /\ LET forced == b \in DOMAIN dl.flight \/ (p \in setting.whitelisted /\ TipRecent)
       IN  /\ ProcessNewBlock(b, forced, intact)
           /\ fDisconnect' = IF \/ ~intact
                                \/ Examined(b, forced) /\ b \in BadBlock
                                \/ b \notin index /\ Parent[b] \in failed
                             THEN Punished(p) ELSE fDisconnect
    /\ UNCHANGED <<availability, nodes>>

\* The missing transactions of a compact block of this peer. (If they do not match
\* the block is asked for again and nothing changes.)
BlockTxn(p, b, status) ==
    /\ Live(p)
    /\ b \in dl.partial /\ dl.flight[b] = p
    /\ dl' = MarkBlockAsReceived(dl, b)
    /\ \/ /\ status = "invalid"
          /\ fDisconnect' = Punished(p)
          /\ UNCHANGED chainstate
       \/ /\ status = "ok"
          /\ ProcessNewBlock(b, TRUE, TRUE)
          /\ UNCHANGED fDisconnect
    /\ UNCHANGED <<availability, nodes>>

\* A compact block: the pool holds all of its transactions or only some ("missing",
\* also if it cannot tell), or it is malformed.
CmpctBlock(p, b, status) ==
    /\ Live(p) /\ Has(p, b) /\ b \in setting.compact
    /\ Parent[b] \in index
    /\ LET inFlight == b \in DOMAIN dl.flight
           wanted == b \notin have /\ Work[b] > Work[tip] /\ (inFlight \/ TipRecent)
           near == Height[b] <= Height[tip] + 2
           mine == IF inFlight THEN dl.flight[b] = p ELSE Len(dl.queue[p]) < MaxTransit
           syncs == mine /\ inFlight /\ b \in dl.partial
           fills == wanted /\ near /\ mine /\ ~syncs
           asked == [MarkBlockAsInFlight(dl, p, b, TRUE) EXCEPT !.partial = @ \cup {b}]
       IN  \/ /\ ~HeaderOk(b)
              /\ fDisconnect' = IF b \notin index THEN Punished(p) ELSE fDisconnect
              /\ UNCHANGED <<chainstate, best, unknown, requests, dl>>
           \/ /\ HeaderOk(b)
              /\ SetAvailability(p, Announced(p, b, index \cup {b}))
              /\ IF status = "ok" /\ wanted /\ near /\ ~syncs THEN ProcessNewBlock(b, TRUE, TRUE)
                 ELSE /\ index' = index \cup {b}
                      /\ bestHeader' = NewBestHeader(b)
                      /\ UNCHANGED <<have, failed, tip>>
              /\ requests' = IF wanted /\ ~near /\ ~inFlight THEN AfterHeaders(requests, p, 1, b)
                             ELSE requests
              /\ fDisconnect' = IF fills /\ status = "invalid" THEN Punished(p) ELSE fDisconnect
              /\ \/ (~wanted \/ (~near /\ inFlight) \/ (near /\ syncs)) /\ UNCHANGED dl
                 \/ wanted /\ ~near /\ ~inFlight /\ dl' = DirectFetch(p, b)
                 \/ fills /\ status = "missing" /\ dl' = asked
                 \/ fills /\ status # "missing" /\ dl' = MarkBlockAsReceived(asked, b)
                 \/ /\ wanted /\ near /\ ~mine
                    /\ dl' = IF status = "ok" /\ b \notin BadBlock THEN MarkBlockAsReceived(dl, b) ELSE dl
    /\ UNCHANGED <<common, connections>>

\* A compact block that does not connect.
CmpctUnconnecting(p, b) ==
    /\ Live(p) /\ b \in setting.compact
    /\ b # Genesis /\ Parent[b] \notin index
    /\ TipRecent /\ MayAsk(p)
    /\ requests' = RequestHeadersFrom(requests, p, bestHeader, NULL, TRUE)
    /\ UNCHANGED <<chainstate, availability, connections, fDisconnect, dl>>

\* submitblock.
SubmitBlock(b) ==
    /\ b \in setting.submitted \ have
    /\ ProcessNewBlock(b, TRUE, TRUE)
    /\ UNCHANGED <<availability, nodes, fDisconnect, dl>>

-----------------------------------------------------------------------------
(* SendMessages.                                                           *)

\* fFetch: a preferred peer, or any when none is preferred.
Fetches(p) == p \in Preferred \/ Preferred \cap connected = {}

\* Headers are asked for from one peer, or from all when they are of today, beginning
\* with the best one known. The peer counts as asked even if RequestHeadersFrom drops
\* the request.
StartSync(p) ==
    /\ Live(p) /\ p \notin syncing
    /\ (syncing = {} /\ Fetches(p)) \/ HeaderRecent
    /\ syncing' = syncing \cup {p}
    /\ LET start == IF bestHeader = Genesis THEN Genesis ELSE Parent[bestHeader]
       IN  requests' = RequestHeadersFrom(requests, p, start, NULL, FALSE)
    /\ UNCHANGED <<chainstate, availability, connected, connects, fDisconnect, dl>>

\* The reliable peer answers before any timeout.
Late(p) == p # Reliable

\* The only peer asked for headers does not send them and there is another.
HeadersSyncTimeout(p) ==
    /\ Live(p) /\ Late(p) /\ syncing = {p}
    /\ ~HeaderRecent
    /\ (Preferred \cap connected) \ {p} # {}
    /\ IF p \in setting.whitelisted
       THEN syncing' = {} /\ UNCHANGED fDisconnect
       ELSE fDisconnect' = fDisconnect \cup {p} /\ UNCHANGED syncing
    /\ UNCHANGED <<chainstate, availability, connected, connects, requests, dl>>

\* The window could not move for too long because of this peer.
StallingTimeout(p) ==
    /\ Live(p) /\ Late(p)
    /\ p \in dl.stalling
    /\ fDisconnect' = fDisconnect \cup {p}
    /\ UNCHANGED <<chainstate, availability, nodes, dl>>

\* The first block of the peer's queue takes too long.
DownloadTimeout(p) ==
    /\ Live(p) /\ Late(p)
    /\ Len(dl.queue[p]) > 0
    /\ fDisconnect' = fDisconnect \cup {p}
    /\ UNCHANGED <<chainstate, availability, nodes, dl>>

Timeout(p) == HeadersSyncTimeout(p) \/ StallingTimeout(p) \/ DownloadTimeout(p)

\* The downloads once all of these blocks have been asked for.
RequestAll(p, blocks) ==
    LET asked[n \in 0 .. Len(blocks)] ==
          IF n = 0 THEN dl ELSE MarkBlockAsInFlight(asked[n - 1], p, blocks[n], FALSE)
    IN  asked[Len(blocks)]

\* getdata for blocks; if there is nothing to ask for, whoever keeps the window
\* from moving is marked.
RequestBlocks(p) ==
    /\ Live(p) /\ (Fetches(p) \/ TipRecent)
    /\ Len(dl.queue[p]) < MaxTransit
    /\ SetAvailability(p, Availability(p, index))
    /\ IF best'[p] # NULL /\ Work[IF best'[p] = NULL THEN Genesis ELSE best'[p]] >= Work[tip]
       THEN LET f == FindNextBlocksToDownload(p, common[p], best'[p], MaxTransit - Len(dl.queue[p]))
                asked == RequestAll(p, f.blocks)
            IN  /\ common' = [common EXCEPT ![p] = f.common]
                /\ dl' = IF asked.queue[p] = <<>> /\ f.staller # NULL
                         THEN [asked EXCEPT !.stalling = @ \cup {f.staller}] ELSE asked
       ELSE UNCHANGED <<common, dl>>
    /\ UNCHANGED <<chainstate, nodes, fDisconnect>>

\* The reliable peer and whitelisted ones send nothing that is malformed.
Sound(p) == p = Reliable \/ p \in setting.whitelisted
Sends(p, statuses) == IF Sound(p) THEN statuses ELSE statuses \cup {"invalid"}

-----------------------------------------------------------------------------
(* The peers.                                                              *)

\* What any peer but the reliable one may announce.
Announces(p) ==
    /\ p # Reliable
    /\ \/ NoHeaders(p, requests)
       \/ \E b \in setting.hashes : Inv(p, b) \/ Unconnecting(p, b)
       \/ \E b \in setting.headers, a \in Block : Headers(p, a, b, requests)
       \/ \E b \in Block : CmpctUnconnecting(p, b)

PeerStep(p) ==
    \/ InitializeNode(p) \/ FinalizeNode(p)
    \/ StartSync(p) \/ Timeout(p) \/ RequestBlocks(p)
    \/ Announces(p)
    \/ \E b \in Block :
          \/ \E intact \in {TRUE, Sound(p)} : BlockMsg(p, b, intact)
          \/ \E status \in Sends(p, {"ok"}) : BlockTxn(p, b, status)
          \/ \E status \in Sends(p, {"ok", "missing"}) : CmpctBlock(p, b, status)

\* The reliable peer takes its oldest getheaders: it looks for the last block the node
\* has in its chain, and sends what follows.
AnswerHeaders ==
    /\ requests.asked # <<>>
    /\ LET asked == Head(requests.asked)
           start == LastCommonAncestor[asked.from][remote.tip]
           end == IF asked.stop \in Anc[remote.tip] \ Anc[start] THEN asked.stop ELSE remote.tip
           last == Lower(Height[end], Height[start] + MaxHeaders)
           rest == [requests EXCEPT !.asked = Tail(@)]
       IN  \/ start = remote.tip /\ NoHeaders(Reliable, rest)
          \/ /\ start # remote.tip
             /\ \E a, b \in Anc[end] : /\ Height[a] = Height[start] + 1 /\ Height[b] = last
                                      /\ Headers(Reliable, a, b, rest)
    /\ UNCHANGED world

AnswerBlock ==
    /\ \E b \in DOMAIN dl.flight : dl.flight[b] = Reliable /\ BlockMsg(Reliable, b, TRUE)
    /\ UNCHANGED world

\* Its chain grows, which it announces to a node it is connected to, ...
Grow ==
    /\ \E b \in Anc[Best] \ Anc[remote.tip] :
          remote' = [tip |-> b, untold |-> Reliable \in connected]
    /\ UNCHANGED <<chainstate, availability, nodes, fDisconnect, dl, setting>>

\* ... by hash or by the header, whether that connects or not.
Announce ==
    /\ remote.untold
    /\ remote' = [tip |-> remote.tip, untold |-> FALSE]
    /\ \/ Inv(Reliable, remote.tip)
       \/ Headers(Reliable, remote.tip, remote.tip, requests)
       \/ Unconnecting(Reliable, remote.tip)
    /\ UNCHANGED setting

Next ==
    \/ (\E p \in Peer : PeerStep(p)) /\ UNCHANGED world
    \/ (\E b \in Block : SubmitBlock(b)) /\ UNCHANGED world
    \/ AnswerHeaders
    \/ Grow
    \/ Announce

\* The message thread comes round to every peer, what may time out does in the
\* end, and a peer to be disconnected is. The peers are served in turn, so the
\* reliable one is tried before another is tried again. It connects, comes to have the
\* best block, announces it, and answers every getheaders and getdata.
Fairness ==
    /\ \A p \in Peer : WF_vars(RequestBlocks(p) /\ UNCHANGED world)
    /\ \A p \in Peer \ {Reliable} :
          /\ WF_vars(Timeout(p) /\ UNCHANGED world)
          /\ WF_vars(FinalizeNode(p) /\ p \in fDisconnect /\ UNCHANGED world)
    /\ WF_vars(InitializeNode(Reliable) /\ UNCHANGED world)
    /\ SF_vars(StartSync(Reliable) /\ UNCHANGED world)
    /\ WF_vars(AnswerHeaders) /\ WF_vars(AnswerBlock)
    /\ WF_vars(Grow) /\ WF_vars(Announce)

Spec == Init /\ [][Next]_vars
FairSpec == Spec /\ Fairness

-----------------------------------------------------------------------------
\* mapBlocksInFlight and the peers' queues list the same downloads, no block from
\* two peers and none from one that is gone, within the limit of a peer; and the
\* number of downloading peers is right: what FinalizeNode asserts when the last
\* peer goes holds after every step.
InFlightExact ==
    /\ \A p \in Peer : /\ Range(dl.queue[p]) = {b \in DOMAIN dl.flight : dl.flight[b] = p}
                       /\ Len(dl.queue[p]) = Cardinality(Range(dl.queue[p]))
                       /\ Len(dl.queue[p]) <= MaxTransit
                       /\ dl.queue[p] # <<>> => p \in connected
    /\ dl.partial \subseteq DOMAIN dl.flight
    /\ dl.nPeers = Cardinality({p \in Peer : dl.queue[p] # <<>>})

\* A peer is held to be stalling only while a block it was asked for is missing, from
\* whomever that block comes in the end: unless submitblock brings it, which does not call
\* MarkBlockAsReceived.
StallersOwe ==
    \A p \in dl.stalling : \E b \in Range(dl.queue[p]) : b \notin have \/ b \in setting.submitted

\* "Stalling only triggers when the block download window cannot move."
WindowStuck == \A p \in dl.stalling : \E b \in Range(dl.queue[p]) : b \notin have

\* Whatever the other peers announce, keep back, spoil or take with them, and whichever
\* getheaders is dropped because another one is open, the chain of a peer that answers
\* is downloaded in the end.
ChainDownloaded == <>(tip = Best)
=============================================================================
