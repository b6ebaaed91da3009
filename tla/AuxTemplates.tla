---------------------------- MODULE AuxTemplates ----------------------------
(***************************************************************************)
(* The block templates kept for merge miners (rpc/mining.cpp): made by     *)
(* getauxblock and createauxblock, owned by vNewBlockTemplate, found again *)
(* by hash in mapNewBlock when a proof of work comes back, and all freed   *)
(* when a call sees a new tip.                                             *)
(*                                                                         *)
(* A template is a number and is never reused. mapNewBlock and             *)
(* vNewBlockTemplate change together and are one set. Calls are refused    *)
(* before they touch the templates (AuxMiningCheck, a bad address, a hash  *)
(* that is not known) without any effect; that is left out.                *)
(***************************************************************************)
EXTENDS Naturals, FiniteSets

CONSTANTS
    Thread,             \* the threads that call
    Deployments,        \* [calls, inTurn, fails]: what each thread calls, whether
                        \* callers wait for one another, and whether
                        \* CreateNewBlock may fail
    Script,             \* coinbase scripts given to createauxblock
    Tip,                \* tips of the active chain
    MaxTemplates,       \* bound on the templates made
    None

Template == 1 .. MaxTemplates

ASSUME TemplatesAssumption ==
    /\ MaxTemplates \in Nat
    /\ None \notin Thread \cup Script \cup Tip \cup Template

Creation == {"getauxblock", "createauxblock"}
\* submitauxblock and getauxblock with arguments, and SubmitAuxBlock of
\* submitAuxBlockThread.
Submission == {"submitauxblock", "SubmitAuxBlock"}

VARIABLES
    deployment,
    tip,                \* chainActive.Tip()
    owned,              \* mapNewBlock and vNewBlockTemplate
    made,               \* how many templates were made
    base,               \* hashPrevBlock of a template
    auxpow,             \* who set block.auxpow last
    prev,               \* pindexPrev, a static of each creating function
    pblock,             \* the static of getauxblock
    curBlocks,          \* the static of createauxblock
    cs_auxblockCache,   \* the thread that holds it
    pc, call, blk, script, \* of a thread: where it is, what it calls, the template
                        \* it holds a pointer to, and its coinbase script
    handed              \* history: templates for this tip given to miners

templates == <<owned, made, base, prev, pblock, curBlocks>>
vars == <<deployment, tip, templates, auxpow, cs_auxblockCache, pc, call, blk, script, handed>>

TypeOK ==
    /\ deployment \in Deployments /\ tip \in Tip
    /\ owned \subseteq Template /\ made \in 0 .. MaxTemplates
    /\ base \in [Template -> Tip \cup {None}] /\ auxpow \in [Template -> Thread \cup {None}]
    /\ prev \in [Creation -> Tip \cup {None}]
    /\ pblock \in Template \cup {None} /\ curBlocks \in [Script -> Template \cup {None}]
    /\ cs_auxblockCache \in Thread \cup {None}
    /\ pc \in [Thread -> {"idle", "update", "answer", "set", "copy"}]
    /\ call \in [Thread -> Creation \cup Submission \cup {None}]
    /\ blk \in [Thread -> Template \cup {None}] /\ script \in [Thread -> Script \cup {None}]
    /\ handed \subseteq Template

Init ==
    /\ deployment \in Deployments /\ tip \in Tip
    /\ owned = {} /\ made = 0
    /\ base = [b \in Template |-> None] /\ auxpow = [b \in Template |-> None]
    /\ prev = [f \in Creation |-> None] /\ pblock = None
    /\ curBlocks = [s \in Script |-> None]
    /\ cs_auxblockCache = None
    /\ pc = [t \in Thread |-> "idle"] /\ call = [t \in Thread |-> None]
    /\ blk = [t \in Thread |-> None] /\ script = [t \in Thread |-> None]
    /\ handed = {}

-----------------------------------------------------------------------------
\* The thread begins a call at point p.
Begin(t, c, p) ==
    /\ pc[t] = "idle" /\ c \in deployment.calls[t]
    /\ deployment.inTurn => \A u \in Thread : pc[u] = "idle"
    /\ pc' = [pc EXCEPT ![t] = p] /\ call' = [call EXCEPT ![t] = c]

\* The call returns; LOCK(cs_auxblockCache), where it was taken, is released.
Return(t) ==
    /\ pc' = [pc EXCEPT ![t] = "idle"] /\ call' = [call EXCEPT ![t] = None]
    /\ script' = [script EXCEPT ![t] = None]
    /\ cs_auxblockCache' = IF cs_auxblockCache = t THEN None ELSE cs_auxblockCache

\* Mutant: LOCK(cs_auxblockCache) commented out.
GetAuxBlockUnlocked(t) ==
    /\ Begin(t, "getauxblock", "update")
    /\ UNCHANGED <<deployment, tip, templates, auxpow, cs_auxblockCache, blk, script, handed>>

GetAuxBlock(t) ==
    /\ Begin(t, "getauxblock", "update")
    /\ cs_auxblockCache = None /\ cs_auxblockCache' = t
    /\ UNCHANGED <<deployment, tip, templates, auxpow, blk, script, handed>>

\* createauxblock looks for a template for its script, without the lock.
CreateAuxBlock(t, s) ==
    /\ Begin(t, "createauxblock", "update")
    /\ blk' = [blk EXCEPT ![t] = curBlocks[s]]
    /\ script' = [script EXCEPT ![t] = s]
    /\ UNCHANGED <<deployment, tip, templates, auxpow, cs_auxblockCache, handed>>

\* The pointer a creating call goes on with, unless it makes a template.
Cached(t) == IF call[t] = "getauxblock" THEN pblock ELSE blk[t]

\* A template must be made: there is none (asked only by createauxblock), the tip is
\* not the one of the last call, or the mempool has changed and a minute has passed.
MustCreate(t, stale) ==
    \/ call[t] = "createauxblock" /\ blk[t] = None
    \/ prev[call[t]] # tip
    \/ stale

\* Mutant: the old templates go whenever a new one is made.
KeptNever(t) == {}

\* The templates that are not freed: none if the tip is another one.
Kept(t) == IF prev[call[t]] = tip THEN owned ELSE {}

Reuse(t) ==
    /\ pc[t] = "update" /\ ~MustCreate(t, FALSE)
    /\ blk' = [blk EXCEPT ![t] = Cached(t)]
    /\ pc' = [pc EXCEPT ![t] = "answer"]
    /\ UNCHANGED <<deployment, tip, templates, auxpow, cs_auxblockCache, call, script, handed>>

\* What the function keeps to itself: the new template b, if there is one, and what
\* it had unless the tip is another one.
SaveOwn(t, b) ==
    LET left(old) == IF prev[call[t]] = tip THEN old ELSE None IN
    /\ pblock' = IF call[t] # "getauxblock" THEN pblock
                 ELSE IF b = None THEN left(pblock) ELSE b
    /\ curBlocks' = IF call[t] # "createauxblock" THEN curBlocks
                    ELSE [s \in Script |-> IF s = script[t] /\ b # None THEN b ELSE left(curBlocks[s])]

\* A template is made, under cs_main.
Create(t, stale) ==
    /\ pc[t] = "update" /\ MustCreate(t, stale)
    /\ made < MaxTemplates
    /\ LET b == made + 1 IN
       /\ made' = b
       /\ base' = [base EXCEPT ![b] = tip]
       /\ owned' = Kept(t) \cup {b}
       /\ SaveOwn(t, b)
       /\ blk' = [blk EXCEPT ![t] = b]
    /\ prev' = [prev EXCEPT ![call[t]] = tip]
    /\ pc' = [pc EXCEPT ![t] = "answer"]
    /\ UNCHANGED <<deployment, tip, auxpow, cs_auxblockCache, call, script, handed>>

\* CreateNewBlock throws, after the old templates have been freed.
CreateFails(t, stale) ==
    /\ deployment.fails
    /\ pc[t] = "update" /\ MustCreate(t, stale)
    /\ owned' = Kept(t)
    /\ SaveOwn(t, None)
    /\ Return(t)
    /\ blk' = [blk EXCEPT ![t] = None]
    /\ UNCHANGED <<deployment, tip, made, base, prev, auxpow, handed>>

\* The result is put together from the template the call points to.
Answer(t) ==
    /\ pc[t] = "answer"
    /\ handed' = IF blk[t] # None /\ base[blk[t]] = tip THEN handed \cup {blk[t]} ELSE handed
    /\ Return(t)
    /\ blk' = [blk EXCEPT ![t] = None]
    /\ UNCHANGED <<deployment, tip, templates, auxpow>>

-----------------------------------------------------------------------------
\* A submission finds its template by hash. SubmitAuxBlock takes no lock, and turns
\* down a template that has a proof of work already.
Find(t, c, b) ==
    /\ Begin(t, c, "set")
    /\ b \in owned
    /\ blk' = [blk EXCEPT ![t] = b]
    /\ \/ /\ c = "submitauxblock"
          /\ cs_auxblockCache = None /\ cs_auxblockCache' = t
       \/ /\ c = "SubmitAuxBlock" /\ auxpow[b] = None
          /\ UNCHANGED cs_auxblockCache
    /\ UNCHANGED <<deployment, tip, templates, auxpow, script, handed>>

\* The proof of work is stored in the template.
SetAuxpow(t) ==
    /\ pc[t] = "set"
    /\ auxpow' = [auxpow EXCEPT ![blk[t]] = t]
    /\ pc' = [pc EXCEPT ![t] = "copy"]
    /\ UNCHANGED <<deployment, tip, templates, cs_auxblockCache, call, blk, script, handed>>

\* The template is copied, and the copy processed: the tip may change.
ProcessNewBlock(t) ==
    /\ pc[t] = "copy"
    /\ tip' \in Tip
    /\ handed' = IF tip' = tip THEN handed ELSE {}
    /\ Return(t)
    /\ blk' = [blk EXCEPT ![t] = None]
    /\ UNCHANGED <<deployment, templates, auxpow>>

\* The chain changes for another reason.
NewTip ==
    /\ tip' \in Tip \ {tip}
    /\ handed' = {}
    /\ UNCHANGED <<deployment, templates, auxpow, cs_auxblockCache, pc, call, blk, script>>

Next ==
    \/ \E t \in Thread :
          \/ GetAuxBlock(t) \/ Reuse(t) \/ Answer(t)
          \/ \E s \in Script : CreateAuxBlock(t, s)
          \/ \E stale \in BOOLEAN : Create(t, stale) \/ CreateFails(t, stale)
          \/ \E c \in Submission, b \in Template : Find(t, c, b)
          \/ SetAuxpow(t) \/ ProcessNewBlock(t)
    \/ NewTip

Spec == Init /\ [][Next]_vars

-----------------------------------------------------------------------------
\* Every call takes cs_auxblockCache, and templates can always be made.
UnderLock ==
    /\ \A t \in Thread : deployment.calls[t] \subseteq {"getauxblock", "submitauxblock"}
    /\ ~deployment.fails

\* "The variables below are used to keep track of created and not yet submitted
\* auxpow blocks. Lock them to be sure even for multiple RPC threads running in
\* parallel": the template a call is about to read or write has not been freed, and
\* a submission processes its template with the proof of work it was given.
TemplatesKept ==
    \A t \in Thread :
       /\ pc[t] \in {"answer", "set", "copy"} => blk[t] \in owned
       /\ pc[t] = "copy" => auxpow[blk[t]] = t

\* A template given to a miner is known by its hash for as long as the tip it
\* builds on stays the tip, however many more templates are made for it.
HandedOutKnown == handed \subseteq owned
=============================================================================
