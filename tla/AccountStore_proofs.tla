------------------------- MODULE AccountStore_proofs -------------------------
(***************************************************************************)
(* Proofs about the writers of the accounts, for any number of accounts    *)
(* and sessions and any set of operations.                                 *)
(***************************************************************************)
EXTENDS AccountStore, TLAPS

Changes == {"enable", "disable", "reopen", "other"}

\* Where an operation has an account in hand, of a copy that is a record.
InHandPcs == {"ask", "granted", "refused", "stored", "pooled", "clear", "cleared", "info"}

Pcs == InHandPcs \cup {"new", "write", "reload", "done", "delete", "replace", "next"}

Work == [pc: Pcs, kind: Kinds \cup {None}, snap: [Accounts -> Slot],
         todo: SUBSET Accounts, at: Accounts \cup {None}, token: Nat,
         change: Changes \cup {None}, live: BOOLEAN, again: BOOLEAN]

\* What an operation at work knows, beyond the types: which kind it is where
\* it removes accounts, and that what it will write back is a record.
Sound(w, p) ==
    /\ w.pc = "write" => w.change \in Changes /\ \A a \in w.todo : w.snap[a] \in Entry
    /\ w.pc = "delete" => w.kind = "delete"
    /\ w.pc = "replace" => w.kind = "remove"
    /\ w.pc = "next" => /\ w.kind \in Refreshes
                        /\ w.kind # "batch" => \A a \in w.todo : w.snap[a] \in Entry
    /\ w.pc \in InHandPcs => /\ w.kind \in Refreshes \cup {"serve"}
                             /\ w.at \in Accounts
                             /\ ~w.live => w.snap[w.at] \in Entry
                             /\ w.kind \in Refreshes \ {"batch"} =>
                                   \A a \in w.todo : w.snap[a] \in Entry
    /\ w.pc \in {"stored", "info"} => w.kind \in Refreshes
    /\ w.live => /\ w.pc # "new" /\ w.kind = "serve"
                 /\ w.at \in Accounts /\ p[w.at] \in Entry

IInv == /\ store \in [Accounts -> Slot] /\ pool \in [Accounts -> Slot]
        /\ issued \in [Accounts -> Nat] /\ lapsed \in [Accounts -> Nat]
        /\ born \in SUBSET Accounts
        /\ work \in [Sessions -> Work]
        /\ \A s \in Sessions : Sound(work[s], pool)

-----------------------------------------------------------------------------
(* What the helpers write.                                                 *)

LEMMA PlanFailed == \A k \in Refreshes : Plans[k].failed \in {"next", "info"}
BY DEF Refreshes, Plans

LEMMA RefreshKinds ==
    Refreshes = {"background", "bulk", "batch", "credits", "check", "single"}
BY DEF Refreshes, Plans

LEMMA EntryUpdates ==
    ASSUME NEW e \in Entry
    PROVE  /\ [e EXCEPT !.enabled = TRUE, !.ban = "none"] \in Entry
           /\ [e EXCEPT !.ban = "none"] \in Entry
           /\ [e EXCEPT !.enabled = FALSE, !.ban = "other"] \in Entry
           /\ [e EXCEPT !.enabled = FALSE, !.ban = "auth"] \in Entry
           /\ \A t \in Nat : [e EXCEPT !.token = t] \in Entry
           /\ \A c \in Changes : Changed(e, c) \in Entry
BY DEF Entry, Changes, Changed

\* Written and TokenWritten neither add an account nor remove one.
LEMMA WrittenKeeps ==
    ASSUME store \in [Accounts -> Slot], NEW a \in Accounts, NEW e \in Entry
    PROVE  /\ Written(a, e) \in [Accounts -> Slot]
           /\ \A b \in Accounts : Written(a, e)[b] = Absent <=> store[b] = Absent
BY StoreAssumption DEF Written, Slot

LEMMA TokenWrittenKeeps ==
    ASSUME NEW f \in [Accounts -> Slot], NEW a \in Accounts, NEW t \in Nat
    PROVE  /\ TokenWritten(f, a, t) \in [Accounts -> Slot]
           /\ \A b \in Accounts : TokenWritten(f, a, t)[b] = Absent <=> f[b] = Absent
<1>1. CASE f[a] = Absent
  BY <1>1 DEF TokenWritten
<1>2. CASE f[a] # Absent
  <2>1. f[a] \in Entry
    BY <1>2 DEF Slot
  <2>2. [f[a] EXCEPT !.token = t] \in Entry
    BY <2>1, EntryUpdates
  <2>3. TokenWritten(f, a, t) = [f EXCEPT ![a] = [f[a] EXCEPT !.token = t]]
    BY <1>2 DEF TokenWritten
  <2> QED
    BY <1>2, <2>2, <2>3, StoreAssumption DEF Slot
<1> QED
  BY <1>1, <1>2

LEMMA CopiedType ==
    ASSUME store \in [Accounts -> Slot]
    PROVE  Copied(store) \in [Accounts -> Slot]
BY DEF Copied, Present, Slot

LEMMA NoWorkSound == NoWork \in Work /\ \A p : Sound(NoWork, p)
BY DEF NoWork, Work, Sound, Blank, Slot, Pcs, InHandPcs

-----------------------------------------------------------------------------
(* Steps that change the work of one session.                              *)

\* The sessions that stay as they are stay sound: the pool loses no account
\* as long as somebody points into it.
LEMMA OneSession ==
    ASSUME IInv, NEW s \in Sessions, NEW w, w \in Work, Sound(w, pool'),
           work' = [work EXCEPT ![s] = w],
           \A a \in Accounts : pool[a] \in Entry => pool'[a] \in Entry
    PROVE  /\ work' \in [Sessions -> Work]
           /\ \A r \in Sessions : Sound(work'[r], pool')
<1>1. work' \in [Sessions -> Work]
  BY DEF IInv
<1>2. ASSUME NEW r \in Sessions, r # s
      PROVE  Sound(work'[r], pool')
  <2>1. work'[r] = work[r] /\ Sound(work[r], pool)
    BY <1>2 DEF IInv
  <2> QED
    BY <2>1 DEF Sound
<1>3. work'[s] = w
  BY DEF IInv
<1> QED
  BY <1>1, <1>2, <1>3

\* A step that only moves on to pc, where nothing more needs to be known.
LEMMA MovesOn ==
    ASSUME IInv, NEW s \in Sessions, NEW pc \in {"reload", "done"},
           work' = [work EXCEPT ![s].pc = pc],
           \A a \in Accounts : pool[a] \in Entry => pool'[a] \in Entry
    PROVE  /\ work' \in [Sessions -> Work]
           /\ \A r \in Sessions : Sound(work'[r], pool')
<1> DEFINE w == [work[s] EXCEPT !.pc = pc]
<1>1. work[s] \in Work /\ Sound(work[s], pool)
  BY DEF IInv
<1>2. w \in Work
  BY <1>1 DEF Work, Pcs
<1>3. Sound(w, pool')
  BY <1>1 DEF Work, Sound, InHandPcs
<1>4. work' = [work EXCEPT ![s] = w]
  OBVIOUS
<1> HIDE DEF w
<1> QED
  BY <1>2, <1>3, <1>4, OneSession

-----------------------------------------------------------------------------
(* Every operation keeps IInv, and all but Replace keep the members.       *)

\* What Membership says of one step.
Kept == \A a \in Accounts :
           /\ a \in born /\ store[a] = Absent => store'[a] = Absent
           /\ store[a] # Absent /\ store'[a] = Absent => Removing(a)

\* A step that leaves the store's members alone and changes one session.
LEMMA StepKeeps ==
    ASSUME IInv, NEW s \in Sessions, NEW w, w \in Work, Sound(w, pool'),
           work' = [work EXCEPT ![s] = w],
           \A a \in Accounts : pool[a] \in Entry => pool'[a] \in Entry,
           store' \in [Accounts -> Slot],
           \A a \in Accounts : store'[a] = Absent <=> store[a] = Absent,
           pool' \in [Accounts -> Slot],
           issued' \in [Accounts -> Nat],
           UNCHANGED <<lapsed, born>>
    PROVE  IInv' /\ Kept
<1>1. /\ work' \in [Sessions -> Work]
      /\ \A r \in Sessions : Sound(work'[r], pool')
  BY OneSession
<1> QED
  BY <1>1 DEF IInv, Kept

\* Most steps change neither the store nor the pool.
LEMMA WorkKeeps ==
    ASSUME IInv, NEW s \in Sessions, NEW w, w \in Work, Sound(w, pool),
           work' = [work EXCEPT ![s] = w],
           UNCHANGED <<store, pool, issued, lapsed, born>>
    PROVE  IInv' /\ Kept
<1>1. Sound(w, pool')
  OBVIOUS
<1> QED
  BY <1>1, StepKeeps DEF IInv

LEMMA ReloadKeeps ==
    ASSUME IInv, NEW s \in Sessions, NEW next \in {"done", "info"}, ReloadThen(s, next),
           next = "info" => /\ work[s].pc \in InHandPcs /\ work[s].kind \in Refreshes
    PROVE  IInv' /\ Kept
<1>1. pool' \in [Accounts -> Slot]
  BY CopiedType DEF ReloadThen, IInv
<1>2. ASSUME NEW r \in Sessions
      PROVE  /\ Detached(work[r]) \in Work /\ Sound(Detached(work[r]), pool')
             /\ Detached(work[r]).kind = work[r].kind
             /\ Detached(work[r]).pc = work[r].pc
             /\ ~Detached(work[r]).live
  <2>1. work[r] \in Work /\ Sound(work[r], pool)
    BY DEF IInv
  <2>2. CASE ~work[r].live
    BY <2>1, <2>2 DEF Detached, Sound
  <2>3. CASE work[r].live
    <3>1. work[r].at \in Accounts /\ pool[work[r].at] \in Entry /\ work[r].kind = "serve"
      BY <2>1, <2>3 DEF Sound
    <3> DEFINE snap == [work[r].snap EXCEPT ![work[r].at] = pool[work[r].at]]
    <3>2. snap \in [Accounts -> Slot] /\ snap[work[r].at] \in Entry
      BY <2>1, <3>1 DEF Work, Slot
    <3>3. Detached(work[r]) = [work[r] EXCEPT !.snap = snap, !.live = FALSE]
      BY <2>1, <2>3 DEF Detached, Work
    <3> HIDE DEF snap
    <3>4. Detached(work[r]) \in Work
      BY <2>1, <3>2, <3>3 DEF Work
    <3>5. Sound(Detached(work[r]), pool')
      <4> DEFINE d == Detached(work[r])
      <4>1. /\ d.pc = work[r].pc /\ d.kind = work[r].kind /\ d.at = work[r].at
            /\ d.todo = work[r].todo /\ d.change = work[r].change /\ ~d.live
            /\ \A a \in Accounts : work[r].snap[a] \in Entry => d.snap[a] \in Entry
            /\ d.snap[d.at] \in Entry /\ work[r].todo \subseteq Accounts
        BY <2>1, <3>1, <3>2, <3>3 DEF Work, snap
      <4> HIDE DEF d
      <4>2. Sound(d, pool')
        BY <2>1, <3>1, <4>1, RefreshKinds DEF Sound
      <4> QED
        BY <4>2 DEF d
    <3>6. /\ Detached(work[r]).kind = work[r].kind
          /\ Detached(work[r]).pc = work[r].pc
          /\ ~Detached(work[r]).live
      BY <2>1, <3>3 DEF Work
    <3> QED
      BY <3>4, <3>5, <3>6
  <2> QED
    BY <2>2, <2>3
<1>3. ASSUME NEW r \in Sessions
      PROVE  work'[r] \in Work /\ Sound(work'[r], pool')
  <2> DEFINE d == Detached(work[r])
  <2>1. d \in Work /\ Sound(d, pool') /\ d.kind = work[r].kind /\ d.pc = work[r].pc /\ ~d.live
    BY <1>2
  <2> HIDE DEF d
  <2>2. work'[r] = [d EXCEPT !.pc = IF r = s THEN next ELSE d.pc]
    BY DEF ReloadThen, d
  <2>3. CASE r # s
    BY <2>1, <2>2, <2>3 DEF Work
  <2>4. CASE r = s
    <3>1. work'[r] = [d EXCEPT !.pc = next]
      BY <2>2, <2>4
    <3>2. work'[r] \in Work
      BY <2>1, <3>1 DEF Work, Pcs, InHandPcs
    <3>3. Sound(work'[r], pool')
      BY <2>1, <2>4, <3>1 DEF Work, Sound, InHandPcs
    <3> QED
      BY <3>2, <3>3
  <2> QED
    BY <2>3, <2>4
<1>4. work' \in [Sessions -> Work]
  BY <1>3 DEF ReloadThen
<1> QED
  BY <1>1, <1>3, <1>4 DEF IInv, Kept, ReloadThen, provider

\* A step that writes the record a session has in hand.
LEMMA MineIsEntry ==
    ASSUME IInv, NEW s \in Sessions, work[s].pc \in InHandPcs
    PROVE  work[s].at \in Accounts /\ Mine(s) \in Entry
BY DEF IInv, Sound, Mine, InHandPcs

LEMMA BeginKeeps ==
    ASSUME IInv, NEW s \in Sessions,
           BeginEdit(s) \/ BeginDelete(s) \/ BeginRemove(s) \/ BeginRefresh(s) \/ BeginServe(s)
    PROVE  IInv' /\ Kept
<1> USE StoreAssumption, NoWorkSound
<1>0. store \in [Accounts -> Slot] /\ \A a \in Present(store) : store[a] \in Entry
  BY DEF IInv, Present, Slot
<1>1. CASE BeginEdit(s)
  <2>1. PICK T \in SUBSET Present(store) \ {{}}, change \in Changes :
           work' = [work EXCEPT ![s] = [NoWork EXCEPT !.pc = "write", !.kind = "edit",
                       !.snap = store, !.todo = T, !.change = change]]
    BY <1>1 DEF BeginEdit, Changes
  <2> DEFINE w == [NoWork EXCEPT !.pc = "write", !.kind = "edit",
                       !.snap = store, !.todo = T, !.change = change]
  <2>2. w \in Work
    BY <1>0, <1>1 DEF BeginEdit, NoWork, Work, Pcs, Present
  <2>3. Sound(w, pool)
    BY <1>0 DEF NoWork, Sound, InHandPcs
  <2> HIDE DEF w
  <2> QED
    BY <1>1, <2>1, <2>2, <2>3, WorkKeeps DEF BeginEdit, provider, w
<1>2. CASE BeginDelete(s)
  <2>1. PICK T \in SUBSET Present(store) \ {{}} :
           work' = [work EXCEPT ![s] = [NoWork EXCEPT !.pc = "delete", !.kind = "delete",
                                                     !.todo = T]]
    BY <1>2 DEF BeginDelete
  <2> DEFINE w == [NoWork EXCEPT !.pc = "delete", !.kind = "delete", !.todo = T]
  <2>2. w \in Work
    BY <1>2 DEF BeginDelete, NoWork, Work, Pcs, Present, Blank, Slot
  <2>3. Sound(w, pool)
    BY DEF NoWork, Sound, InHandPcs
  <2> HIDE DEF w
  <2> QED
    BY <1>2, <2>1, <2>2, <2>3, WorkKeeps DEF BeginDelete, provider, w
<1>3. CASE BeginRemove(s)
  <2>1. PICK T \in SUBSET Present(store) \ {{}} :
           work' = [work EXCEPT ![s] = [NoWork EXCEPT !.pc = "replace", !.kind = "remove",
                                                     !.snap = store, !.todo = T]]
    BY <1>3 DEF BeginRemove
  <2> DEFINE w == [NoWork EXCEPT !.pc = "replace", !.kind = "remove",
                                 !.snap = store, !.todo = T]
  <2>2. w \in Work
    BY <1>0, <1>3 DEF BeginRemove, NoWork, Work, Pcs, Present
  <2>3. Sound(w, pool)
    BY DEF NoWork, Sound, InHandPcs
  <2> HIDE DEF w
  <2> QED
    BY <1>3, <2>1, <2>2, <2>3, WorkKeeps DEF BeginRemove, provider, w
<1>4. CASE BeginRefresh(s)
  <2>1. PICK k \in Kinds \cap Refreshes, T \in SUBSET Present(store) :
           work' = [work EXCEPT ![s] = [NoWork EXCEPT !.pc = "next", !.kind = k,
                                                      !.snap = store, !.todo = T]]
    BY <1>4 DEF BeginRefresh
  <2> DEFINE w == [NoWork EXCEPT !.pc = "next", !.kind = k, !.snap = store, !.todo = T]
  <2>2. w \in Work
    BY <1>0 DEF NoWork, Work, Pcs, Present
  <2>3. Sound(w, pool)
    BY <1>0 DEF NoWork, Sound, InHandPcs
  <2> HIDE DEF w
  <2> QED
    BY <1>4, <2>1, <2>2, <2>3, WorkKeeps DEF BeginRefresh, provider, w
<1>5. CASE BeginServe(s)
  <2>1. PICK a \in Present(pool), pc \in {"ask", "clear"} :
           work' = [work EXCEPT ![s] = [NoWork EXCEPT !.kind = "serve", !.at = a,
                                                      !.live = TRUE, !.pc = pc]]
    BY <1>5 DEF BeginServe
  <2> DEFINE w == [NoWork EXCEPT !.kind = "serve", !.at = a, !.live = TRUE, !.pc = pc]
  <2>2. w \in Work
    BY <1>5 DEF BeginServe, NoWork, Work, Pcs, InHandPcs, Present, Blank, Slot
  <2>3. pool[a] \in Entry /\ a \in Accounts
    BY DEF IInv, Present, Slot
  <2>4. Sound(w, pool)
    BY <2>3, RefreshKinds DEF NoWork, Sound, InHandPcs
  <2> HIDE DEF w
  <2> QED
    BY <1>5, <2>1, <2>2, <2>4, WorkKeeps DEF BeginServe, provider, w
<1> QED
  BY <1>1, <1>2, <1>3, <1>4, <1>5

LEMMA WriteEditKeeps ==
    ASSUME IInv, NEW s \in Sessions, WriteEdit(s)
    PROVE  IInv' /\ Kept
<1>1. PICK a \in work[s].todo :
         /\ store' = Written(a, Changed(work[s].snap[a], work[s].change))
         /\ work' = [work EXCEPT ![s].todo = @ \ {a},
                                 ![s].pc = IF work[s].todo = {a} THEN "reload" ELSE @]
  BY DEF WriteEdit
<1>2. /\ work[s] \in Work /\ Sound(work[s], pool) /\ work[s].pc = "write"
      /\ work \in [Sessions -> Work] /\ store \in [Accounts -> Slot]
  BY DEF WriteEdit, IInv
<1>3. a \in Accounts /\ work[s].change \in Changes /\ work[s].snap[a] \in Entry
  BY <1>2 DEF Work, Sound
<1>4. /\ store' \in [Accounts -> Slot]
      /\ \A b \in Accounts : store'[b] = Absent <=> store[b] = Absent
  BY <1>1, <1>2, <1>3, EntryUpdates, WrittenKeeps
<1> DEFINE pc == IF work[s].todo = {a} THEN "reload" ELSE "write"
           w == [work[s] EXCEPT !.todo = work[s].todo \ {a}, !.pc = pc]
<1>5. w \in Work /\ Sound(w, pool')
  BY <1>2 DEF Work, Sound, Pcs, InHandPcs, WriteEdit
<1>6. work' = [work EXCEPT ![s] = w]
  BY <1>1, <1>2 DEF Work
<1> HIDE DEF w
<1> QED
  BY <1>4, <1>5, <1>6, StepKeeps DEF WriteEdit, IInv, provider

LEMMA DeleteKeeps ==
    ASSUME IInv, NEW s \in Sessions, DeleteAccount(s)
    PROVE  IInv' /\ Kept
<1>1. PICK a \in work[s].todo :
         /\ store' = [store EXCEPT ![a] = Absent]
         /\ work' = [work EXCEPT ![s].todo = @ \ {a},
                                 ![s].pc = IF work[s].todo = {a} THEN "reload" ELSE @]
  BY DEF DeleteAccount
<1>2. /\ work[s] \in Work /\ Sound(work[s], pool) /\ work[s].pc = "delete"
      /\ work \in [Sessions -> Work] /\ store \in [Accounts -> Slot]
  BY DEF DeleteAccount, IInv
<1>3. a \in Accounts /\ work[s].kind = "delete"
  BY <1>2 DEF Work, Sound
<1> DEFINE pc == IF work[s].todo = {a} THEN "reload" ELSE "delete"
           w == [work[s] EXCEPT !.todo = work[s].todo \ {a}, !.pc = pc]
<1>4. w \in Work /\ Sound(w, pool')
  BY <1>2 DEF Work, Sound, Pcs, InHandPcs, DeleteAccount
<1>5. work' = [work EXCEPT ![s] = w]
  BY <1>1, <1>2 DEF Work
<1> HIDE DEF w
<1>6. /\ work' \in [Sessions -> Work]
      /\ \A r \in Sessions : Sound(work'[r], pool')
  BY <1>4, <1>5, OneSession DEF DeleteAccount
<1>7. store' \in [Accounts -> Slot] /\ \A b \in Accounts : b # a => store'[b] = store[b]
  BY <1>1, <1>2 DEF Slot
<1>8. Kept
  BY <1>1, <1>2, <1>3, <1>7 DEF Kept, Removing
<1> QED
  BY <1>6, <1>7, <1>8 DEF IInv, DeleteAccount, provider

\* Only a session of the kind "remove" gets here.
LEMMA ReplaceKeeps ==
    ASSUME IInv, NEW s \in Sessions, Replace(s)
    PROVE  IInv' /\ work[s].kind = "remove"
<1>1. /\ work[s] \in Work /\ Sound(work[s], pool) /\ work[s].pc = "replace"
  BY DEF Replace, IInv
<1>2. store' \in [Accounts -> Slot]
  BY <1>1 DEF Replace, Work, Slot
<1>3. /\ work' \in [Sessions -> Work]
      /\ \A r \in Sessions : Sound(work'[r], pool')
  BY MovesOn DEF Replace
<1> QED
  BY <1>1, <1>2, <1>3 DEF IInv, Replace, provider, Sound

LEMMA AddKeeps ==
    ASSUME IInv, NEW s \in Sessions, AddAccount(s)
    PROVE  IInv' /\ Kept
<1>1. PICK a \in Accounts \ born :
         /\ store' = [store EXCEPT ![a] = [enabled |-> TRUE, ban |-> "none", token |-> issued[a]]]
         /\ born' = born \cup {a}
  BY DEF AddAccount
<1>2. /\ work[s] \in Work /\ Sound(work[s], pool) /\ work[s].pc = "new"
      /\ store \in [Accounts -> Slot] /\ issued[a] \in Nat
  BY DEF AddAccount, IInv
<1>3. [enabled |-> TRUE, ban |-> "none", token |-> issued[a]] \in Entry
  BY <1>2 DEF Entry
<1>4. /\ store' \in [Accounts -> Slot] /\ store'[a] # Absent
      /\ \A b \in Accounts : b # a => store'[b] = store[b]
  BY <1>1, <1>2, <1>3, StoreAssumption DEF Slot
<1> DEFINE w == [work[s] EXCEPT !.pc = "reload", !.kind = "add"]
<1>5. w \in Work
  BY <1>2 DEF AddAccount, Work, Pcs
<1>6. ~work[s].live => Sound(w, pool')
  BY <1>2 DEF Work, Sound, InHandPcs
<1>7. work' = [work EXCEPT ![s] = w]
  BY <1>2 DEF AddAccount, IInv, Work
<1> HIDE DEF w
<1>8. /\ work' \in [Sessions -> Work]
      /\ \A r \in Sessions : Sound(work'[r], pool')
  BY <1>2, <1>5, <1>6, <1>7, OneSession DEF AddAccount, Sound
<1> QED
  BY <1>1, <1>4, <1>8 DEF IInv, Kept, AddAccount, provider

\* The account a session takes next comes from its copy, or, of a batch, from
\* the store as it is then.
LEMMA NextAccountKeeps ==
    ASSUME IInv, NEW s \in Sessions, NextAccount(s)
    PROVE  IInv' /\ Kept
<1>1. /\ work[s] \in Work /\ Sound(work[s], pool) /\ work[s].pc = "next"
      /\ work[s].kind \in Refreshes /\ ~work[s].live
      /\ work \in [Sessions -> Work] /\ store \in [Accounts -> Slot]
  <2>1. work[s] \in Work /\ Sound(work[s], pool) /\ work[s].pc = "next"
    BY DEF NextAccount, IInv
  <2>2. work[s].kind \in Refreshes /\ ~work[s].live
    BY <2>1, RefreshKinds DEF Sound
  <2> QED
    BY <2>1, <2>2 DEF IInv
<1>2. CASE \E pc \in {"reload", "done"} : work' = [work EXCEPT ![s].pc = pc]
  <2>1. /\ work' \in [Sessions -> Work]
        /\ \A r \in Sessions : Sound(work'[r], pool')
    BY <1>2, MovesOn DEF NextAccount
  <2> QED
    BY <2>1 DEF NextAccount, IInv, Kept, provider
<1>3. ASSUME NEW a \in work[s].todo, NEW e \in Slot, NEW pc \in {"next", "ask", "info"},
             e = IF work[s].kind = "batch" THEN store[a] ELSE work[s].snap[a],
             pc = "next" <=> e = Absent,
             work' = [work EXCEPT ![s] = [work[s] EXCEPT !.todo = work[s].todo \ {a}, !.at = a,
                                             !.snap[a] = e, !.pc = pc]]
      PROVE  IInv' /\ Kept
  <2>1. a \in Accounts /\ (pc = "next" => work[s].kind = "batch") /\ (pc # "next" => e \in Entry)
    BY <1>1, <1>3, StoreAssumption DEF Work, Slot, Sound
  <2> DEFINE snap == [work[s].snap EXCEPT ![a] = e]
             w == [work[s] EXCEPT !.todo = work[s].todo \ {a}, !.at = a,
                                  !.snap = snap, !.pc = pc]
  <2>2. /\ snap \in [Accounts -> Slot] /\ snap[a] = e
        /\ \A b \in Accounts : b # a => snap[b] = work[s].snap[b]
    BY <1>1, <2>1 DEF Work
  <2>3. work' = [work EXCEPT ![s] = w]
    BY <1>1, <1>3 DEF Work
  <2> HIDE DEF snap
  <2>4. w \in Work
    BY <1>1, <2>1, <2>2 DEF Work, Pcs, InHandPcs
  <2>5. /\ w.pc = pc /\ w.kind = work[s].kind /\ w.at = a /\ w.snap = snap
        /\ w.todo = work[s].todo \ {a} /\ ~w.live /\ work[s].todo \subseteq Accounts
    BY <1>1 DEF Work
  <2> HIDE DEF w
  <2>6. work[s].kind # "batch" => \A b \in w.todo : w.snap[b] \in Entry
    BY <1>1, <2>1, <2>2, <2>5 DEF Sound
  <2>7. Sound(w, pool)
    BY <1>1, <1>3, <2>1, <2>2, <2>5, <2>6 DEF Sound, InHandPcs
  <2> QED
    BY <2>3, <2>4, <2>7, WorkKeeps DEF NextAccount, provider
<1>4. CASE \E a \in work[s].todo :
             LET w == work[s]
                 e == IF w.kind = "batch" THEN store[a] ELSE w.snap[a]
                 asks == \/ Plans[w.kind].when = "always"
                         \/ Plans[w.kind].when = "due" /\ Due(a, e.token)
             IN  work' = [work EXCEPT ![s] = [w EXCEPT !.todo = @ \ {a}, !.at = a,
                             !.snap[a] = e,
                             !.pc = IF e = Absent THEN "next" ELSE IF asks THEN "ask" ELSE "info"]]
  <2>1. PICK a \in work[s].todo :
             LET w == work[s]
                 e == IF w.kind = "batch" THEN store[a] ELSE w.snap[a]
                 asks == \/ Plans[w.kind].when = "always"
                         \/ Plans[w.kind].when = "due" /\ Due(a, e.token)
             IN  work' = [work EXCEPT ![s] = [w EXCEPT !.todo = @ \ {a}, !.at = a,
                             !.snap[a] = e,
                             !.pc = IF e = Absent THEN "next" ELSE IF asks THEN "ask" ELSE "info"]]
    BY <1>4
  <2> DEFINE e == IF work[s].kind = "batch" THEN store[a] ELSE work[s].snap[a]
             asks == \/ Plans[work[s].kind].when = "always"
                     \/ Plans[work[s].kind].when = "due" /\ Due(a, e.token)
             pc == IF e = Absent THEN "next" ELSE IF asks THEN "ask" ELSE "info"
  <2>2. work' = [work EXCEPT ![s] = [work[s] EXCEPT !.todo = work[s].todo \ {a}, !.at = a,
                                             !.snap[a] = e, !.pc = pc]]
    BY <2>1
  <2>3. e \in Slot /\ a \in Accounts
    BY <1>1 DEF Work
  <2>4. pc \in {"next", "ask", "info"} /\ (pc = "next" <=> e = Absent)
    OBVIOUS
  <2>5. e = IF work[s].kind = "batch" THEN store[a] ELSE work[s].snap[a]
    OBVIOUS
  <2> HIDE DEF e, pc, asks
  <2> QED
    BY <1>3, <2>2, <2>3, <2>4, <2>5
<1> QED
  BY <1>2, <1>4 DEF NextAccount

Moves(s, pc, snap, t, again) ==
    work' = [work EXCEPT ![s] = [work[s] EXCEPT !.pc = pc, !.snap = snap,
                                                !.token = t, !.again = again]]

\* A session with an account in hand goes on to pc; its copy loses no record.
LEMMA InHandMoves ==
    ASSUME IInv, NEW s \in Sessions, work[s].pc \in InHandPcs,
           NEW pc \in InHandPcs \cup {"reload", "done", "next"},
           pc \in {"next", "stored", "info"} => work[s].kind \in Refreshes,
           NEW snap \in [Accounts -> Slot], NEW t \in Nat, NEW again \in BOOLEAN,
           \A a \in Accounts : work[s].snap[a] \in Entry => snap[a] \in Entry,
           Moves(s, pc, snap, t, again),
           \A a \in Accounts : pool[a] \in Entry => pool'[a] \in Entry,
           store' \in [Accounts -> Slot],
           \A a \in Accounts : store'[a] = Absent <=> store[a] = Absent,
           pool' \in [Accounts -> Slot],
           issued' \in [Accounts -> Nat],
           UNCHANGED <<lapsed, born>>
    PROVE  IInv' /\ Kept
<1> DEFINE w == [work[s] EXCEPT !.pc = pc, !.snap = snap, !.token = t, !.again = again]
<1>1. work[s] \in Work /\ Sound(work[s], pool)
  BY DEF IInv
<1>2. w \in Work
  BY <1>1 DEF Work, Pcs, InHandPcs
<1>3. /\ w.pc = pc /\ w.snap = snap /\ w.kind = work[s].kind /\ w.at = work[s].at
      /\ w.todo = work[s].todo /\ w.live = work[s].live /\ work[s].todo \subseteq Accounts
  BY <1>1 DEF Work
<1>4. work' = [work EXCEPT ![s] = w]
  BY DEF Moves
<1> HIDE DEF w
<1>5. Sound(w, pool')
  BY <1>1, <1>3 DEF Sound, InHandPcs
<1> QED
  BY <1>2, <1>4, <1>5, StepKeeps

\* The facts about a session with an account in hand that the steps below use.
LEMMA InHandFacts ==
    ASSUME IInv, NEW s \in Sessions, work[s].pc \in InHandPcs
    PROVE  /\ work \in [Sessions -> Work] /\ work[s] \in Work /\ work[s].at \in Accounts
           /\ work[s].kind \in Refreshes \cup {"serve"}
           /\ work[s].kind = "serve" <=> work[s].kind \notin Refreshes
           /\ work[s].pc \in {"stored", "info"} => work[s].kind \in Refreshes
           /\ work[s].snap \in [Accounts -> Slot] /\ work[s].token \in Nat
           /\ work[s].again \in BOOLEAN /\ work[s].live \in BOOLEAN
           /\ work[s].live => work[s].kind = "serve" /\ pool[work[s].at] \in Entry
           /\ ~work[s].live => work[s].snap[work[s].at] \in Entry
           /\ store \in [Accounts -> Slot] /\ pool \in [Accounts -> Slot]
           /\ issued \in [Accounts -> Nat]
<1>1. work \in [Sessions -> Work] /\ work[s] \in Work /\ Sound(work[s], pool)
  BY DEF IInv
<1>2. /\ work[s].snap \in [Accounts -> Slot] /\ work[s].token \in Nat
      /\ work[s].again \in BOOLEAN /\ work[s].live \in BOOLEAN
  BY <1>1 DEF Work
<1>3. /\ work[s].at \in Accounts
      /\ work[s].kind \in Refreshes \cup {"serve"}
      /\ work[s].pc \in {"stored", "info"} => work[s].kind \in Refreshes
      /\ work[s].live => work[s].kind = "serve" /\ pool[work[s].at] \in Entry
      /\ ~work[s].live => work[s].snap[work[s].at] \in Entry
  BY <1>1 DEF Sound
<1>4. "serve" \notin Refreshes
  BY RefreshKinds
<1> QED
  BY <1>1, <1>2, <1>3, <1>4 DEF IInv

LEMMA ProviderKeeps ==
    ASSUME IInv, NEW s \in Sessions, Provider(s)
    PROVE  IInv' /\ Kept
<1>0. work[s].pc \in InHandPcs
  BY DEF Provider, TokenGranted, TokenRefused, TokenUnreachable, InHandPcs
<1> USE <1>0, InHandFacts
<1>1. CASE TokenGranted(s)
  <2>1. Moves(s, "granted", work[s].snap, issued[work[s].at] + 1, work[s].again)
    BY <1>1 DEF TokenGranted, Work, Moves
  <2>2. issued' \in [Accounts -> Nat] /\ issued[work[s].at] + 1 \in Nat
    BY <1>1 DEF TokenGranted
  <2>3. UNCHANGED <<store, pool, lapsed, born>> /\ "granted" \in InHandPcs
    BY <1>1 DEF TokenGranted, InHandPcs
  <2> QED
    BY <2>1, <2>2, <2>3, InHandMoves
<1>2. CASE TokenRefused(s) \/ TokenUnreachable(s)
  <2>1. PICK pc \in {"refused", "done", "next", "info"} :
          /\ work' = [work EXCEPT ![s].pc = pc]
          /\ pc \in {"next", "info"} => work[s].kind \in Refreshes
    BY <1>2, PlanFailed DEF TokenRefused, TokenUnreachable
  <2>2. Moves(s, pc, work[s].snap, work[s].token, work[s].again)
    BY <2>1 DEF Work, Moves
  <2>3. UNCHANGED <<store, pool, issued, lapsed, born>>
    BY <1>2 DEF TokenRefused, TokenUnreachable, provider
  <2>4. pc \in InHandPcs \cup {"reload", "done", "next"}
    BY <2>1 DEF InHandPcs
  <2>5. pc \in {"next", "stored", "info"} => work[s].kind \in Refreshes
    BY <2>1
  <2> QED
    BY <2>2, <2>3, <2>4, <2>5, InHandMoves
<1> QED
  BY <1>1, <1>2 DEF Provider

\* Tokens are written by field.
LEMMA TokensKeep ==
    ASSUME IInv, NEW s \in Sessions,
           StoreToken(s) \/ PoolToken(s) \/ ServeToken(s) \/ ServeStore(s)
    PROVE  IInv' /\ Kept
<1>0. work[s].pc \in InHandPcs
  BY DEF StoreToken, PoolToken, ServeToken, ServeStore, InHandPcs
<1> USE <1>0, InHandFacts
<1> DEFINE a == work[s].at
<1>1. CASE StoreToken(s)
  <2> DEFINE snap == [work[s].snap EXCEPT ![a].token = work[s].token]
  <2>1. work[s].kind \in Refreshes /\ work[s].snap[a] \in Entry
    BY <1>1 DEF StoreToken
  <2>2. [work[s].snap[a] EXCEPT !.token = work[s].token] \in Entry
    BY <2>1, EntryUpdates
  <2>3. /\ snap \in [Accounts -> Slot]
        /\ \A b \in Accounts : work[s].snap[b] \in Entry => snap[b] \in Entry
    <3> DEFINE f == work[s].snap
               e == [f[a] EXCEPT !.token = work[s].token]
    <3>1. f \in [Accounts -> Slot] /\ a \in Accounts /\ e \in Entry
      BY <2>2
    <3>2. snap = [f EXCEPT ![a] = e]
      OBVIOUS
    <3> HIDE DEF f, e, a, snap
    <3>3. snap \in [Accounts -> Slot] /\ \A b \in Accounts : f[b] \in Entry => snap[b] \in Entry
      BY ONLY <3>1, <3>2 DEF Slot
    <3> QED
      BY <3>3 DEF f
  <2>4. Moves(s, "stored", snap, work[s].token, work[s].again)
    <3>1. work[s] \in Work /\ work \in [Sessions -> Work]
      OBVIOUS
    <3>2. work' = [work EXCEPT ![s] = [work[s] EXCEPT !.pc = "stored", !.snap = snap]]
      BY ONLY <1>1, <3>1 DEF StoreToken, Work
    <3> HIDE DEF snap
    <3> QED
      BY ONLY <3>1, <3>2 DEF Work, Moves
  <2>5. /\ store' \in [Accounts -> Slot]
        /\ \A b \in Accounts : store'[b] = Absent <=> store[b] = Absent
    BY <1>1, TokenWrittenKeeps DEF StoreToken
  <2>6. UNCHANGED <<pool, issued, lapsed, born>> /\ "stored" \in InHandPcs
    BY <1>1 DEF StoreToken, provider, InHandPcs
  <2> HIDE DEF snap
  <2> QED
    BY <2>1, <2>3, <2>4, <2>5, <2>6, InHandMoves
<1>2. CASE PoolToken(s)
  <2>1. PICK pc \in {"clear", "info"} : work' = [work EXCEPT ![s].pc = pc]
    BY <1>2 DEF PoolToken
  <2>2. Moves(s, pc, work[s].snap, work[s].token, work[s].again)
    BY <2>1 DEF Work, Moves
  <2>3. /\ pool' \in [Accounts -> Slot]
        /\ \A b \in Accounts : pool'[b] = Absent <=> pool[b] = Absent
    BY <1>2, TokenWrittenKeeps DEF PoolToken
  <2>4. \A b \in Accounts : pool[b] \in Entry => pool'[b] \in Entry
    BY <2>3, StoreAssumption DEF Slot
  <2>5. UNCHANGED <<store, issued, lapsed, born>> /\ pc \in InHandPcs
    BY <1>2 DEF PoolToken, provider, InHandPcs
  <2>6. work[s].kind \in Refreshes
    BY <1>2 DEF PoolToken
  <2> QED
    BY <2>2, <2>3, <2>4, <2>5, <2>6, InHandMoves
<1>3. CASE ServeToken(s)
  <2> DEFINE snap == IF work[s].live THEN work[s].snap
                     ELSE TokenWritten(work[s].snap, a, work[s].token)
  <2>1. /\ snap \in [Accounts -> Slot]
        /\ \A b \in Accounts : snap[b] = Absent <=> work[s].snap[b] = Absent
    <3> DEFINE f == work[s].snap
    <3>1. f \in [Accounts -> Slot] /\ a \in Accounts /\ work[s].token \in Nat
      OBVIOUS
    <3>2. /\ TokenWritten(f, a, work[s].token) \in [Accounts -> Slot]
          /\ \A b \in Accounts : TokenWritten(f, a, work[s].token)[b] = Absent <=> f[b] = Absent
      <4> HIDE DEF f, a
      <4> QED
        BY ONLY <3>1, TokenWrittenKeeps
    <3> QED
      BY <3>1, <3>2
  <2>2. \A b \in Accounts : work[s].snap[b] \in Entry => snap[b] \in Entry
    BY <2>1, StoreAssumption DEF Slot
  <2>3. Moves(s, "pooled", snap, work[s].token, work[s].again)
    <3>1. work[s] \in Work /\ work \in [Sessions -> Work]
      OBVIOUS
    <3>2. work' = [work EXCEPT ![s] = [work[s] EXCEPT !.pc = "pooled", !.snap = snap]]
      BY ONLY <1>3, <3>1 DEF ServeToken, Work
    <3> HIDE DEF snap
    <3> QED
      BY ONLY <3>1, <3>2 DEF Work, Moves
  <2>7. pool' = TokenWritten(pool, a, work[s].token) /\ a \in Accounts
    BY <1>3 DEF ServeToken
  <2>4. /\ pool' \in [Accounts -> Slot]
        /\ \A b \in Accounts : pool'[b] = Absent <=> pool[b] = Absent
    BY <2>7, TokenWrittenKeeps
  <2>5. \A b \in Accounts : pool[b] \in Entry => pool'[b] \in Entry
    BY <2>4, StoreAssumption DEF Slot
  <2>6. UNCHANGED <<store, issued, lapsed, born>> /\ "pooled" \in InHandPcs
    BY <1>3 DEF ServeToken, provider, InHandPcs
  <2> HIDE DEF snap
  <2> QED
    BY <2>1, <2>2, <2>3, <2>4, <2>5, <2>6, InHandMoves
<1>4. CASE ServeStore(s)
  <2>1. Moves(s, "clear", work[s].snap, work[s].token, work[s].again)
    BY <1>4 DEF ServeStore, Work, Moves
  <2>2. /\ store' \in [Accounts -> Slot]
        /\ \A b \in Accounts : store'[b] = Absent <=> store[b] = Absent
    BY <1>4, TokenWrittenKeeps DEF ServeStore
  <2>3. UNCHANGED <<pool, issued, lapsed, born>> /\ "clear" \in InHandPcs
    BY <1>4 DEF ServeStore, provider, InHandPcs
  <2> QED
    BY <2>1, <2>2, <2>3, InHandMoves
<1> QED
  BY <1>1, <1>2, <1>3, <1>4

\* Whole records are written back, of an account that may be gone by now.
LEMMA RecordsKeep ==
    ASSUME IInv, NEW s \in Sessions,
           InfoFetched(s) \/ InfoSuspended(s) \/ InfoFails(s) \/ ServeBan(s) \/ Clear(s)
    PROVE  IInv' /\ Kept
<1>0. work[s].pc \in InHandPcs
  BY DEF InfoFetched, InfoSuspended, InfoFails, ServeBan, Clear, InHandPcs
<1> USE <1>0, InHandFacts
<1>m. work[s].at \in Accounts /\ Mine(s) \in Entry
  BY MineIsEntry
<1>1. CASE InfoFetched(s) \/ InfoSuspended(s)
  <2>1. work[s].pc = "info" /\ work[s].kind \in Refreshes /\ work[s].snap[work[s].at] \in Entry
    BY <1>1 DEF InfoFetched, InfoSuspended
  <2>2. PICK e \in Entry : store' = store \/ store' = Written(work[s].at, e)
    BY <1>1, <2>1, EntryUpdates DEF InfoFetched, InfoSuspended
  <2>3. /\ store' \in [Accounts -> Slot]
        /\ \A b \in Accounts : store'[b] = Absent <=> store[b] = Absent
    BY <2>2, WrittenKeeps
  <2>4. PICK pc \in {"next"} : Moves(s, pc, work[s].snap, work[s].token, work[s].again)
    BY <1>1 DEF InfoFetched, InfoSuspended, Work, Moves
  <2>5. UNCHANGED <<pool, issued, lapsed, born>>
    BY <1>1 DEF InfoFetched, InfoSuspended, provider
  <2>6. pc \in InHandPcs \cup {"reload", "done", "next"}
    OBVIOUS
  <2>7. pool' \in [Accounts -> Slot] /\ issued' \in [Accounts -> Nat]
    BY <2>5
  <2> QED
    BY <2>1, <2>3, <2>4, <2>5, <2>6, <2>7, InHandMoves
<1>2. CASE InfoFails(s)
  <2>1. work[s].pc = "info" /\ work[s].kind \in Refreshes
    BY <1>2 DEF InfoFails
  <2>2. PICK pc \in {"next", "ask"}, again \in BOOLEAN :
           Moves(s, pc, work[s].snap, work[s].token, again)
    <3>1. CASE work' = [work EXCEPT ![s].pc = "next"]
      <4> Moves(s, "next", work[s].snap, work[s].token, work[s].again)
        BY <3>1 DEF Work, Moves
      <4> QED
        OBVIOUS
    <3>2. CASE work' = [work EXCEPT ![s].pc = "ask", ![s].again = TRUE]
      <4> Moves(s, "ask", work[s].snap, work[s].token, TRUE)
        BY <3>2 DEF Work, Moves
      <4> QED
        OBVIOUS
    <3> QED
      BY <1>2, <3>1, <3>2 DEF InfoFails
  <2>3. UNCHANGED <<store, pool, issued, lapsed, born>>
    BY <1>2 DEF InfoFails, provider
  <2>4. pc \in InHandPcs \cup {"reload", "done", "next"}
    BY DEF InHandPcs
  <2> QED
    BY <2>1, <2>2, <2>3, <2>4, InHandMoves
<1>3. CASE ServeBan(s)
  <2>1. PICK e \in Entry : store' = Written(work[s].at, e)
    BY <1>3, <1>m, EntryUpdates DEF ServeBan
  <2>2. /\ store' \in [Accounts -> Slot]
        /\ \A b \in Accounts : store'[b] = Absent <=> store[b] = Absent
    BY <2>1, WrittenKeeps
  <2>3. PICK pc \in {"reload"} : Moves(s, pc, work[s].snap, work[s].token, work[s].again)
    BY <1>3 DEF ServeBan, Work, Moves
  <2>4. UNCHANGED <<pool, issued, lapsed, born>>
    BY <1>3 DEF ServeBan, provider
  <2>5. /\ pc \in InHandPcs \cup {"reload", "done", "next"}
        /\ pc \notin {"next", "stored", "info"}
    OBVIOUS
  <2>6. pool' \in [Accounts -> Slot] /\ issued' \in [Accounts -> Nat]
    BY <2>4
  <2> QED
    BY <2>2, <2>3, <2>4, <2>5, <2>6, InHandMoves
<1>4. CASE Clear(s)
  <2> DEFINE e == [Mine(s) EXCEPT !.enabled = TRUE, !.ban = "none"]
  <2>1. e \in Entry
    BY <1>m, EntryUpdates
  <2>2. UNCHANGED <<issued, lapsed, born>>
    BY <1>4 DEF Clear, provider
  <2>3. CASE Mine(s).ban = "auth"
    <3> DEFINE snap == IF work[s].live THEN work[s].snap ELSE [work[s].snap EXCEPT ![work[s].at] = e]
    <3>1. /\ store' = Written(work[s].at, e)
          /\ pool' = IF work[s].live THEN [pool EXCEPT ![work[s].at] = e] ELSE pool
      BY <1>4, <2>3 DEF Clear
    <3>2. Moves(s, "cleared", snap, work[s].token, work[s].again)
      <4> DEFINE f == work[s].snap
                 g == [f EXCEPT ![work[s].at] = IF work[s].live THEN f[work[s].at] ELSE e]
      <4>1. work' = [work EXCEPT ![s] = [work[s] EXCEPT !.pc = "cleared", !.snap = g]]
        BY <1>4, <2>3 DEF Clear, Work
      <4>2. g = snap
        <5>1. f \in [Accounts -> Slot] /\ work[s].at \in Accounts
          OBVIOUS
        <5> HIDE DEF f, e
        <5> QED
          BY <5>1 DEF f
      <4> HIDE DEF g, snap
      <4> QED
        BY <4>1, <4>2 DEF Work, Moves
    <3> HIDE DEF e
    <3>3. /\ store' \in [Accounts -> Slot]
          /\ \A b \in Accounts : store'[b] = Absent <=> store[b] = Absent
      BY <2>1, <3>1, WrittenKeeps
    <3>4. /\ pool' \in [Accounts -> Slot]
          /\ \A b \in Accounts : pool[b] \in Entry => pool'[b] \in Entry
      BY <2>1, <3>1 DEF Slot
    <3>5. /\ snap \in [Accounts -> Slot]
          /\ \A b \in Accounts : work[s].snap[b] \in Entry => snap[b] \in Entry
      BY <2>1 DEF Slot
    <3>6. "cleared" \in InHandPcs
      BY DEF InHandPcs
    <3> HIDE DEF snap
    <3> QED
      BY <2>2, <3>2, <3>3, <3>4, <3>5, <3>6, InHandMoves
  <2>4. CASE Mine(s).ban # "auth"
    <3>1. PICK pc \in {"info", "done"} :
            /\ work' = [work EXCEPT ![s].pc = pc]
            /\ pc = "info" => work[s].kind = "check"
      BY <1>4, <2>4 DEF Clear
    <3>2. Moves(s, pc, work[s].snap, work[s].token, work[s].again)
      BY <3>1 DEF Work, Moves
    <3>3. UNCHANGED <<store, pool>> /\ pc \in InHandPcs \cup {"reload", "done", "next"}
      BY <1>4, <2>4 DEF Clear, InHandPcs
    <3>4. pc \in {"next", "stored", "info"} => work[s].kind \in Refreshes
      BY <3>1, RefreshKinds
    <3> QED
      BY <2>2, <3>2, <3>3, <3>4, InHandMoves
  <2> QED
    BY <2>3, <2>4
<1> QED
  BY <1>1, <1>2, <1>3, <1>4

LEMMA ReloadsKeep ==
    ASSUME IInv, NEW s \in Sessions, FinalReload(s) \/ ClearReload(s)
    PROVE  IInv' /\ Kept
<1>1. CASE FinalReload(s)
  BY <1>1, ReloadKeeps DEF FinalReload
<1>2. CASE ClearReload(s)
  <2>1. work[s].pc = "cleared" /\ work[s].pc \in InHandPcs
    BY <1>2 DEF ClearReload, InHandPcs
  <2>2. PICK next \in {"done", "info"} :
          ReloadThen(s, next) /\ (next = "info" => work[s].kind = "check")
    BY <1>2 DEF ClearReload
  <2>3. next = "info" => work[s].kind \in Refreshes
    BY <2>2, RefreshKinds
  <2> QED
    BY <2>1, <2>2, <2>3, ReloadKeeps
<1> QED
  BY <1>1, <1>2

LEMMA LapseKeeps ==
    ASSUME IInv, NEW a \in Accounts, Lapse(a)
    PROVE  IInv' /\ Kept
BY DEF IInv, Kept, Lapse

\* One step of the whole system.
LEMMA NextKeeps ==
    ASSUME IInv, [Next]_vars
    PROVE  /\ IInv'
           /\ Kept \/ \E s \in Sessions : work[s].kind = "remove"
<1>1. ASSUME NEW s \in Sessions, Operate(s)
      PROVE  IInv' /\ (Kept \/ work[s].kind = "remove")
  BY <1>1, BeginKeeps, WriteEditKeeps, ReloadsKeep, DeleteKeeps, ReplaceKeeps, AddKeeps DEF Operate
<1>2. ASSUME NEW s \in Sessions, Refresh(s)
      PROVE  IInv' /\ Kept
  BY <1>2, BeginKeeps, NextAccountKeeps, TokensKeep, RecordsKeep, ReloadsKeep DEF Refresh
<1>3. ASSUME NEW s \in Sessions, Serve(s)
      PROVE  IInv' /\ Kept
  BY <1>3, BeginKeeps, TokensKeep, RecordsKeep DEF Serve
<1>4. ASSUME NEW s \in Sessions, Provider(s)
      PROVE  IInv' /\ Kept
  BY <1>4, ProviderKeeps
<1>5. ASSUME NEW a \in Accounts, Lapse(a)
      PROVE  IInv' /\ Kept
  BY <1>5, LapseKeeps
<1>6. CASE UNCHANGED vars
  BY <1>6 DEF vars, IInv, Kept
<1> QED
  BY <1>1, <1>2, <1>3, <1>4, <1>5, <1>6 DEF Next

LEMMA InitSound == Init => IInv
<1> SUFFICES ASSUME Init
             PROVE  IInv
  OBVIOUS
<1>1. store \in [Accounts -> Slot]
  BY StoreAssumption DEF Init, Slot
<1>2. pool \in [Accounts -> Slot]
  BY <1>1, CopiedType DEF Init
<1>3. born \in SUBSET Accounts
  BY DEF Init, Present
<1> QED
  BY <1>1, <1>2, <1>3, NoWorkSound DEF Init, IInv

LEMMA AlwaysSound == Spec => []IInv
<1>1. IInv /\ [Next]_vars => IInv'
  BY NextKeeps
<1> QED
  BY <1>1, InitSound, PTL DEF Spec

-----------------------------------------------------------------------------
\* The configuration, the pool and the sessions keep their types: nothing but
\* a whole record, or nothing, is ever in the place of an account.
THEOREM TypeCorrect == Spec => []TypeOK
<1>1. IInv => TypeOK
  BY DEF IInv, TypeOK, Work, Pcs, InHandPcs
<1> QED
  BY <1>1, AlwaysSound, PTL

\* As long as no list is replaced, a deleted account stays deleted and nobody
\* else is lost, for any number of accounts, of sessions and of copies they
\* hold.
THEOREM MembersAreKept == Spec => Membership
<1>1. IInv /\ [Next]_vars =>
        [Only(AllBut({"remove"})) =>
            \A a \in Accounts :
               /\ a \in born /\ store[a] = Absent => store'[a] = Absent
               /\ store[a] # Absent /\ store'[a] = Absent => Removing(a)]_vars
  <2> SUFFICES ASSUME IInv, [Next]_vars, Only(AllBut({"remove"}))
               PROVE  Kept
    BY DEF Kept
  <2>1. \A s \in Sessions : work[s].kind # "remove"
    BY StoreAssumption DEF Only, AllBut, Operations
  <2> QED
    BY <2>1, NextKeeps
<1> QED
  BY <1>1, AlwaysSound, PTL DEF Spec, Membership

-----------------------------------------------------------------------------
(* Who is at work where.                                                   *)

\* A session has a kind from its first step on, and some places are only on
\* the way of some kinds.
Kinded(w) ==
    /\ w.pc = "new" => w.kind = None /\ w.snap = Blank /\ ~w.live
    /\ w.kind = None => w.pc = "new"
    /\ w.pc = "write" => w.kind = "edit"
    /\ w.pc \in {"refused", "pooled"} => w.kind = "serve"
    /\ w.pc \in {"clear", "cleared"} => w.kind \in {"serve", "check"}

KInv == \A s \in Sessions : Kinded(work[s])

KindsKept == \A r \in Sessions : work[r].kind \in {None, work'[r].kind}

\* A session that keeps its kind and goes on to pc.
LEMMA KindMoves ==
    ASSUME IInv, KInv, NEW s \in Sessions, work[s].pc # "new",
           work' \in [Sessions -> Work],
           \A r \in Sessions : r # s => work'[r] = work[r],
           work'[s].kind = work[s].kind,
           work'[s].pc \in Pcs \ {"new"},
           work'[s].pc = "write" => work[s].pc = "write",
           work'[s].pc \in {"refused", "pooled"} => work[s].kind = "serve",
           work'[s].pc \in {"clear", "cleared"} => work[s].kind \in {"serve", "check"}
    PROVE  KInv' /\ KindsKept
BY DEF KInv, KindsKept, Kinded

\* The two ways NextAccount goes on: with an account, or through with them all.
Takes(s, a, e, pc) ==
    work' = [work EXCEPT ![s] = [work[s] EXCEPT !.todo = work[s].todo \ {a}, !.at = a,
                                                !.snap[a] = e, !.pc = pc]]

Through(s, pc) == work' = [work EXCEPT ![s].pc = pc]

CopyOf(s, a) == IF work[s].kind = "batch" THEN store[a] ELSE work[s].snap[a]

Asks(s, t, a) == \/ Plans[work[s].kind].when = "always"
                 \/ Plans[work[s].kind].when = "due" /\ Due(a, t)

LEMMA NextForm ==
    ASSUME NEW s \in Sessions, NextAccount(s)
    PROVE  \/ Through(s, IF Plans[work[s].kind].reload THEN "reload" ELSE "done")
           \/ \E a \in work[s].todo, pc \in {"next", "ask", "info"} :
                 /\ pc = "ask" => Asks(s, CopyOf(s, a).token, a)
                 /\ Takes(s, a, CopyOf(s, a), pc)
<1>1. ASSUME NEW a \in work[s].todo,
             LET w == work[s]
                 e == IF w.kind = "batch" THEN store[a] ELSE w.snap[a]
                 asks == \/ Plans[w.kind].when = "always"
                         \/ Plans[w.kind].when = "due" /\ Due(a, e.token)
             IN  work' = [work EXCEPT ![s] = [w EXCEPT !.todo = @ \ {a}, !.at = a,
                             !.snap[a] = e,
                             !.pc = IF e = Absent THEN "next" ELSE IF asks THEN "ask" ELSE "info"]]
      PROVE  \E pc \in {"next", "ask", "info"} : /\ pc = "ask" => Asks(s, CopyOf(s, a).token, a)
                                                 /\ Takes(s, a, CopyOf(s, a), pc)
  <2> DEFINE asks == Asks(s, CopyOf(s, a).token, a)
             pc == IF CopyOf(s, a) = Absent THEN "next" ELSE IF asks THEN "ask" ELSE "info"
  <2>1. Takes(s, a, CopyOf(s, a), pc)
    BY <1>1 DEF Takes, CopyOf, Asks
  <2>2. pc \in {"next", "ask", "info"} /\ (pc = "ask" => asks)
    OBVIOUS
  <2> HIDE DEF pc
  <2> QED
    BY <2>1, <2>2
<1> QED
  BY <1>1 DEF NextAccount, Through

\* What a session does next, without what it knows of the account.
LEMMA NextMoves ==
    ASSUME work \in [Sessions -> Work], NEW s \in Sessions, NextAccount(s)
    PROVE  /\ \A r \in Sessions : r # s => work'[r] = work[r]
           /\ work'[s].kind = work[s].kind
           /\ work'[s].pc \in {"next", "ask", "info", "reload", "done"} /\ work[s].pc = "next"
<1>0. work[s] \in Work /\ work[s].pc = "next"
  BY DEF NextAccount
<1>1. ASSUME NEW pc \in {"reload", "done"}, Through(s, pc)
      PROVE  /\ \A r \in Sessions : r # s => work'[r] = work[r]
             /\ work'[s].kind = work[s].kind /\ work'[s].pc = pc
  BY <1>0, <1>1 DEF Work, Through
<1>2. ASSUME NEW a \in work[s].todo, NEW pc \in {"next", "ask", "info"},
             Takes(s, a, CopyOf(s, a), pc)
      PROVE  /\ \A r \in Sessions : r # s => work'[r] = work[r]
             /\ work'[s].kind = work[s].kind /\ work'[s].pc = pc
  BY <1>0, <1>2 DEF Work, Takes
<1> QED
  BY <1>0, <1>1, <1>2, NextForm

\* An operation that begins with an account each, or with a copy of them all.
LEMMA Begun ==
    ASSUME work \in [Sessions -> Work], NEW s \in Sessions,
           BeginEdit(s) \/ BeginDelete(s) \/ BeginRemove(s) \/ BeginRefresh(s) \/ BeginServe(s)
    PROVE  /\ \A r \in Sessions : r # s => work'[r] = work[r]
           /\ BeginEdit(s) => work'[s].pc = "write" /\ work'[s].kind = "edit"
           /\ BeginDelete(s) => work'[s].pc = "delete" /\ work'[s].kind = "delete"
           /\ BeginRemove(s) => work'[s].pc = "replace" /\ work'[s].kind = "remove"
           /\ BeginRefresh(s) => work'[s].pc = "next" /\ work'[s].kind \in Refreshes
           /\ BeginServe(s) => work'[s].pc \in {"ask", "clear"} /\ work'[s].kind = "serve"
<1>1. \A w : work' = [work EXCEPT ![s] = w] =>
         work'[s] = w /\ \A r \in Sessions : r # s => work'[r] = work[r]
  OBVIOUS
<1>2. ASSUME BeginEdit(s)
      PROVE  \E w : work' = [work EXCEPT ![s] = w] /\ w.pc = "write" /\ w.kind = "edit"
  <2>1. PICK T, change : work' = [work EXCEPT ![s] = [NoWork EXCEPT !.pc = "write",
                            !.kind = "edit", !.snap = store, !.todo = T, !.change = change]]
    BY <1>2 DEF BeginEdit
  <2>2. LET w == [NoWork EXCEPT !.pc = "write", !.kind = "edit", !.snap = store, !.todo = T,
                                !.change = change]
        IN  w.pc = "write" /\ w.kind = "edit"
    BY DEF NoWork
  <2> QED
    BY <2>1, <2>2
<1>3. ASSUME BeginDelete(s)
      PROVE  \E w : work' = [work EXCEPT ![s] = w] /\ w.pc = "delete" /\ w.kind = "delete"
  <2>1. PICK T : work' = [work EXCEPT ![s] = [NoWork EXCEPT !.pc = "delete", !.kind = "delete",
                                                            !.todo = T]]
    BY <1>3 DEF BeginDelete
  <2>2. LET w == [NoWork EXCEPT !.pc = "delete", !.kind = "delete", !.todo = T]
        IN  w.pc = "delete" /\ w.kind = "delete"
    BY DEF NoWork
  <2> QED
    BY <2>1, <2>2
<1>4. ASSUME BeginRemove(s)
      PROVE  \E w : work' = [work EXCEPT ![s] = w] /\ w.pc = "replace" /\ w.kind = "remove"
  <2>1. PICK T : work' = [work EXCEPT ![s] = [NoWork EXCEPT !.pc = "replace",
                            !.kind = "remove", !.snap = store, !.todo = T]]
    BY <1>4 DEF BeginRemove
  <2>2. LET w == [NoWork EXCEPT !.pc = "replace", !.kind = "remove", !.snap = store, !.todo = T]
        IN  w.pc = "replace" /\ w.kind = "remove"
    BY DEF NoWork
  <2> QED
    BY <2>1, <2>2
<1>5. ASSUME BeginRefresh(s)
      PROVE  \E w : work' = [work EXCEPT ![s] = w] /\ w.pc = "next" /\ w.kind \in Refreshes
  <2>1. PICK k, T :
           /\ k \in Kinds \cap Refreshes
           /\ work' = [work EXCEPT ![s] = [NoWork EXCEPT !.pc = "next", !.kind = k,
                                                         !.snap = store, !.todo = T]]
    BY <1>5 DEF BeginRefresh
  <2>2. LET w == [NoWork EXCEPT !.pc = "next", !.kind = k, !.snap = store, !.todo = T]
        IN  w.pc = "next" /\ w.kind = k
    BY DEF NoWork
  <2> QED
    BY <2>1, <2>2
<1>6. ASSUME BeginServe(s)
      PROVE  \E w : work' = [work EXCEPT ![s] = w] /\ w.pc \in {"ask", "clear"}
                                                  /\ w.kind = "serve"
  <2>1. PICK a \in Present(pool), pc \in {"ask", "clear"} :
           work' = [work EXCEPT ![s] = [NoWork EXCEPT !.kind = "serve", !.at = a,
                                                      !.live = TRUE, !.pc = pc]]
    BY <1>6 DEF BeginServe
  <2>2. LET w == [NoWork EXCEPT !.kind = "serve", !.at = a, !.live = TRUE, !.pc = pc]
        IN  w.pc = pc /\ w.kind = "serve"
    BY DEF NoWork
  <2> QED
    BY <2>1, <2>2
<1> QED
  BY <1>1, <1>2, <1>3, <1>4, <1>5, <1>6

LEMMA BeginKinds ==
    ASSUME IInv, KInv, NEW s \in Sessions,
           BeginEdit(s) \/ BeginDelete(s) \/ BeginRemove(s) \/ BeginRefresh(s) \/ BeginServe(s)
              \/ AddAccount(s)
    PROVE  KInv' /\ KindsKept
<1>0. work[s].kind = None /\ None \notin Operations /\ work[s] \in Work
  BY StoreAssumption DEF KInv, Kinded, BeginEdit, BeginDelete, BeginRemove, BeginRefresh, BeginServe, AddAccount,
         IInv
<1>1. ASSUME \A r \in Sessions : r # s => work'[r] = work[r],
             work'[s].kind \in Operations, work'[s].pc # "new",
             work'[s].pc = "write" => work'[s].kind = "edit",
             work'[s].pc \notin {"refused", "pooled"},
             work'[s].pc \in {"clear", "cleared"} => work'[s].kind = "serve"
      PROVE  KInv' /\ KindsKept
  BY <1>0, <1>1 DEF KInv, KindsKept, Kinded
<1>2. CASE BeginEdit(s) \/ BeginDelete(s) \/ BeginRemove(s) \/ BeginRefresh(s) \/ BeginServe(s)
  <2>1. work \in [Sessions -> Work]
    BY DEF IInv
  <2>2. \A r \in Sessions : r # s => work'[r] = work[r]
    BY <1>2, <2>1, Begun
  <2>3. /\ work'[s].kind \in Refreshes \cup {"edit", "delete", "remove", "serve"}
        /\ work'[s].pc \in {"write", "delete", "replace", "next", "ask", "clear"}
        /\ work'[s].pc = "write" => work'[s].kind = "edit"
        /\ work'[s].pc = "clear" => work'[s].kind = "serve"
    BY <1>2, <2>1, Begun
  <2> QED
    BY <1>1, <2>2, <2>3 DEF Operations
<1>3. CASE AddAccount(s)
  <2>1. /\ \A r \in Sessions : r # s => work'[r] = work[r]
        /\ work'[s].pc = "reload" /\ work'[s].kind = "add"
    BY <1>0, <1>3 DEF AddAccount, Work, IInv
  <2> QED
    BY <1>1, <2>1 DEF Operations
<1> QED
  BY <1>2, <1>3

LEMMA ReloadKinds ==
    ASSUME IInv, KInv, NEW s \in Sessions, NEW next \in {"done", "info"}, ReloadThen(s, next),
           work[s].pc # "new"
    PROVE  KInv' /\ KindsKept
<1>1. ASSUME NEW r \in Sessions
      PROVE  Kinded(work'[r]) /\ work'[r].kind = work[r].kind
  <2> DEFINE d == Detached(work[r])
  <2>1. /\ work[r] \in Work /\ Kinded(work[r])
        /\ work[r].live => work[r].pc # "new"
    BY DEF IInv, KInv, Sound
  <2>2. /\ d.pc = work[r].pc /\ d.kind = work[r].kind
        /\ d.pc = "new" => d = work[r]
        /\ d = [d EXCEPT !.pc = d.pc]
        /\ \A p \in Pcs : [d EXCEPT !.pc = p].pc = p /\ [d EXCEPT !.pc = p].kind = d.kind
    BY <2>1 DEF Detached, Work
  <2>3. work'[r] = [d EXCEPT !.pc = IF r = s THEN next ELSE d.pc]
    BY DEF ReloadThen
  <2> HIDE DEF d
  <2>4. CASE r = s
    <3>1. work'[r].pc = next /\ work'[r].kind = work[r].kind
      BY <2>2, <2>3, <2>4 DEF Pcs, InHandPcs
    <3> QED
      BY <2>1, <2>4, <3>1 DEF Kinded
  <2>5. CASE r # s
    BY <2>1, <2>2, <2>3, <2>5 DEF Kinded
  <2> QED
    BY <2>4, <2>5
<1> QED
  BY <1>1 DEF KInv, KindsKept

\* Every step keeps the kinds.
LEMMA StepKinds ==
    ASSUME IInv, IInv', KInv, NEW s \in Sessions,
           Operate(s) \/ Refresh(s) \/ Serve(s) \/ Provider(s)
    PROVE  KInv' /\ KindsKept
<1>0. /\ work \in [Sessions -> Work] /\ work' \in [Sessions -> Work]
      /\ work[s] \in Work /\ work'[s] \in Work /\ Sound(work[s], pool) /\ Kinded(work[s])
      /\ "serve" \notin Refreshes
  BY RefreshKinds DEF IInv, KInv
<1>1. CASE BeginEdit(s) \/ BeginDelete(s) \/ BeginRemove(s) \/ BeginRefresh(s) \/ BeginServe(s)
              \/ AddAccount(s)
  BY <1>1, BeginKinds
<1>2. CASE FinalReload(s) \/ ClearReload(s)
  BY <1>2, ReloadKinds DEF FinalReload, ClearReload
<1>3. ASSUME NEW pc \in Pcs \ {"new"},
             \A r \in Sessions : r # s => work'[r] = work[r],
             work'[s].kind = work[s].kind, work'[s].pc = pc, work[s].pc # "new",
             pc = "write" => work[s].pc = "write",
             pc \in {"refused", "pooled"} => work[s].kind = "serve",
             pc \in {"clear", "cleared"} => work[s].kind \in {"serve", "check"}
      PROVE  KInv' /\ KindsKept
  BY <1>0, <1>3, KindMoves
<1>4. CASE WriteEdit(s) \/ DeleteAccount(s) \/ Replace(s)
  <2>1. /\ \A r \in Sessions : r # s => work'[r] = work[r]
        /\ work[s].pc \in {"write", "delete", "replace"}
    BY <1>0, <1>4 DEF WriteEdit, DeleteAccount, Replace
  <2>2. /\ work'[s].kind = work[s].kind
        /\ work'[s].pc \in {work[s].pc, "reload"}
    <3>1. CASE WriteEdit(s)
      <4>1. PICK a : work' = [work EXCEPT ![s].todo = @ \ {a},
                                ![s].pc = IF work[s].todo = {a} THEN "reload" ELSE @]
        BY <3>1 DEF WriteEdit
      <4> QED
        BY <1>0, <4>1 DEF Work
    <3>2. CASE DeleteAccount(s)
      <4>1. PICK a : work' = [work EXCEPT ![s].todo = @ \ {a},
                                ![s].pc = IF work[s].todo = {a} THEN "reload" ELSE @]
        BY <3>2 DEF DeleteAccount
      <4> QED
        BY <1>0, <4>1 DEF Work
    <3>3. CASE Replace(s)
      BY <1>0, <3>3 DEF Replace, Work
    <3> QED
      BY <1>4, <3>1, <3>2, <3>3
  <2> QED
    BY <1>3, <2>1, <2>2 DEF Pcs
<1>5. CASE Provider(s)
  <2>1. work[s].pc = "ask" /\ work[s].kind \in Refreshes \cup {"serve"}
    BY <1>0, <1>5 DEF Provider, TokenGranted, TokenRefused, TokenUnreachable, Sound, InHandPcs
  <2>2. PICK pc \in {"granted", "refused", "done", "next", "info"} :
          /\ \A r \in Sessions : r # s => work'[r] = work[r]
          /\ work'[s].kind = work[s].kind /\ work'[s].pc = pc
          /\ pc = "refused" => work[s].kind = "serve"
    BY <1>0, <1>5, <2>1, PlanFailed
       DEF Provider, TokenGranted, TokenRefused, TokenUnreachable, Work
  <2> QED
    BY <1>3, <2>1, <2>2 DEF Pcs, InHandPcs
<1>6. CASE NextAccount(s)
  <2>1. /\ \A r \in Sessions : r # s => work'[r] = work[r]
        /\ work'[s].kind = work[s].kind
        /\ work'[s].pc \in {"next", "ask", "info", "reload", "done"} /\ work[s].pc = "next"
    BY <1>0, <1>6, NextMoves
  <2> QED
    BY <1>3, <2>1 DEF Pcs, InHandPcs
<1>7. CASE StoreToken(s) \/ PoolToken(s) \/ ServeToken(s) \/ ServeStore(s)
  <2>1. /\ \A r \in Sessions : r # s => work'[r] = work[r]
        /\ work'[s].kind = work[s].kind
        /\ work'[s].pc \in {"stored", "clear", "info", "pooled"}
        /\ work'[s].pc = "pooled" => work[s].kind = "serve"
        /\ work'[s].pc = "clear" => work[s].kind \in {"serve", "check"}
        /\ work[s].pc # "new"
    BY <1>0, <1>7 DEF StoreToken, PoolToken, ServeToken, ServeStore, Work, Kinded
  <2> QED
    BY <1>3, <2>1 DEF Pcs, InHandPcs
<1>8. CASE Clear(s) \/ InfoFetched(s) \/ InfoSuspended(s) \/ InfoFails(s) \/ ServeBan(s)
  <2>1. /\ \A r \in Sessions : r # s => work'[r] = work[r]
        /\ work'[s].kind = work[s].kind
        /\ work'[s].pc \in {"cleared", "info", "done", "next", "ask", "reload"}
        /\ work'[s].pc = "cleared" => work[s].kind \in {"serve", "check"}
        /\ work[s].pc # "new"
    BY <1>0, <1>8 DEF Clear, InfoFetched, InfoSuspended, InfoFails, ServeBan, Work, Kinded
  <2> QED
    BY <1>3, <2>1 DEF Pcs, InHandPcs
<1> QED
  BY <1>1, <1>2, <1>4, <1>5, <1>6, <1>7, <1>8 DEF Operate, Refresh, Serve, Provider

-----------------------------------------------------------------------------
(* Tokens, while everybody writes single fields.                           *)

FieldWriters == {"background", "bulk", "delete", "add"}

Granted(s, a) == work[s].at = a /\ work[s].pc = "granted"

\* An account nobody added yet is nowhere.
Unborn == \A a \in Accounts \ born :
             /\ store[a] = Absent
             /\ \A s \in Sessions : work[s].snap[a] = Absent

\* No copy is ahead of the provider.
NoneAhead == \A a \in Accounts :
    /\ store[a] # Absent => store[a].token <= issued[a]
    /\ \A s \in Sessions : work[s].snap[a] # Absent => work[s].snap[a].token <= issued[a]

\* A token that was granted and is not written yet is in one place only.
OneGrant == \A s \in Sessions, a \in Accounts : Granted(s, a) =>
    /\ work[s].token = issued[a]
    /\ store[a] # Absent => store[a].token # issued[a]
    /\ \A r \in Sessions :
          /\ work[r].snap[a] # Absent => work[r].snap[a].token # issued[a]
          /\ Granted(r, a) => r = s

UpToDate == \A a \in Present(store) : NeverBanned(a) =>
    (\E s \in Sessions : Granted(s, a)) \/ store[a].token = issued[a]

TokenInv == Unborn /\ NoneAhead /\ OneGrant /\ UpToDate

LEMMA OnlyBefore ==
    ASSUME NEW K, KindsKept, Only(K)'
    PROVE  Only(K)
BY DEF KindsKept, Only

LEMMA FieldSessions ==
    ASSUME IInv, KInv, Only(FieldWriters), NEW s \in Sessions
    PROVE  /\ work \in [Sessions -> Work] /\ work[s] \in Work
           /\ ~work[s].live
           /\ work[s].kind \in FieldWriters \cup {None}
           /\ work[s].pc \notin {"write", "replace", "refused", "pooled", "clear", "cleared"}
           /\ work[s].pc \in InHandPcs \cup {"next"} => work[s].kind \in {"background", "bulk"}
           /\ work[s].pc \in InHandPcs => /\ work[s].at \in Accounts
                                          /\ Mine(s) = work[s].snap[work[s].at]
                                          /\ Mine(s) \in Entry
           /\ work[s].snap \in [Accounts -> Slot]
<1>1. /\ work[s] \in Work /\ Sound(work[s], pool) /\ Kinded(work[s])
      /\ work[s].kind \in FieldWriters \cup {None}
      /\ "serve" \notin Refreshes /\ None \notin Operations
  BY RefreshKinds, StoreAssumption DEF IInv, KInv, Only
<1>2. /\ ~work[s].live
      /\ work[s].pc \notin {"write", "replace", "refused", "pooled", "clear", "cleared"}
  BY <1>1 DEF Sound, Kinded, FieldWriters, Operations
<1>3. work[s].pc \in InHandPcs \cup {"next"} => work[s].kind \in {"background", "bulk"}
  BY <1>1, RefreshKinds DEF Sound, FieldWriters, Operations
<1>4. work[s].pc \in InHandPcs => /\ work[s].at \in Accounts
                                  /\ Mine(s) = work[s].snap[work[s].at]
                                  /\ Mine(s) \in Entry
  BY <1>1, <1>2 DEF Sound, Mine
<1>5. work[s].snap \in [Accounts -> Slot]
  BY <1>1 DEF Work
<1> QED
  BY <1>1, <1>2, <1>3, <1>4, <1>5 DEF IInv

\* Steps that write no token and take no copy.
LEMMA TokenFrame ==
    ASSUME TokenInv, UNCHANGED <<store, issued, born>>,
           \A r \in Sessions :
              /\ \A a \in Accounts : work'[r].snap[a] = work[r].snap[a]
              /\ work'[r].pc = "granted" <=> work[r].pc = "granted"
              /\ work[r].pc = "granted" => work'[r].at = work[r].at /\ work'[r].token = work[r].token
    PROVE  TokenInv'
<1>1. \A r \in Sessions, a \in Accounts :
         /\ Granted(r, a)' <=> Granted(r, a)
         /\ Granted(r, a) => work'[r].token = work[r].token
  BY DEF Granted
<1>2. \A a \in Accounts : NeverBanned(a)' <=> NeverBanned(a)
  BY DEF NeverBanned
<1>3. Unborn'
  BY DEF TokenInv, Unborn
<1>4. NoneAhead'
  BY DEF TokenInv, NoneAhead
<1>5. OneGrant'
  BY <1>1 DEF TokenInv, OneGrant
<1>6. UpToDate'
  BY <1>1, <1>2 DEF TokenInv, UpToDate, Present
<1> QED
  BY <1>3, <1>4, <1>5, <1>6 DEF TokenInv

\* What the steps of these sessions do, field by field.
LEMMA GrantForm ==
    ASSUME IInv, KInv, Only(FieldWriters), NEW s \in Sessions, TokenGranted(s)
    PROVE  LET a == work[s].at IN
           /\ a \in Accounts /\ work[s].pc = "ask"
           /\ work[s].snap[a] \in Entry /\ work[s].snap[a].token = issued[a]
           /\ \A r \in Sessions : r # s => work'[r] = work[r]
           /\ work'[s].pc = "granted" /\ work'[s].at = a /\ work'[s].token = issued[a] + 1
           /\ work'[s].snap = work[s].snap
           /\ issued'[a] = issued[a] + 1 /\ \A b \in Accounts : b # a => issued'[b] = issued[b]
           /\ UNCHANGED <<store, pool, lapsed, born>>
<1> DEFINE a == work[s].at
<1>1. /\ a \in Accounts /\ work[s].pc = "ask" /\ work[s].snap[a] \in Entry
      /\ work[s].snap[a].token = issued[a] /\ issued \in [Accounts -> Nat]
      /\ work[s] \in Work /\ work \in [Sessions -> Work]
  BY FieldSessions DEF TokenGranted, InHandPcs, IInv
<1>2. /\ \A r \in Sessions : r # s => work'[r] = work[r]
      /\ work'[s].pc = "granted" /\ work'[s].at = a /\ work'[s].token = issued[a] + 1
      /\ work'[s].snap = work[s].snap
      /\ issued'[a] = issued[a] + 1 /\ \A b \in Accounts : b # a => issued'[b] = issued[b]
      /\ UNCHANGED <<store, pool, lapsed, born>>
  BY <1>1 DEF TokenGranted, Work
<1> QED
  BY <1>1, <1>2

LEMMA GrantKeepsTokens ==
    ASSUME IInv, KInv, Only(FieldWriters), TokenInv, NEW s \in Sessions, TokenGranted(s)
    PROVE  TokenInv'
<1> DEFINE a == work[s].at
<1>0. /\ a \in Accounts /\ work[s].pc = "ask" /\ work[s].snap[a] \in Entry
      /\ work[s].snap[a].token = issued[a] /\ issued \in [Accounts -> Nat]
      /\ Absent \notin Entry
  BY GrantForm, StoreAssumption DEF IInv
<1>1. /\ \A r \in Sessions : r # s => work'[r] = work[r]
      /\ work'[s].pc = "granted" /\ work'[s].at = a /\ work'[s].token = issued[a] + 1
      /\ work'[s].snap = work[s].snap
      /\ issued'[a] = issued[a] + 1 /\ \A b \in Accounts : b # a => issued'[b] = issued[b]
      /\ UNCHANGED <<store, born>>
  BY GrantForm
<1>2. \A r \in Sessions : ~Granted(r, a)
  BY <1>0 DEF TokenInv, OneGrant
<1> HIDE DEF a
<1>3. \A r \in Sessions, b \in Accounts :
         /\ Granted(r, b)' <=> (IF b = a THEN r = s ELSE Granted(r, b))
         /\ work'[r].snap = work[r].snap
         /\ r # s => work'[r].token = work[r].token
  BY <1>0, <1>1, <1>2 DEF Granted
<1>4. \A b \in Accounts : NeverBanned(b)' <=> NeverBanned(b)
  BY <1>1, <1>3 DEF NeverBanned
<1>5. /\ \A b \in Accounts : store[b] # Absent => store[b].token \in Nat
      /\ \A r \in Sessions, b \in Accounts :
            work[r].snap[b] # Absent => work[r].snap[b].token \in Nat
  BY DEF IInv, Slot, Entry, Work
<1>6. Unborn'
  BY <1>1, <1>3 DEF TokenInv, Unborn
<1>7. NoneAhead'
  <2>1. \A b \in Accounts : issued[b] \in Nat /\ issued'[b] \in Nat /\ issued[b] <= issued'[b]
    BY <1>0, <1>1
  <2> QED
    BY <1>1, <1>3, <1>5, <2>1 DEF TokenInv, NoneAhead
<1>8. OneGrant'
  <2> SUFFICES ASSUME NEW r \in Sessions, NEW b \in Accounts, Granted(r, b)'
               PROVE  /\ work'[r].token = issued'[b]
                      /\ store[b] # Absent => store[b].token # issued'[b]
                      /\ \A q \in Sessions :
                            /\ work[q].snap[b] # Absent => work[q].snap[b].token # issued'[b]
                            /\ Granted(q, b)' => q = r
    BY <1>1, <1>3 DEF OneGrant
  <2>1. CASE b = a
    <3>1. /\ store[a] # Absent => store[a].token <= issued[a]
          /\ \A q \in Sessions : work[q].snap[a] # Absent => work[q].snap[a].token <= issued[a]
          /\ issued[a] \in Nat
      BY <1>0, <2>1 DEF TokenInv, NoneAhead
    <3> QED
      BY <1>1, <1>3, <1>5, <2>1, <3>1
  <2>2. CASE b # a
    BY <1>1, <1>3, <2>2, <1>2 DEF TokenInv, OneGrant, Granted
  <2> QED
    BY <2>1, <2>2
<1>9. UpToDate'
  BY <1>1, <1>3, <1>4 DEF TokenInv, UpToDate, Present
<1> QED
  BY <1>6, <1>7, <1>8, <1>9 DEF TokenInv

LEMMA StoreForm ==
    ASSUME IInv, KInv, Only(FieldWriters), NEW s \in Sessions, StoreToken(s),
           work[s].token = issued[work[s].at]
    PROVE  LET a == work[s].at IN
           /\ a \in Accounts /\ work[s].pc = "granted" /\ work[s].snap[a] \in Entry
           /\ \A r \in Sessions : r # s => work'[r] = work[r]
           /\ work'[s].pc = "stored" /\ work'[s].at = a /\ work'[s].token = issued[a]
           /\ UNCHANGED <<pool, issued, lapsed, born>>
           /\ \A b \in Accounts : b # a => work'[s].snap[b] = work[s].snap[b]
           /\ work'[s].snap[a] \in Entry /\ work'[s].snap[a].token = issued[a]
           /\ work'[s].snap[a].ban = work[s].snap[a].ban
           /\ \A b \in Accounts : b # a => store'[b] = store[b]
           /\ store[a] = Absent => store'[a] = Absent
           /\ store[a] # Absent => /\ store'[a] \in Entry /\ store'[a].token = issued[a]
                                   /\ store'[a].ban = store[a].ban
<1> DEFINE a == work[s].at
<1>0. /\ a \in Accounts /\ work[s].pc = "granted" /\ work[s].snap[a] \in Entry
      /\ work[s] \in Work /\ work \in [Sessions -> Work]
      /\ store \in [Accounts -> Slot] /\ issued[a] \in Nat
  <2>1. /\ a \in Accounts /\ work[s].pc = "granted" /\ work[s].snap[a] \in Entry
        /\ work[s] \in Work /\ work \in [Sessions -> Work]
    BY FieldSessions DEF StoreToken, InHandPcs
  <2> QED
    BY <2>1 DEF IInv
<1>1. /\ \A r \in Sessions : r # s => work'[r] = work[r]
      /\ work'[s].pc = "stored" /\ work'[s].at = a /\ work'[s].token = issued[a]
      /\ UNCHANGED <<pool, issued, lapsed, born>>
  BY <1>0 DEF StoreToken, provider, Work
<1>2. /\ \A b \in Accounts : b # a => work'[s].snap[b] = work[s].snap[b]
      /\ work'[s].snap[a] = [work[s].snap[a] EXCEPT !.token = issued[a]]
  <2> DEFINE snap == [work[s].snap EXCEPT ![a].token = work[s].token]
  <2>1. work'[s].snap = snap
    BY <1>0 DEF StoreToken, Work
  <2>2. work[s].snap \in [Accounts -> Slot]
    BY <1>0 DEF Work
  <2> QED
    BY <1>0, <2>1, <2>2
<1>3. /\ \A b \in Accounts : b # a => store'[b] = store[b]
      /\ store[a] = Absent => store'[a] = Absent
      /\ store[a] # Absent => store'[a] = [store[a] EXCEPT !.token = issued[a]]
      /\ store[a] # Absent => store[a] \in Entry
  BY <1>0 DEF StoreToken, TokenWritten, Slot
<1> HIDE DEF a
<1>4. /\ work'[s].snap[a] \in Entry /\ work'[s].snap[a].token = issued[a]
      /\ work'[s].snap[a].ban = work[s].snap[a].ban
      /\ store[a] # Absent => /\ store'[a] \in Entry /\ store'[a].token = issued[a]
                              /\ store'[a].ban = store[a].ban
  BY <1>0, <1>2, <1>3 DEF Entry
<1> QED
  BY <1>0, <1>1, <1>2, <1>3, <1>4 DEF a

LEMMA StoreKeepsTokens ==
    ASSUME IInv, KInv, Only(FieldWriters), TokenInv, NEW s \in Sessions, StoreToken(s)
    PROVE  TokenInv'
<1> DEFINE a == work[s].at
<1>0. /\ a \in Accounts /\ work[s].pc = "granted" /\ work[s].snap[a] \in Entry
      /\ Granted(s, a) /\ work[s].token = issued[a]
      /\ Absent \notin Entry /\ issued[a] \in Nat
  <2>1. a \in Accounts /\ work[s].pc = "granted" /\ work[s].snap[a] \in Entry
    BY FieldSessions DEF StoreToken, InHandPcs
  <2> QED
    BY <2>1, StoreAssumption DEF TokenInv, OneGrant, Granted, IInv
<1>1. /\ \A r \in Sessions : r # s => work'[r] = work[r]
      /\ work'[s].pc = "stored" /\ UNCHANGED <<issued, born>>
  BY <1>0, StoreForm
<1>2. /\ \A b \in Accounts : b # a => work'[s].snap[b] = work[s].snap[b]
      /\ work'[s].snap[a] \in Entry /\ work'[s].snap[a].token = issued[a]
      /\ work'[s].snap[a].ban = work[s].snap[a].ban
  BY <1>0, StoreForm
<1>3. /\ \A b \in Accounts : b # a => store'[b] = store[b]
      /\ store[a] = Absent => store'[a] = Absent
      /\ store[a] # Absent => /\ store'[a] \in Entry /\ store'[a].token = issued[a]
                              /\ store'[a].ban = store[a].ban
  BY <1>0, StoreForm
<1> HIDE DEF a
<1>4. \A r \in Sessions, b \in Accounts : Granted(r, b)' <=> Granted(r, b) /\ r # s
  BY <1>1 DEF Granted
<1>5. \A r \in Sessions, b \in Accounts :
         /\ Granted(r, b) /\ r # s => b # a
         /\ Granted(s, b) => b = a
  BY <1>0 DEF TokenInv, OneGrant, Granted
<1>6. Unborn'
  <2>1. a \in born
    BY <1>0 DEF TokenInv, Unborn
  <2> QED
    BY <1>1, <1>2, <1>3, <2>1 DEF TokenInv, Unborn
<1>7. NoneAhead'
  <2>1. ASSUME NEW b \in Accounts, store'[b] # Absent
        PROVE  store'[b].token <= issued[b]
    BY <1>0, <1>3, <2>1 DEF TokenInv, NoneAhead
  <2>2. ASSUME NEW r \in Sessions, NEW b \in Accounts, work'[r].snap[b] # Absent
        PROVE  work'[r].snap[b].token <= issued[b]
    <3>1. CASE r = s /\ b = a
      BY <1>0, <1>2, <3>1
    <3>2. CASE ~(r = s /\ b = a)
      <4>1. work'[r].snap[b] = work[r].snap[b]
        BY <1>1, <1>2, <3>2
      <4> QED
        BY <2>2, <4>1 DEF TokenInv, NoneAhead
    <3> QED
      BY <3>1, <3>2
  <2> QED
    BY <1>1, <2>1, <2>2 DEF NoneAhead
<1>8. OneGrant'
  <2> SUFFICES ASSUME NEW r \in Sessions, NEW b \in Accounts, Granted(r, b)'
               PROVE  /\ work'[r].token = issued[b]
                      /\ store'[b] # Absent => store'[b].token # issued[b]
                      /\ \A q \in Sessions :
                            /\ work'[q].snap[b] # Absent => work'[q].snap[b].token # issued[b]
                            /\ Granted(q, b)' => q = r
    BY <1>1 DEF OneGrant
  <2>1. Granted(r, b) /\ r # s /\ b # a
    BY <1>4, <1>5
  <2>2. /\ work[r].token = issued[b]
        /\ store[b] # Absent => store[b].token # issued[b]
        /\ \A q \in Sessions :
              /\ work[q].snap[b] # Absent => work[q].snap[b].token # issued[b]
              /\ Granted(q, b) => q = r
    BY <2>1 DEF TokenInv, OneGrant
  <2> QED
    BY <1>1, <1>2, <1>3, <1>4, <2>1, <2>2
<1>9. UpToDate'
  <2> SUFFICES ASSUME NEW b \in Accounts, store'[b] # Absent, NeverBanned(b)'
               PROVE  (\E r \in Sessions : Granted(r, b)') \/ store'[b].token = issued[b]
    BY <1>1 DEF UpToDate, Present
  <2>1. CASE b = a
    BY <1>3, <2>1
  <2>2. CASE b # a
    <3>1. NeverBanned(b) /\ store'[b] = store[b]
      BY <1>1, <1>2, <1>3, <2>2 DEF NeverBanned
    <3>2. (\E r \in Sessions : Granted(r, b)) \/ store[b].token = issued[b]
      BY <3>1 DEF TokenInv, UpToDate, Present
    <3> QED
      BY <1>4, <1>5, <2>2, <3>1, <3>2
  <2> QED
    BY <2>1, <2>2
<1> QED
  BY <1>6, <1>7, <1>8, <1>9 DEF TokenInv

\* A record written from a copy is no newer than the copy, and either it is
\* banned or the copy is.
LEMMA RecordForm ==
    ASSUME IInv, KInv, Only(FieldWriters), NEW s \in Sessions,
           InfoFetched(s) \/ InfoSuspended(s)
    PROVE  LET a == work[s].at
               copy == work[s].snap[a]
           IN  /\ a \in Accounts /\ work[s].pc = "info" /\ copy \in Entry
               /\ \A r \in Sessions : /\ r # s => work'[r] = work[r]
                                      /\ work'[r].snap = work[r].snap
               /\ work'[s].pc = "next" /\ UNCHANGED <<pool, issued, lapsed, born>>
               /\ \/ store' = store
                  \/ /\ store[a] # Absent
                     /\ \A b \in Accounts : b # a => store'[b] = store[b]
                     /\ store'[a] \in Entry /\ store'[a].token = copy.token
                     /\ store'[a].ban = "none" => copy.ban # "none"
<1> DEFINE a == work[s].at
           copy == work[s].snap[a]
<1>0. /\ a \in Accounts /\ work[s].pc = "info" /\ copy \in Entry
      /\ work[s] \in Work /\ work \in [Sessions -> Work]
      /\ store \in [Accounts -> Slot]
  BY FieldSessions DEF InfoFetched, InfoSuspended, InHandPcs, IInv
<1>1. /\ \A r \in Sessions : /\ r # s => work'[r] = work[r]
                             /\ work'[r].snap = work[r].snap
      /\ work'[s].pc = "next" /\ UNCHANGED <<pool, issued, lapsed, born>>
  BY <1>0 DEF InfoFetched, InfoSuspended, provider, Work
<1>2. \/ store' = store
      \/ /\ store[a] # Absent
         /\ \A b \in Accounts : b # a => store'[b] = store[b]
         /\ store'[a] \in Entry /\ store'[a].token = copy.token
         /\ store'[a].ban = "none" => copy.ban # "none"
  <2> HIDE DEF copy, a
  <2>1. /\ [copy EXCEPT !.ban = "none"] \in Entry
        /\ [copy EXCEPT !.ban = "none"].token = copy.token
        /\ [copy EXCEPT !.enabled = FALSE, !.ban = "other"] \in Entry
        /\ [copy EXCEPT !.enabled = FALSE, !.ban = "other"].token = copy.token
        /\ [copy EXCEPT !.enabled = FALSE, !.ban = "other"].ban = "other"
    BY <1>0, EntryUpdates DEF Entry
  <2>2. \/ store' = store
        \/ copy.ban # "none" /\ store' = Written(a, [copy EXCEPT !.ban = "none"])
        \/ store' = Written(a, [copy EXCEPT !.enabled = FALSE, !.ban = "other"])
    BY DEF InfoFetched, InfoSuspended, copy, a
  <2>3. \A e \in Entry : store' = Written(a, e) =>
           \/ store' = store
           \/ /\ store[a] # Absent
              /\ \A b \in Accounts : b # a => store'[b] = store[b]
              /\ store'[a] = e
    BY <1>0 DEF Written
  <2>4. CASE copy.ban # "none" /\ store' = Written(a, [copy EXCEPT !.ban = "none"])
    BY <2>1, <2>3, <2>4
  <2>5. CASE store' = Written(a, [copy EXCEPT !.enabled = FALSE, !.ban = "other"])
    BY <2>1, <2>3, <2>5
  <2> QED
    BY <2>2, <2>4, <2>5
<1> QED
  BY <1>0, <1>1, <1>2

LEMMA RecordKeepsTokens ==
    ASSUME IInv, KInv, Only(FieldWriters), TokenInv, NEW s \in Sessions,
           InfoFetched(s) \/ InfoSuspended(s)
    PROVE  TokenInv'
<1> DEFINE a == work[s].at
           copy == work[s].snap[a]
<1>0. /\ a \in Accounts /\ work[s].pc = "info" /\ copy \in Entry /\ Absent \notin Entry
  BY RecordForm, StoreAssumption
<1>1. /\ \A r \in Sessions : /\ r # s => work'[r] = work[r]
                             /\ work'[r].snap = work[r].snap
      /\ work'[s].pc = "next" /\ UNCHANGED <<issued, born>>
  BY RecordForm
<1>2. \/ store' = store
      \/ /\ store[a] # Absent
         /\ \A b \in Accounts : b # a => store'[b] = store[b]
         /\ store'[a] \in Entry /\ store'[a].token = copy.token
         /\ store'[a].ban = "none" => copy.ban # "none"
  BY RecordForm
<1> HIDE DEF a, copy
<1>3. \A r \in Sessions, b \in Accounts : Granted(r, b)' <=> Granted(r, b)
  BY <1>0, <1>1 DEF Granted
<1>4. copy.token <= issued[a] /\ copy # Absent /\ copy = work[s].snap[a]
  BY <1>0 DEF TokenInv, NoneAhead, copy
<1>5. Unborn'
  BY <1>1, <1>2 DEF TokenInv, Unborn
<1>6. NoneAhead'
  BY <1>1, <1>2, <1>4 DEF TokenInv, NoneAhead
<1>7. OneGrant'
  <2> SUFFICES ASSUME NEW r \in Sessions, NEW b \in Accounts, Granted(r, b)'
               PROVE  /\ work'[r].token = issued[b]
                      /\ store'[b] # Absent => store'[b].token # issued[b]
                      /\ \A q \in Sessions :
                            /\ work[q].snap[b] # Absent => work[q].snap[b].token # issued[b]
                            /\ Granted(q, b)' => q = r
    BY <1>1 DEF OneGrant
  <2>1. Granted(r, b) /\ r # s
    BY <1>0, <1>3 DEF Granted
  <2>2. /\ work[r].token = issued[b]
        /\ store[b] # Absent => store[b].token # issued[b]
        /\ \A q \in Sessions :
              /\ work[q].snap[b] # Absent => work[q].snap[b].token # issued[b]
              /\ Granted(q, b) => q = r
    BY <2>1 DEF TokenInv, OneGrant
  <2>3. store'[b] # Absent => store'[b].token # issued[b]
    BY <1>2, <1>4, <2>2
  <2> QED
    BY <1>1, <1>3, <2>1, <2>2, <2>3
<1>8. UpToDate'
  <2> SUFFICES ASSUME NEW b \in Accounts, store'[b] # Absent, NeverBanned(b)'
               PROVE  (\E r \in Sessions : Granted(r, b)') \/ store'[b].token = issued[b]
    BY <1>1 DEF UpToDate, Present
  <2>1. CASE store'[b] = store[b]
    <3>1. NeverBanned(b)
      BY <1>1, <2>1 DEF NeverBanned
    <3> QED
      BY <1>3, <2>1, <3>1 DEF TokenInv, UpToDate, Present
  <2>2. CASE store'[b] # store[b]
    <3>1. b = a /\ store'[a] # Absent /\ (store'[a].ban = "none" => copy.ban # "none")
      BY <1>2, <2>2
    <3>2. store'[a].ban = "none" /\ copy.ban = "none"
      BY <1>1, <1>4, <3>1 DEF NeverBanned
    <3> QED
      BY <3>1, <3>2
  <2> QED
    BY <2>1, <2>2
<1> QED
  BY <1>5, <1>6, <1>7, <1>8 DEF TokenInv

LEMMA CopyForm ==
    ASSUME IInv, KInv, NEW s \in Sessions, BeginRefresh(s)
    PROVE  /\ work[s].pc = "new" /\ work[s].snap = Blank
           /\ \A r \in Sessions : r # s => work'[r] = work[r]
           /\ work'[s].snap = store /\ work'[s].pc = "next"
           /\ UNCHANGED <<store, pool, issued, lapsed, born>>
<1>1. /\ work[s].pc = "new" /\ work[s].snap = Blank
      /\ work \in [Sessions -> Work]
  BY DEF BeginRefresh, KInv, Kinded, IInv
<1>2. PICK k, T : work' = [work EXCEPT ![s] = [NoWork EXCEPT !.pc = "next", !.kind = k,
                                                        !.snap = store, !.todo = T]]
  BY DEF BeginRefresh
<1>3. /\ \A r \in Sessions : r # s => work'[r] = work[r]
      /\ work'[s].snap = store /\ work'[s].pc = "next"
      /\ UNCHANGED <<store, pool, issued, lapsed, born>>
  BY <1>1, <1>2 DEF BeginRefresh, NoWork, provider
<1> QED
  BY <1>1, <1>3

\* Who was not banned once a copy is taken was not before.
LEMMA CopyBans ==
    ASSUME IInv, KInv, NEW s \in Sessions, BeginRefresh(s), NEW b \in Accounts, NeverBanned(b)'
    PROVE  NeverBanned(b)
<1>1. /\ work[s].snap = Blank /\ UNCHANGED store
      /\ \A r \in Sessions : r # s => work'[r] = work[r]
  BY CopyForm
<1> SUFFICES ASSUME NEW r \in Sessions, work[r].snap[b] # Absent
             PROVE  work[r].snap[b].ban = "none"
  BY <1>1 DEF NeverBanned
<1>2. r # s
  BY <1>1 DEF Blank
<1> QED
  BY <1>1, <1>2 DEF NeverBanned

LEMMA CopyKeepsTokens ==
    ASSUME IInv, KInv, Only(FieldWriters), TokenInv, NEW s \in Sessions, BeginRefresh(s)
    PROVE  TokenInv'
<1>1. work[s].pc = "new" /\ work[s].snap = Blank
  BY CopyForm
<1>2. /\ \A r \in Sessions : r # s => work'[r] = work[r]
      /\ work'[s].snap = store /\ work'[s].pc = "next"
      /\ UNCHANGED <<store, issued, born>>
  BY CopyForm
<1>3. \A r \in Sessions, b \in Accounts : Granted(r, b)' <=> Granted(r, b)
  BY <1>1, <1>2 DEF Granted
<1>4. \A r \in Sessions : work[r].pc = "granted" => r # s
  BY <1>1
<1>5. \A b \in Accounts : NeverBanned(b)' => NeverBanned(b)
  BY CopyBans
<1>6. Unborn'
  BY <1>2 DEF TokenInv, Unborn
<1>7. NoneAhead'
  BY <1>2 DEF TokenInv, NoneAhead
<1>8. OneGrant'
  BY <1>2, <1>3, <1>4 DEF TokenInv, OneGrant, Granted
<1>9. UpToDate'
  BY <1>2, <1>3, <1>5 DEF TokenInv, UpToDate, Present
<1> QED
  BY <1>6, <1>7, <1>8, <1>9 DEF TokenInv

LEMMA AddForm ==
    ASSUME IInv, Unborn, NEW s \in Sessions, AddAccount(s)
    PROVE  \E a \in Accounts \ born :
              /\ store[a] = Absent /\ \A r \in Sessions : work[r].snap[a] = Absent
              /\ work[s].pc = "new" /\ work'[s].pc = "reload"
              /\ \A r \in Sessions : /\ r # s => work'[r] = work[r]
                                     /\ work'[r].snap = work[r].snap
              /\ \A b \in Accounts : b # a => store'[b] = store[b]
              /\ store'[a] \in Entry /\ store'[a].token = issued[a] /\ store'[a].ban = "none"
              /\ born' = born \cup {a} /\ UNCHANGED <<pool, issued, lapsed>>
<1>1. PICK a \in Accounts \ born :
         /\ store' = [store EXCEPT ![a] = [enabled |-> TRUE, ban |-> "none", token |-> issued[a]]]
         /\ born' = born \cup {a}
  BY DEF AddAccount
<1>2. store[a] = Absent /\ \A r \in Sessions : work[r].snap[a] = Absent
  BY <1>1 DEF Unborn
<1>3. /\ work[s].pc = "new" /\ work[s] \in Work /\ work \in [Sessions -> Work]
      /\ store \in [Accounts -> Slot] /\ issued \in [Accounts -> Nat]
  BY DEF AddAccount, IInv
<1>4. /\ \A r \in Sessions : /\ r # s => work'[r] = work[r]
                             /\ work'[r].snap = work[r].snap
      /\ work'[s].pc = "reload" /\ UNCHANGED <<pool, issued, lapsed>>
  BY <1>3 DEF AddAccount, provider, Work
<1>5. /\ \A b \in Accounts : b # a => store'[b] = store[b]
      /\ store'[a] \in Entry /\ store'[a].token = issued[a] /\ store'[a].ban = "none"
  BY <1>1, <1>3 DEF Entry
<1> QED
  BY <1>1, <1>2, <1>3, <1>4, <1>5

LEMMA AddKeepsTokens ==
    ASSUME IInv, KInv, Only(FieldWriters), TokenInv, NEW s \in Sessions, AddAccount(s)
    PROVE  TokenInv'
<1>0. Unborn /\ Absent \notin Entry /\ issued \in [Accounts -> Nat]
  BY StoreAssumption DEF TokenInv, IInv
<1>1. PICK a \in Accounts \ born :
         /\ store[a] = Absent /\ \A r \in Sessions : work[r].snap[a] = Absent
         /\ work[s].pc = "new" /\ work'[s].pc = "reload"
         /\ \A r \in Sessions : /\ r # s => work'[r] = work[r]
                                /\ work'[r].snap = work[r].snap
         /\ \A b \in Accounts : b # a => store'[b] = store[b]
         /\ store'[a] \in Entry /\ store'[a].token = issued[a] /\ store'[a].ban = "none"
         /\ born' = born \cup {a} /\ UNCHANGED <<pool, issued, lapsed>>
  BY <1>0, AddForm
<1>2. \A r \in Sessions, b \in Accounts : Granted(r, b)' <=> Granted(r, b)
  BY <1>1 DEF Granted
<1>3. \A r \in Sessions : ~Granted(r, a)
  BY <1>0, <1>1, FieldSessions DEF Granted, InHandPcs
<1>4. Unborn'
  BY <1>1 DEF TokenInv, Unborn
<1>5. NoneAhead'
  BY <1>0, <1>1 DEF TokenInv, NoneAhead
<1>6. OneGrant'
  <2> SUFFICES ASSUME NEW r \in Sessions, NEW b \in Accounts, Granted(r, b)'
               PROVE  /\ work'[r].token = issued[b]
                      /\ store'[b] # Absent => store'[b].token # issued[b]
                      /\ \A q \in Sessions :
                            /\ work'[q].snap[b] # Absent => work'[q].snap[b].token # issued[b]
                            /\ Granted(q, b)' => q = r
    BY <1>1 DEF OneGrant
  <2>1. Granted(r, b) /\ b # a /\ r # s
    BY <1>1, <1>2, <1>3 DEF Granted
  <2> QED
    BY <1>1, <1>2, <2>1 DEF TokenInv, OneGrant
<1>7. \A b \in Accounts : b # a /\ NeverBanned(b)' => NeverBanned(b)
  BY <1>1 DEF NeverBanned
<1>8. UpToDate'
  BY <1>1, <1>2, <1>7 DEF TokenInv, UpToDate, Present
<1> QED
  BY <1>4, <1>5, <1>6, <1>8 DEF TokenInv

LEMMA DeleteForm ==
    ASSUME IInv, NEW s \in Sessions, DeleteAccount(s)
    PROVE  \E a \in Accounts :
              /\ work[s].pc = "delete" /\ work'[s].pc \in {"delete", "reload"}
              /\ \A r \in Sessions : /\ r # s => work'[r] = work[r]
                                     /\ work'[r].snap = work[r].snap
              /\ \A b \in Accounts : b # a => store'[b] = store[b]
              /\ store'[a] = Absent /\ UNCHANGED <<pool, issued, lapsed, born>>
<1>1. PICK a \in work[s].todo :
         /\ store' = [store EXCEPT ![a] = Absent]
         /\ work' = [work EXCEPT ![s].todo = @ \ {a},
                                 ![s].pc = IF work[s].todo = {a} THEN "reload" ELSE @]
  BY DEF DeleteAccount
<1>2. /\ work[s].pc = "delete" /\ work[s] \in Work /\ work \in [Sessions -> Work]
      /\ store \in [Accounts -> Slot] /\ a \in Accounts
  BY <1>1 DEF DeleteAccount, IInv, Work
<1>3. /\ \A r \in Sessions : /\ r # s => work'[r] = work[r]
                             /\ work'[r].snap = work[r].snap
      /\ work'[s].pc \in {"delete", "reload"} /\ UNCHANGED <<pool, issued, lapsed, born>>
  BY <1>1, <1>2 DEF DeleteAccount, provider, Work
<1> QED
  BY <1>1, <1>2, <1>3

LEMMA DeleteKeepsTokens ==
    ASSUME IInv, KInv, Only(FieldWriters), TokenInv, NEW s \in Sessions, DeleteAccount(s)
    PROVE  TokenInv'
<1>1. PICK a \in Accounts :
         /\ work[s].pc = "delete" /\ work'[s].pc \in {"delete", "reload"}
         /\ \A r \in Sessions : /\ r # s => work'[r] = work[r]
                                /\ work'[r].snap = work[r].snap
         /\ \A b \in Accounts : b # a => store'[b] = store[b]
         /\ store'[a] = Absent /\ UNCHANGED <<pool, issued, lapsed, born>>
  BY DeleteForm
<1>2. \A r \in Sessions, b \in Accounts : Granted(r, b)' <=> Granted(r, b)
  BY <1>1 DEF Granted
<1>3. \A r \in Sessions : work[r].pc = "granted" => r # s
  BY <1>1
<1>4. Unborn'
  BY <1>1 DEF TokenInv, Unborn
<1>5. NoneAhead'
  BY <1>1 DEF TokenInv, NoneAhead
<1>6. OneGrant'
  BY <1>1, <1>2, <1>3 DEF TokenInv, OneGrant, Granted
<1>7. \A b \in Accounts : b # a /\ NeverBanned(b)' => NeverBanned(b)
  BY <1>1 DEF NeverBanned
<1>8. UpToDate'
  BY <1>1, <1>2, <1>7 DEF TokenInv, UpToDate, Present
<1> QED
  BY <1>4, <1>5, <1>6, <1>8 DEF TokenInv


\* A reload leaves the copies alone: nobody works on a pointer into the pool.
LEMMA ReloadMoves ==
    ASSUME IInv, NEW s \in Sessions, FinalReload(s), \A r \in Sessions : ~work[r].live
    PROVE  /\ \A r \in Sessions : r # s => work'[r] = work[r]
           /\ work'[s] = [work[s] EXCEPT !.pc = "done"]
           /\ work[s].pc = "reload"
           /\ pool' = Copied(store) /\ UNCHANGED <<store, issued, lapsed, born>>
<1>1. \A r \in Sessions : Detached(work[r]) = work[r] /\ work[r] \in Work
  BY DEF Detached, IInv
<1>2. \A r \in Sessions :
         work'[r] = [work[r] EXCEPT !.pc = IF r = s THEN "done" ELSE work[r].pc]
  BY <1>1 DEF FinalReload, ReloadThen
<1>3. \A r \in Sessions : r # s => work'[r] = work[r]
  BY <1>1, <1>2 DEF Work
<1> QED
  BY <1>2, <1>3 DEF FinalReload, ReloadThen, provider

\* The steps that only move on leave every copy as it is, and the timer asks
\* for a new token only when its copy's is due.
LEMMA MoveForm ==
    ASSUME IInv, KInv, Only(FieldWriters), NEW s \in Sessions,
           BeginDelete(s) \/ NextAccount(s) \/ TokenRefused(s) \/ TokenUnreachable(s)
              \/ InfoFails(s)
    PROVE  /\ \A r \in Sessions : r # s => work'[r] = work[r]
           /\ work'[s].snap = work[s].snap
           /\ {work[s].pc, work'[s].pc} \cap {"granted", "stored"} = {}
           /\ work'[s].pc = "ask" =>
                 /\ work[s].kind \in {"background", "bulk"}
                 /\ work[s].kind = "background" => \A a \in Accounts :
                       work'[s].at = a => work'[s].snap[a].token < lapsed[a]
           /\ UNCHANGED <<store, pool, issued, lapsed, born>>
<1>0. /\ work[s] \in Work /\ work \in [Sessions -> Work] /\ Kinded(work[s])
      /\ work[s].pc \in {"ask", "next", "info"} => work[s].kind \in {"background", "bulk"}
  BY FieldSessions DEF KInv, InHandPcs
<1>1. CASE BeginDelete(s)
  <2>1. PICK T : work' = [work EXCEPT ![s] = [NoWork EXCEPT !.pc = "delete", !.kind = "delete",
                                                            !.todo = T]]
    BY <1>1 DEF BeginDelete
  <2>2. /\ \A r \in Sessions : r # s => work'[r] = work[r]
        /\ work'[s].pc = "delete" /\ work'[s].snap = Blank
    BY <1>0, <2>1 DEF NoWork
  <2>3. /\ work[s].snap = Blank /\ work[s].pc = "new"
        /\ UNCHANGED <<store, pool, issued, lapsed, born>>
    BY <1>0, <1>1 DEF BeginDelete, Kinded, provider
  <2> QED
    BY <2>2, <2>3
<1>2. CASE NextAccount(s)
  <2>1. /\ \A r \in Sessions : r # s => work'[r] = work[r]
        /\ work'[s].pc \in {"next", "ask", "info", "reload", "done"} /\ work[s].pc = "next"
    BY <1>0, <1>2, NextMoves
  <2>2. ASSUME NEW pc \in {"reload", "done"}, Through(s, pc)
        PROVE  work'[s].snap = work[s].snap /\ work'[s].pc # "ask"
    BY <1>0, <2>2 DEF Work, Through
  <2>3. ASSUME NEW b \in work[s].todo, NEW pc \in {"next", "ask", "info"},
               pc = "ask" => Asks(s, CopyOf(s, b).token, b),
               Takes(s, b, CopyOf(s, b), pc)
        PROVE  /\ work'[s].snap = work[s].snap
               /\ work'[s].pc = "ask" /\ work[s].kind = "background" =>
                     \A a \in Accounts : work'[s].at = a => work'[s].snap[a].token < lapsed[a]
    <3>1. CopyOf(s, b) = work[s].snap[b]
      BY <1>0, <2>1 DEF CopyOf
    <3>2. /\ work'[s].snap = [work[s].snap EXCEPT ![b] = work[s].snap[b]]
          /\ work'[s].at = b /\ work'[s].pc = pc
      BY <1>0, <2>3, <3>1 DEF Takes, Work
    <3>3. work'[s].snap = work[s].snap
      BY <1>0, <3>2 DEF Work
    <3>4. work[s].kind = "background" /\ pc = "ask" => work[s].snap[b].token < lapsed[b]
      BY <2>3, <3>1 DEF Asks, Plans, Due
    <3> QED
      BY <3>2, <3>3, <3>4
  <2>4. /\ work'[s].snap = work[s].snap
        /\ work'[s].pc = "ask" /\ work[s].kind = "background" =>
              \A a \in Accounts : work'[s].at = a => work'[s].snap[a].token < lapsed[a]
    BY <1>2, <2>2, <2>3, NextForm
  <2>5. UNCHANGED <<store, pool, issued, lapsed, born>>
    BY <1>2 DEF NextAccount, provider
  <2> QED
    BY <1>0, <2>1, <2>4, <2>5
<1>3. CASE TokenRefused(s) \/ TokenUnreachable(s)
  <2>1. work[s].pc = "ask" /\ work[s].kind \in Refreshes
    BY <1>0, <1>3, RefreshKinds DEF TokenRefused, TokenUnreachable
  <2>2. /\ \A r \in Sessions : r # s => work'[r] = work[r]
        /\ work'[s].pc \in {"refused", "done", "next", "info"} /\ work'[s].snap = work[s].snap
    BY <1>0, <1>3, <2>1, PlanFailed DEF TokenRefused, TokenUnreachable, Work
  <2>3. UNCHANGED <<store, pool, issued, lapsed, born>>
    BY <1>3 DEF TokenRefused, TokenUnreachable, provider
  <2> QED
    BY <2>1, <2>2, <2>3
<1>4. CASE InfoFails(s)
  <2>1. /\ \A r \in Sessions : r # s => work'[r] = work[r]
        /\ work'[s].pc = "next" /\ work[s].pc = "info"
        /\ work'[s].snap = work[s].snap
        /\ UNCHANGED <<store, pool, issued, lapsed, born>>
    BY <1>0, <1>4 DEF InfoFails, Work, provider
  <2> QED
    BY <2>1
<1> QED
  BY <1>1, <1>2, <1>3, <1>4

LEMMA PoolForm ==
    ASSUME IInv, KInv, Only(FieldWriters), NEW s \in Sessions, PoolToken(s)
    PROVE  LET a == work[s].at IN
           /\ a \in Accounts /\ work[s].pc = "stored" /\ work'[s].pc = "info"
           /\ \A r \in Sessions : r # s => work'[r] = work[r]
           /\ work'[s].snap = work[s].snap
           /\ \A b \in Accounts : b # a => pool'[b] = pool[b]
           /\ pool[a] = Absent => pool'[a] = Absent
           /\ pool[a] # Absent => pool'[a].token = work[s].token
           /\ UNCHANGED <<store, issued, lapsed, born>>
<1> DEFINE a == work[s].at
<1>1. /\ a \in Accounts /\ work[s].pc = "stored" /\ work[s].kind # "check"
      /\ work[s] \in Work /\ work \in [Sessions -> Work] /\ pool \in [Accounts -> Slot]
  BY FieldSessions DEF PoolToken, InHandPcs, IInv
<1>2. /\ \A r \in Sessions : r # s => work'[r] = work[r]
      /\ work'[s].pc = "info" /\ work'[s].snap = work[s].snap
      /\ UNCHANGED <<store, issued, lapsed, born>>
  BY <1>1 DEF PoolToken, Work, provider
<1>3. /\ \A b \in Accounts : b # a => pool'[b] = pool[b]
      /\ pool[a] = Absent => pool'[a] = Absent
      /\ pool[a] # Absent => pool'[a].token = work[s].token
  BY <1>1 DEF PoolToken, TokenWritten, Slot, Entry
<1> QED
  BY <1>1, <1>2, <1>3

LEMMA MovesKeepTokens ==
    ASSUME IInv, KInv, Only(FieldWriters), TokenInv, NEW s \in Sessions,
           BeginDelete(s) \/ NextAccount(s) \/ TokenRefused(s) \/ TokenUnreachable(s)
              \/ PoolToken(s) \/ InfoFails(s) \/ FinalReload(s)
    PROVE  TokenInv'
<1>1. ASSUME UNCHANGED <<store, issued, born>>,
             \A r \in Sessions : r # s => work'[r] = work[r],
             work'[s].snap = work[s].snap,
             work'[s].pc # "granted", work[s].pc # "granted"
      PROVE  TokenInv'
  BY <1>1, TokenFrame
<1>2. CASE PoolToken(s)
  BY <1>1, <1>2, PoolForm
<1>3. CASE FinalReload(s)
  <2>1. (\A r \in Sessions : ~work[r].live) /\ work[s] \in Work
    BY FieldSessions
  <2>2. /\ \A r \in Sessions : r # s => work'[r] = work[r]
        /\ work'[s] = [work[s] EXCEPT !.pc = "done"] /\ work[s].pc = "reload"
        /\ UNCHANGED <<store, issued, born>>
    BY <1>3, <2>1, ReloadMoves
  <2>3. work'[s].pc = "done" /\ work'[s].snap = work[s].snap
    BY <2>1, <2>2 DEF Work
  <2> QED
    BY <1>1, <2>2, <2>3
<1> QED
  BY <1>1, <1>2, <1>3, MoveForm

\* An operation of another kind has not begun.
LEMMA FieldSteps ==
    ASSUME IInv, KInv, Only(FieldWriters), Only(FieldWriters)', NEW s \in Sessions,
           Operate(s) \/ Refresh(s) \/ Serve(s) \/ Provider(s)
    PROVE  \/ AddAccount(s) \/ DeleteAccount(s) \/ BeginRefresh(s)
           \/ TokenGranted(s) \/ StoreToken(s) \/ InfoFetched(s) \/ InfoSuspended(s)
           \/ BeginDelete(s) \/ NextAccount(s) \/ TokenRefused(s) \/ TokenUnreachable(s)
           \/ PoolToken(s) \/ InfoFails(s) \/ FinalReload(s)
<1>1. work[s].pc \notin {"write", "replace", "refused", "pooled", "clear", "cleared"}
  BY FieldSessions
<1>2. work[s].pc = "granted" => work[s].kind # "serve"
  BY FieldSessions DEF InHandPcs
<1>3. work'[s].kind \notin {"edit", "remove", "serve"}
  BY StoreAssumption DEF Only, FieldWriters, Operations
<1>4. work \in [Sessions -> Work]
  BY DEF IInv
<1>5. ~BeginEdit(s) /\ ~BeginRemove(s) /\ ~BeginServe(s)
  BY <1>3, <1>4, Begun
<1> QED
  BY <1>1, <1>2, <1>5
     DEF Operate, Refresh, Serve, Provider, WriteEdit, Replace, Clear, ClearReload,
         ServeToken, ServeStore, ServeBan

\* What is known of tokens, whoever is at work.
TInv == KInv /\ (Only(FieldWriters) => TokenInv)

LEMMA NextKeepsTokens ==
    ASSUME IInv, TInv, [Next]_vars
    PROVE  TInv' /\ KindsKept
<1>0. IInv'
  BY NextKeeps
<1>1. ASSUME NEW s \in Sessions, Operate(s) \/ Refresh(s) \/ Serve(s) \/ Provider(s)
      PROVE  TInv' /\ KindsKept
  <2>1. KInv' /\ KindsKept
    BY <1>0, <1>1, StepKinds DEF TInv
  <2>2. ASSUME Only(FieldWriters)'
        PROVE  TokenInv'
    <3>1. Only(FieldWriters) /\ TokenInv /\ KInv
      BY <2>1, <2>2, OnlyBefore DEF TInv
    <3> QED
      BY <1>1, <2>2, <3>1, FieldSteps, AddKeepsTokens, DeleteKeepsTokens, CopyKeepsTokens,
         GrantKeepsTokens, StoreKeepsTokens, RecordKeepsTokens, MovesKeepTokens
  <2> QED
    BY <2>1, <2>2 DEF TInv
<1>2. ASSUME NEW a \in Accounts, Lapse(a)
      PROVE  TInv' /\ KindsKept
  <2>1. UNCHANGED <<store, issued, born, work>>
    BY <1>2 DEF Lapse
  <2>2. KInv' = KInv /\ KindsKept /\ Only(FieldWriters)' = Only(FieldWriters)
    BY <2>1 DEF KInv, KindsKept, Only
  <2>3. TokenInv => TokenInv'
    BY <2>1, TokenFrame
  <2> QED
    BY <2>2, <2>3 DEF TInv
<1>3. CASE UNCHANGED vars
  <2>1. UNCHANGED <<store, issued, born, work>>
    BY <1>3 DEF vars
  <2>2. KInv' = KInv /\ KindsKept /\ Only(FieldWriters)' = Only(FieldWriters)
    BY <2>1 DEF KInv, KindsKept, Only
  <2>3. TokenInv => TokenInv'
    BY <2>1, TokenFrame
  <2> QED
    BY <2>2, <2>3 DEF TInv
<1> QED
  BY <1>1, <1>2, <1>3 DEF Next

LEMMA InitTokens == Init => TInv
<1> SUFFICES ASSUME Init
             PROVE  TInv
  OBVIOUS
<1>1. \A s \in Sessions : work[s] = NoWork
  BY DEF Init
<1>2. KInv
  BY <1>1 DEF KInv, Kinded, NoWork
<1>3. \A a \in Accounts : store[a] \in {e \in Entry : e.token = 0} \cup {Absent}
  BY StoreAssumption DEF Init
<1>4. \A s \in Sessions, a \in Accounts : work[s].snap[a] = Absent /\ work[s].pc = "new"
  BY <1>1 DEF NoWork, Blank
<1>5. /\ \A a \in Accounts : store[a] # Absent => store[a].token = 0
      /\ \A a \in Accounts : issued[a] = 0
  BY <1>3 DEF Init
<1>6. Unborn
  BY <1>4 DEF Unborn, Init, Present
<1>7. NoneAhead /\ UpToDate
  BY <1>4, <1>5 DEF NoneAhead, UpToDate, Present
<1>8. OneGrant
  BY <1>4 DEF OneGrant, Granted
<1> QED
  BY <1>2, <1>6, <1>7, <1>8 DEF TInv, TokenInv

LEMMA TokensHold == Spec => []TInv
<1>1. IInv /\ TInv /\ [Next]_vars => TInv'
  BY NextKeepsTokens
<1> QED
  BY <1>1, InitTokens, AlwaysSound, PTL DEF Spec

\* Among operations that write single fields, a token that was exchanged is
\* written before it is lost.
THEOREM TokenIsKept == Spec => []TokenKept
<1>1. TInv => TokenKept
  BY DEF TInv, TokenInv, UpToDate, TokenKept, FieldWriters, Granted, InHand
<1> QED
  BY <1>1, TokensHold, PTL

-----------------------------------------------------------------------------
(* The pool's tokens, while only the timer refreshes.                      *)

TimerWriters == {"background", "delete", "add"}

\* Some session has the token of the provider and the pool may not.
Busy(s, a) == work[s].at = a /\ work[s].pc \in {"granted", "stored"}

Lapsing == \A a \in Accounts : lapsed[a] <= issued[a] + 1

\* Who asks for a new token holds one that is due.
Asking == \A s \in Sessions, a \in Accounts :
             work[s].at = a /\ work[s].pc = "ask" => work[s].snap[a].token < lapsed[a]

\* A token that has just been issued is not due, so nobody else asks for one.
OneRefresh == \A s \in Sessions, a \in Accounts : Busy(s, a) =>
                 /\ lapsed[a] <= issued[a] /\ work[s].token = issued[a]
                 /\ \A r \in Sessions : Busy(r, a) => r = s

SameToken(a) == (\E s \in Sessions : Busy(s, a)) \/ pool[a].token = store[a].token

PoolUpToDate == \A a \in Present(store) \cap Present(pool) : NeverBanned(a) => SameToken(a)

UnbornPool == \A a \in Accounts \ born : pool[a] = Absent

PoolInv == Lapsing /\ Asking /\ OneRefresh /\ PoolUpToDate /\ UnbornPool

\* Session s moves where it has no new token; every account that is not
\* banned agrees as it did, or does now.
LEMMA PoolFrame ==
    ASSUME PoolInv, NEW s \in Sessions, UNCHANGED <<issued, lapsed>>,
           \A r \in Sessions : r # s => work'[r] = work[r],
           {work[s].pc, work'[s].pc} \cap {"granted", "stored"} = {},
           work'[s].pc = "ask" => \A a \in Accounts :
              work'[s].at = a => work'[s].snap[a].token < lapsed[a],
           \A a \in Accounts : NeverBanned(a)' /\ store'[a] # Absent /\ pool'[a] # Absent =>
              \/ pool'[a].token = store'[a].token
              \/ NeverBanned(a) /\ store'[a] = store[a] /\ pool'[a] = pool[a],
           \A a \in Accounts \ born' : pool'[a] = Absent
    PROVE  PoolInv'
<1>1. \A r \in Sessions, a \in Accounts :
         /\ Busy(r, a)' <=> Busy(r, a)
         /\ Busy(r, a) => work'[r].token = work[r].token
  BY DEF Busy
<1>2. Lapsing'
  BY DEF PoolInv, Lapsing
<1>3. Asking'
  BY DEF PoolInv, Asking
<1>4. OneRefresh'
  BY <1>1 DEF PoolInv, OneRefresh
<1>5. PoolUpToDate'
  <2> SUFFICES ASSUME NEW a \in Accounts, store'[a] # Absent, pool'[a] # Absent, NeverBanned(a)'
               PROVE  (\E r \in Sessions : Busy(r, a)') \/ pool'[a].token = store'[a].token
    BY DEF PoolUpToDate, Present, SameToken
  <2>1. CASE NeverBanned(a) /\ store'[a] = store[a] /\ pool'[a] = pool[a]
    BY <1>1, <2>1 DEF PoolInv, PoolUpToDate, Present, SameToken
  <2> QED
    BY <2>1
<1>6. UnbornPool'
  BY DEF UnbornPool
<1> QED
  BY <1>2, <1>3, <1>4, <1>5, <1>6 DEF PoolInv

LEMMA GrantKeepsPool ==
    ASSUME IInv, KInv, Only(FieldWriters), PoolInv, NEW s \in Sessions, TokenGranted(s)
    PROVE  PoolInv'
<1> DEFINE a == work[s].at
<1>0. /\ a \in Accounts /\ work[s].pc = "ask" /\ work[s].snap[a].token = issued[a]
      /\ issued \in [Accounts -> Nat] /\ lapsed \in [Accounts -> Nat]
  BY GrantForm DEF IInv
<1>1. /\ \A r \in Sessions : r # s => work'[r] = work[r]
      /\ work'[s].pc = "granted" /\ work'[s].at = a /\ work'[s].token = issued[a] + 1
      /\ work'[s].snap = work[s].snap
      /\ issued'[a] = issued[a] + 1 /\ \A b \in Accounts : b # a => issued'[b] = issued[b]
      /\ UNCHANGED <<store, pool, lapsed, born>>
  BY GrantForm
<1>2. \A r \in Sessions : ~Busy(r, a)
  BY <1>0 DEF PoolInv, OneRefresh, Asking
<1> HIDE DEF a
<1>3. \A r \in Sessions, b \in Accounts :
         /\ Busy(r, b)' <=> (IF b = a THEN r = s ELSE Busy(r, b))
         /\ Busy(r, b) => r # s /\ work'[r].token = work[r].token
  BY <1>0, <1>1, <1>2 DEF Busy
<1>4. \A b \in Accounts : NeverBanned(b)' <=> NeverBanned(b)
  BY <1>1 DEF NeverBanned
<1>5. Lapsing'
  BY <1>0, <1>1 DEF PoolInv, Lapsing
<1>6. Asking'
  BY <1>1 DEF PoolInv, Asking
<1>7. OneRefresh'
  <2> SUFFICES ASSUME NEW r \in Sessions, NEW b \in Accounts, Busy(r, b)'
               PROVE  /\ lapsed'[b] <= issued'[b] /\ work'[r].token = issued'[b]
                      /\ \A q \in Sessions : Busy(q, b)' => q = r
    BY DEF OneRefresh
  <2>1. CASE b = a
    BY <1>0, <1>1, <1>3, <2>1 DEF PoolInv, Lapsing
  <2>2. CASE b # a
    BY <1>1, <1>3, <2>2 DEF PoolInv, OneRefresh
  <2> QED
    BY <2>1, <2>2
<1>8. PoolUpToDate'
  BY <1>1, <1>3, <1>4 DEF PoolInv, PoolUpToDate, Present, SameToken
<1>9. UnbornPool'
  BY <1>1 DEF PoolInv, UnbornPool
<1> QED
  BY <1>5, <1>6, <1>7, <1>8, <1>9 DEF PoolInv

LEMMA StoreKeepsPool ==
    ASSUME IInv, KInv, Only(FieldWriters), PoolInv, NEW s \in Sessions, StoreToken(s)
    PROVE  PoolInv'
<1> DEFINE a == work[s].at
<1>0. a \in Accounts /\ Busy(s, a) /\ work[s].token = issued[a] /\ work[s].pc = "granted"
  BY FieldSessions DEF StoreToken, InHandPcs, PoolInv, OneRefresh, Busy
<1>1. /\ \A r \in Sessions : r # s => work'[r] = work[r]
      /\ work'[s].pc = "stored" /\ work'[s].at = a /\ work'[s].token = issued[a]
      /\ UNCHANGED <<pool, issued, lapsed, born>>
      /\ \A b \in Accounts : b # a => work'[s].snap[b] = work[s].snap[b]
      /\ \A b \in Accounts : b # a => store'[b] = store[b]
  BY <1>0, StoreForm
<1> HIDE DEF a
<1>2. \A r \in Sessions, b \in Accounts :
         /\ Busy(r, b)' <=> Busy(r, b)
         /\ Busy(r, b) => work'[r].token = work[r].token
  BY <1>0, <1>1 DEF Busy
<1>3. \A b \in Accounts : b # a /\ NeverBanned(b)' => NeverBanned(b)
  BY <1>1 DEF NeverBanned
<1>4. Lapsing'
  BY <1>1 DEF PoolInv, Lapsing
<1>5. Asking'
  BY <1>1 DEF PoolInv, Asking
<1>6. OneRefresh'
  BY <1>1, <1>2 DEF PoolInv, OneRefresh
<1>7. PoolUpToDate'
  BY <1>0, <1>1, <1>2, <1>3 DEF PoolInv, PoolUpToDate, Present, SameToken
<1>8. UnbornPool'
  BY <1>1 DEF PoolInv, UnbornPool
<1> QED
  BY <1>4, <1>5, <1>6, <1>7, <1>8 DEF PoolInv

\* The token that goes to the pool is the one the configuration has.
LEMMA PoolTokenKeepsPool ==
    ASSUME IInv, KInv, Only(FieldWriters), TokenInv, PoolInv, NEW s \in Sessions, PoolToken(s)
    PROVE  PoolInv'
<1> DEFINE a == work[s].at
<1>1. /\ a \in Accounts /\ work[s].pc = "stored" /\ work'[s].pc = "info"
      /\ \A r \in Sessions : r # s => work'[r] = work[r]
      /\ work'[s].snap = work[s].snap
      /\ \A b \in Accounts : b # a => pool'[b] = pool[b]
      /\ pool[a] = Absent => pool'[a] = Absent
      /\ pool[a] # Absent => pool'[a].token = work[s].token
      /\ UNCHANGED <<store, issued, lapsed, born>>
  BY PoolForm
<1>2. Busy(s, a) /\ work[s].token = issued[a]
  BY <1>1 DEF Busy, PoolInv, OneRefresh
<1> HIDE DEF a
<1>3. \A r \in Sessions : ~Granted(r, a)
  BY <1>1, <1>2 DEF PoolInv, OneRefresh, Busy, Granted
<1>4. \A b \in Accounts : NeverBanned(b)' <=> NeverBanned(b)
  BY <1>1 DEF NeverBanned
<1>5. \A r \in Sessions, b \in Accounts :
         /\ Busy(r, b)' <=> Busy(r, b) /\ r # s
         /\ Busy(r, b) /\ r # s => work'[r].token = work[r].token
  BY <1>1 DEF Busy
<1>6. Lapsing'
  BY <1>1 DEF PoolInv, Lapsing
<1>7. Asking'
  BY <1>1 DEF PoolInv, Asking
<1>8. OneRefresh'
  BY <1>1, <1>5 DEF PoolInv, OneRefresh
<1>9. PoolUpToDate'
  <2> SUFFICES ASSUME NEW b \in Accounts, store[b] # Absent, pool'[b] # Absent, NeverBanned(b)
               PROVE  (\E r \in Sessions : Busy(r, b)') \/ pool'[b].token = store[b].token
    BY <1>1, <1>4 DEF PoolUpToDate, Present, SameToken
  <2>1. CASE b = a
    <3>1. store[a].token = issued[a]
      BY <1>3, <2>1 DEF TokenInv, UpToDate, Present
    <3> QED
      BY <1>1, <1>2, <2>1, <3>1
  <2>2. CASE b # a
    <3>1. pool'[b] = pool[b] /\ \A r \in Sessions : Busy(r, b) => r # s
      BY <1>1, <1>2, <2>2 DEF Busy
    <3> QED
      BY <1>5, <3>1 DEF PoolInv, PoolUpToDate, Present, SameToken
  <2> QED
    BY <2>1, <2>2
<1>10. UnbornPool'
  BY <1>1 DEF PoolInv, UnbornPool
<1> QED
  BY <1>6, <1>7, <1>8, <1>9, <1>10 DEF PoolInv

LEMMA RestKeepsPool ==
    ASSUME IInv, KInv, Only(FieldWriters), TokenInv, PoolInv, NEW s \in Sessions,
           work[s].kind # "bulk",
           AddAccount(s) \/ DeleteAccount(s) \/ BeginRefresh(s) \/ InfoFetched(s)
              \/ InfoSuspended(s) \/ BeginDelete(s) \/ NextAccount(s) \/ TokenRefused(s)
              \/ TokenUnreachable(s) \/ InfoFails(s) \/ FinalReload(s)
    PROVE  PoolInv'
<1>1. CASE AddAccount(s)
  <2>1. PICK a \in Accounts \ born :
           /\ work[s].pc = "new" /\ work'[s].pc = "reload"
           /\ \A r \in Sessions : /\ r # s => work'[r] = work[r]
                                  /\ work'[r].snap = work[r].snap
           /\ \A b \in Accounts : b # a => store'[b] = store[b]
           /\ born' = born \cup {a} /\ UNCHANGED <<pool, issued, lapsed>>
    BY <1>1, AddForm DEF TokenInv
  <2>2. \A b \in Accounts : b # a /\ NeverBanned(b)' => NeverBanned(b)
    BY <2>1 DEF NeverBanned
  <2>3. pool'[a] = Absent /\ \A b \in Accounts \ born' : pool'[b] = Absent
    BY <2>1 DEF PoolInv, UnbornPool
  <2> QED
    BY <2>1, <2>2, <2>3, PoolFrame
<1>2. CASE DeleteAccount(s)
  <2>1. PICK a \in Accounts :
           /\ work[s].pc = "delete" /\ work'[s].pc \in {"delete", "reload"}
           /\ \A r \in Sessions : /\ r # s => work'[r] = work[r]
                                  /\ work'[r].snap = work[r].snap
           /\ \A b \in Accounts : b # a => store'[b] = store[b]
           /\ store'[a] = Absent /\ UNCHANGED <<pool, issued, lapsed, born>>
    BY <1>2, DeleteForm
  <2>2. \A b \in Accounts : b # a /\ NeverBanned(b)' => NeverBanned(b)
    BY <2>1 DEF NeverBanned
  <2>3. \A b \in Accounts \ born' : pool'[b] = Absent
    BY <2>1 DEF PoolInv, UnbornPool
  <2> QED
    BY <2>1, <2>2, <2>3, PoolFrame
<1>3. CASE BeginRefresh(s)
  <2>1. \A b \in Accounts : NeverBanned(b)' => NeverBanned(b)
    BY <1>3, CopyBans
  <2>2. /\ \A r \in Sessions : r # s => work'[r] = work[r]
        /\ work[s].pc = "new" /\ work'[s].pc = "next"
        /\ UNCHANGED <<store, pool, issued, lapsed, born>>
    BY <1>3, CopyForm
  <2>3. \A b \in Accounts \ born' : pool'[b] = Absent
    BY <2>2 DEF PoolInv, UnbornPool
  <2> QED
    BY <2>1, <2>2, <2>3, PoolFrame
<1>4. CASE InfoFetched(s) \/ InfoSuspended(s)
  <2> DEFINE a == work[s].at
             copy == work[s].snap[a]
  <2>1. /\ a \in Accounts /\ work[s].pc = "info" /\ copy \in Entry
        /\ \A r \in Sessions : /\ r # s => work'[r] = work[r]
                               /\ work'[r].snap = work[r].snap
        /\ work'[s].pc = "next" /\ UNCHANGED <<pool, issued, lapsed, born>>
        /\ \/ store' = store
           \/ /\ store[a] # Absent
              /\ \A b \in Accounts : b # a => store'[b] = store[b]
              /\ store'[a] \in Entry /\ store'[a].token = copy.token
              /\ store'[a].ban = "none" => copy.ban # "none"
    BY <1>4, RecordForm
  <2>2. ASSUME NEW b \in Accounts, NeverBanned(b)', store'[b] # Absent
        PROVE  NeverBanned(b) /\ store'[b] = store[b]
    <3>1. CASE store'[b] = store[b]
      BY <2>1, <2>2, <3>1 DEF NeverBanned
    <3>2. CASE store'[b] # store[b]
      <4>1. b = a /\ store'[a] \in Entry /\ (store'[a].ban = "none" => copy.ban # "none")
        BY <2>1, <3>2
      <4>2. store'[a].ban = "none" /\ copy.ban = "none"
        BY <2>1, <2>2, <4>1, StoreAssumption DEF NeverBanned
      <4> QED
        BY <4>1, <4>2
    <3> QED
      BY <3>1, <3>2
  <2> HIDE DEF a, copy
  <2>3. \A b \in Accounts \ born' : pool'[b] = Absent
    BY <2>1 DEF PoolInv, UnbornPool
  <2> QED
    BY <2>1, <2>2, <2>3, PoolFrame
<1>5. CASE BeginDelete(s) \/ NextAccount(s) \/ TokenRefused(s) \/ TokenUnreachable(s)
              \/ InfoFails(s)
  <2>1. /\ \A r \in Sessions : r # s => work'[r] = work[r]
        /\ work'[s].snap = work[s].snap
        /\ {work[s].pc, work'[s].pc} \cap {"granted", "stored"} = {}
        /\ work'[s].pc = "ask" => \A a \in Accounts :
              work'[s].at = a => work'[s].snap[a].token < lapsed[a]
        /\ UNCHANGED <<store, pool, issued, lapsed, born>>
    BY <1>5, MoveForm
  <2>2. \A b \in Accounts : NeverBanned(b)' => NeverBanned(b)
    BY <2>1 DEF NeverBanned
  <2>3. \A b \in Accounts \ born' : pool'[b] = Absent
    BY <2>1 DEF PoolInv, UnbornPool
  <2> QED
    BY <2>1, <2>2, <2>3, PoolFrame
<1>6. CASE FinalReload(s)
  <2>1. /\ \A r \in Sessions : ~work[r].live
        /\ work[s] \in Work
    BY FieldSessions
  <2>2. /\ \A r \in Sessions : r # s => work'[r] = work[r]
        /\ work'[s].pc = "done" /\ work[s].pc = "reload"
        /\ pool' = Copied(store) /\ UNCHANGED <<store, issued, lapsed, born>>
    BY <1>6, <2>1, ReloadMoves DEF Work
  <2>3. \A b \in Accounts : pool'[b] # Absent => pool'[b] = store[b]
    BY <2>2 DEF Copied
  <2>4. \A b \in Accounts \ born' : pool'[b] = Absent
    BY <2>2, <2>3 DEF TokenInv, Unborn
  <2> QED
    BY <2>2, <2>3, <2>4, PoolFrame
<1> QED
  BY <1>1, <1>2, <1>3, <1>4, <1>5, <1>6

LEMMA LapseKeepsPool ==
    ASSUME IInv, KInv, Only(FieldWriters), PoolInv, NEW a \in Accounts, Lapse(a)
    PROVE  PoolInv'
<1>1. /\ \A s \in Sessions : ~Busy(s, a)
      /\ lapsed'[a] = issued[a] + 1 /\ \A b \in Accounts : b # a => lapsed'[b] = lapsed[b]
      /\ UNCHANGED <<store, pool, issued, born, work>>
      /\ issued \in [Accounts -> Nat] /\ lapsed \in [Accounts -> Nat]
  BY DEF Lapse, Refreshing, Busy, IInv
<1>2. \A r \in Sessions, b \in Accounts : Busy(r, b)' <=> Busy(r, b)
  BY <1>1 DEF Busy
<1>3. \A b \in Accounts : NeverBanned(b)' <=> NeverBanned(b)
  BY <1>1 DEF NeverBanned
<1>4. Lapsing'
  BY <1>1 DEF PoolInv, Lapsing
<1>5. Asking'
  <2>1. \A b \in Accounts : \A t \in Nat : t < lapsed[b] => t < lapsed'[b]
    BY <1>1 DEF PoolInv, Lapsing
  <2>2. \A s \in Sessions, b \in Accounts : 
           work[s].at = b /\ work[s].pc = "ask" => work[s].snap[b].token \in Nat
    BY FieldSessions DEF InHandPcs, Entry
  <2> QED
    BY <1>1, <2>1, <2>2 DEF PoolInv, Asking
<1>6. OneRefresh'
  BY <1>1, <1>2 DEF PoolInv, OneRefresh
<1>7. PoolUpToDate'
  BY <1>1, <1>2, <1>3 DEF PoolInv, PoolUpToDate, Present, SameToken
<1>8. UnbornPool'
  BY <1>1 DEF PoolInv, UnbornPool
<1> QED
  BY <1>4, <1>5, <1>6, <1>7, <1>8 DEF PoolInv

PInv == Only(TimerWriters) => PoolInv

LEMMA NextKeepsPool ==
    ASSUME IInv, TInv, PInv, [Next]_vars
    PROVE  PInv'
<1> SUFFICES ASSUME Only(TimerWriters)'
             PROVE  PoolInv'
  BY DEF PInv
<1>1. IInv' /\ TInv' /\ KindsKept
  BY NextKeeps, NextKeepsTokens
<1>2. /\ Only(TimerWriters) /\ PoolInv
      /\ Only(FieldWriters) /\ Only(FieldWriters)' /\ TokenInv /\ KInv
  <2>1. Only(TimerWriters)
    BY <1>1, OnlyBefore
  <2> QED
    BY <2>1 DEF Only, TimerWriters, FieldWriters, PInv, TInv
<1>3. \A s \in Sessions : work[s].kind # "bulk"
  BY <1>2, StoreAssumption, RefreshKinds DEF Only, TimerWriters, Operations
<1>4. ASSUME NEW s \in Sessions, Operate(s) \/ Refresh(s) \/ Serve(s) \/ Provider(s)
      PROVE  PoolInv'
  BY <1>2, <1>3, <1>4, FieldSteps, GrantKeepsPool, StoreKeepsPool, PoolTokenKeepsPool,
     RestKeepsPool
<1>5. ASSUME NEW a \in Accounts, Lapse(a)
      PROVE  PoolInv'
  BY <1>2, <1>5, LapseKeepsPool
<1>6. CASE UNCHANGED vars
  <2>1. UNCHANGED <<store, pool, issued, lapsed, born, work>>
    BY <1>6 DEF vars
  <2>2. \A s \in Sessions, a \in Accounts : Busy(s, a)' <=> Busy(s, a)
    BY <2>1 DEF Busy
  <2>3. \A a \in Accounts : (NeverBanned(a)' <=> NeverBanned(a)) /\ SameToken(a)' = SameToken(a)
    BY <2>1 DEF NeverBanned, SameToken, Busy
  <2>4. (Lapsing /\ Asking /\ UnbornPool)'
    BY <1>2, <2>1 DEF PoolInv, Lapsing, Asking, UnbornPool
  <2>5. OneRefresh'
    BY <1>2, <2>1, <2>2 DEF PoolInv, OneRefresh
  <2>6. PoolUpToDate'
    BY <1>2, <2>1, <2>3 DEF PoolInv, PoolUpToDate, Present
  <2> QED
    BY <2>4, <2>5, <2>6 DEF PoolInv
<1> QED
  BY <1>4, <1>5, <1>6 DEF Next

LEMMA InitPool == Init => PInv
<1> SUFFICES ASSUME Init
             PROVE  PoolInv
  BY DEF PInv
<1>1. /\ \A s \in Sessions : work[s].pc = "new"
      /\ \A a \in Accounts : issued[a] = 0 /\ lapsed[a] = 0
  BY DEF Init, NoWork
<1>2. \A a \in Accounts : pool[a] # Absent => pool[a] = store[a]
  BY DEF Init, Copied
<1>3. Lapsing /\ Asking /\ OneRefresh
  BY <1>1 DEF Lapsing, Asking, OneRefresh, Busy
<1>4. PoolUpToDate
  BY <1>2 DEF PoolUpToDate, Present, SameToken
<1>5. UnbornPool
  BY <1>2 DEF UnbornPool, Init, Present
<1> QED
  BY <1>3, <1>4, <1>5 DEF PoolInv

\* While only the timer refreshes tokens, the pool is never left with another
\* token than the configuration's, however reloads fall between the writes.
THEOREM PoolGetsToken == Spec => []PoolHasToken
<1>1. IInv /\ TInv /\ PInv /\ [Next]_vars => PInv'
  BY NextKeepsPool
<1>2. PInv => PoolHasToken
  <2> SUFFICES ASSUME PoolInv, NEW a \in Present(store) \cap Present(pool), NeverBanned(a)
               PROVE  Refreshing(a) \/ pool[a].token = store[a].token
    BY DEF PInv, PoolHasToken, TimerWriters
  <2>1. SameToken(a)
    BY DEF PoolInv, PoolUpToDate
  <2> QED
    BY <2>1 DEF SameToken, Busy, Refreshing
<1> QED
  BY <1>1, <1>2, InitPool, TokensHold, AlwaysSound, PTL DEF Spec

-----------------------------------------------------------------------------
(* The pool's members and bans.                                            *)

Reloaders == AllBut({"single", "check"})

\* Such an operation may have changed the configuration since the last
\* reload, and will reload.
Dirty(w) == IF w.kind = "serve" THEN w.pc \in {"cleared", "reload"}
            ELSE w.pc \notin {"new", "done"}

Agree == \A a \in Accounts : LET c == Copied(store)[a] IN
            /\ pool[a] = Absent <=> c = Absent
            /\ c # Absent => pool[a].ban = c.ban

FInv == Only(Reloaders) => Agree \/ \E s \in Sessions : Dirty(work[s])

\* Writing a token changes neither who is there, nor who is enabled or banned.
Alike(f, g) == \A a \in Accounts :
    /\ g[a] = Absent <=> f[a] = Absent
    /\ f[a] # Absent => g[a].enabled = f[a].enabled /\ g[a].ban = f[a].ban

LEMMA TokenAlike ==
    ASSUME NEW f \in [Accounts -> Slot], NEW a \in Accounts, NEW t \in Nat
    PROVE  Alike(f, TokenWritten(f, a, t))
<1>1. ASSUME NEW b \in Accounts, f[b] # Absent
      PROVE  LET g == TokenWritten(f, a, t)[b] IN g.enabled = f[b].enabled /\ g.ban = f[b].ban
  <2>1. f[b] \in Entry
    BY <1>1 DEF Slot
  <2>2. CASE f[a] # Absent /\ b = a
    <3>1. TokenWritten(f, a, t)[b] = [f[b] EXCEPT !.token = t]
      BY <2>2 DEF TokenWritten
    <3> QED
      BY <2>1, <3>1 DEF Entry
  <2>3. CASE f[a] = Absent \/ b # a
    BY <2>3 DEF TokenWritten
  <2> QED
    BY <2>2, <2>3
<1> QED
  BY <1>1, TokenWrittenKeeps DEF Alike

LEMMA AlikeAgrees ==
    ASSUME IInv, Agree, Alike(store, store'), Alike(pool, pool')
    PROVE  Agree'
<1> SUFFICES ASSUME NEW a \in Accounts
             PROVE  LET c == Copied(store')[a] IN
                    /\ pool'[a] = Absent <=> c = Absent
                    /\ c # Absent => pool'[a].ban = c.ban
  BY DEF Agree
<1>1. /\ Copied(store)[a] = IF store[a] # Absent /\ store[a].enabled THEN store[a] ELSE Absent
      /\ Copied(store')[a] = IF store'[a] # Absent /\ store'[a].enabled THEN store'[a]
                             ELSE Absent
  BY DEF Copied, Present
<1>2. /\ pool[a] = Absent <=> Copied(store)[a] = Absent
      /\ Copied(store)[a] # Absent => pool[a].ban = Copied(store)[a].ban
  BY DEF Agree
<1>3. /\ store'[a] = Absent <=> store[a] = Absent
      /\ store[a] # Absent => store'[a].enabled = store[a].enabled /\ store'[a].ban = store[a].ban
      /\ pool'[a] = Absent <=> pool[a] = Absent
      /\ pool[a] # Absent => pool'[a].ban = pool[a].ban
  BY DEF Alike
<1> QED
  BY <1>1, <1>2, <1>3

\* Every step is one of an operation that will reload, reloads, or leaves the
\* members and the bans alone.
StillDirty(s) == Dirty(work'[s])

Reloaded == pool' = Copied(store')

LeftAlone(s) ==
    /\ Alike(store, store') /\ Alike(pool, pool')
    /\ ~Dirty(work[s])
    /\ \A r \in Sessions : r # s => work'[r] = work[r]

LEMMA OperateCatches ==
    ASSUME IInv, KInv, NEW s \in Sessions, Operate(s)
    PROVE  StillDirty(s) \/ Reloaded
<1>0. work[s] \in Work /\ work \in [Sessions -> Work] /\ Sound(work[s], pool) /\ Kinded(work[s])
  BY DEF IInv, KInv
<1>1. CASE BeginEdit(s) \/ BeginDelete(s) \/ BeginRemove(s)
  <2>1. /\ work'[s].pc \in {"write", "delete", "replace"}
        /\ work'[s].kind \in {"edit", "delete", "remove"}
    BY <1>0, <1>1, Begun
  <2> QED
    BY <2>1 DEF Dirty, StillDirty
<1>2. CASE WriteEdit(s)
  <2>1. PICK a : work' = [work EXCEPT ![s].todo = @ \ {a},
                            ![s].pc = IF work[s].todo = {a} THEN "reload" ELSE @]
    BY <1>2 DEF WriteEdit
  <2>2. work'[s].pc \in {"write", "reload"} /\ work'[s].kind = "edit"
    BY <1>0, <1>2, <2>1 DEF Work, WriteEdit, Kinded
  <2> QED
    BY <2>2 DEF Dirty, StillDirty
<1>3. CASE DeleteAccount(s)
  <2>1. PICK a : work' = [work EXCEPT ![s].todo = @ \ {a},
                            ![s].pc = IF work[s].todo = {a} THEN "reload" ELSE @]
    BY <1>3 DEF DeleteAccount
  <2>2. work'[s].pc \in {"delete", "reload"} /\ work'[s].kind = "delete"
    BY <1>0, <1>3, <2>1 DEF Work, DeleteAccount, Sound
  <2> QED
    BY <2>2 DEF Dirty, StillDirty
<1>4. CASE Replace(s) \/ AddAccount(s)
  <2>1. work'[s].pc = "reload"
    BY <1>0, <1>4 DEF Work, Replace, AddAccount
  <2> QED
    BY <2>1 DEF Dirty, StillDirty
<1>5. CASE FinalReload(s)
  BY <1>5 DEF FinalReload, ReloadThen, Reloaded
<1> QED
  BY <1>1, <1>2, <1>3, <1>4, <1>5 DEF Operate

LEMMA RefreshCatches ==
    ASSUME IInv, KInv, Only(Reloaders), Only(Reloaders)', NEW s \in Sessions, Refresh(s)
    PROVE  StillDirty(s) \/ Reloaded \/ LeftAlone(s)
<1>0. /\ work[s] \in Work /\ work \in [Sessions -> Work] /\ Sound(work[s], pool)
      /\ Kinded(work[s])
      /\ work[s].kind \notin {"single", "check"}
      /\ "serve" \notin Refreshes
  BY RefreshKinds, StoreAssumption DEF IInv, KInv, Only, Reloaders, AllBut, Operations
<1>1. ASSUME work'[s].kind \in Refreshes, work'[s].pc \notin {"new", "done"}
      PROVE  StillDirty(s)
  BY <1>0, <1>1 DEF Dirty, StillDirty
<1>2. CASE BeginRefresh(s)
  <2>1. work'[s].kind \in Refreshes /\ work'[s].pc = "next"
    BY <1>0, <1>2, Begun
  <2> QED
    BY <1>1, <2>1
<1>3. CASE NextAccount(s)
  <2>1. work[s].pc = "next" /\ work[s].kind \in Refreshes /\ work'[s].kind = work[s].kind
    BY <1>0, <1>3, NextMoves DEF Sound
  <2>2. Plans[work[s].kind].reload
    BY <1>0, <2>1, RefreshKinds DEF Plans
  <2>3. ASSUME Through(s, "reload") PROVE work'[s].pc # "done" /\ work'[s].pc # "new"
    BY <1>0, <2>3 DEF Work, Through
  <2>4. ASSUME NEW a \in work[s].todo, NEW pc \in {"next", "ask", "info"},
               Takes(s, a, CopyOf(s, a), pc)
        PROVE  work'[s].pc # "done" /\ work'[s].pc # "new"
    BY <1>0, <2>4 DEF Work, Takes
  <2>5. work'[s].pc # "done" /\ work'[s].pc # "new"
    BY <1>3, <2>2, <2>3, <2>4, NextForm
  <2> QED
    BY <1>1, <2>1, <2>5
<1>4. CASE StoreToken(s) \/ PoolToken(s) \/ InfoFetched(s) \/ InfoSuspended(s) \/ InfoFails(s)
  <2>1. work[s].kind \in Refreshes
    BY <1>0, <1>4
       DEF Sound, InHandPcs, StoreToken, PoolToken, InfoFetched, InfoSuspended, InfoFails
  <2>2. /\ work'[s].pc \in {"stored", "clear", "info", "next", "ask"}
        /\ work'[s].kind = work[s].kind
    BY <1>0, <1>4 DEF Work, StoreToken, PoolToken, InfoFetched, InfoSuspended, InfoFails
  <2> QED
    BY <1>1, <2>1, <2>2
<1>5. CASE Clear(s)
  <2>1. work[s].kind = "serve" /\ work[s].pc = "clear"
    BY <1>0, <1>5 DEF Clear, Kinded
  <2>2. \/ work'[s].pc = "cleared" /\ work'[s].kind = "serve"
        \/ UNCHANGED <<store, pool>> /\ \A r \in Sessions : r # s => work'[r] = work[r]
    BY <1>0, <1>5, <2>1 DEF Clear, Work
  <2> QED
    BY <2>1, <2>2 DEF StillDirty, Dirty, LeftAlone, Alike
<1>6. CASE ClearReload(s)
  BY <1>6 DEF ClearReload, ReloadThen, Reloaded
<1> QED
  BY <1>2, <1>3, <1>4, <1>5, <1>6 DEF Refresh

LEMMA ServeCatches ==
    ASSUME IInv, KInv, NEW s \in Sessions, Serve(s) \/ Provider(s)
    PROVE  StillDirty(s) \/ LeftAlone(s)
<1>0. /\ work[s] \in Work /\ work \in [Sessions -> Work] /\ Sound(work[s], pool)
      /\ Kinded(work[s]) /\ store \in [Accounts -> Slot] /\ pool \in [Accounts -> Slot]
      /\ "serve" \notin Refreshes
  BY RefreshKinds DEF IInv, KInv
<1>1. CASE BeginServe(s)
  <2>1. work[s].pc = "new" /\ UNCHANGED <<store, pool>>
    BY <1>1 DEF BeginServe
  <2>2. \A r \in Sessions : r # s => work'[r] = work[r]
    BY <1>1 DEF BeginServe
  <2> QED
    BY <2>1, <2>2 DEF Dirty, LeftAlone, Alike
<1>2. CASE ServeToken(s)
  <2>1. /\ \A r \in Sessions : r # s => work'[r] = work[r]
        /\ work[s].pc = "granted" /\ work[s].kind = "serve" /\ UNCHANGED store
    BY <1>0, <1>2 DEF ServeToken
  <2>2. work[s].at \in Accounts /\ work[s].token \in Nat
    BY <1>0, <2>1 DEF Sound, Work, InHandPcs
  <2>3. Alike(pool, pool')
    BY <1>0, <1>2, <2>2, TokenAlike DEF ServeToken
  <2> QED
    BY <2>1, <2>3 DEF Dirty, LeftAlone, Alike
<1>3. CASE ServeStore(s)
  <2>1. /\ \A r \in Sessions : r # s => work'[r] = work[r]
        /\ work[s].pc = "pooled" /\ work[s].kind = "serve" /\ UNCHANGED pool
    BY <1>0, <1>3 DEF ServeStore, Kinded
  <2>2. work[s].at \in Accounts /\ work[s].token \in Nat
    BY <1>0, <2>1 DEF Sound, Work, InHandPcs
  <2>3. Alike(store, store')
    BY <1>0, <1>3, <2>2, TokenAlike DEF ServeStore
  <2> QED
    BY <2>1, <2>3 DEF Dirty, LeftAlone, Alike
<1>4. CASE ServeBan(s)
  <2>1. work'[s].pc = "reload"
    BY <1>0, <1>4 DEF ServeBan, Work
  <2> QED
    BY <2>1 DEF Dirty, StillDirty
<1>5. CASE Provider(s)
  <2>1. work[s].pc = "ask" /\ work[s].kind \in Refreshes \cup {"serve"}
    BY <1>0, <1>5 DEF Provider, TokenGranted, TokenRefused, TokenUnreachable, Sound, InHandPcs
  <2>2. /\ work'[s].kind = work[s].kind
        /\ work[s].kind # "serve" => work'[s].pc \in {"granted", "next", "info"}
        /\ \A r \in Sessions : r # s => work'[r] = work[r]
    BY <1>0, <1>5, <2>1, PlanFailed
       DEF Provider, TokenGranted, TokenRefused, TokenUnreachable, Work
  <2>3. UNCHANGED <<store, pool>>
    BY <1>5 DEF Provider, TokenGranted, TokenRefused, TokenUnreachable
  <2> QED
    BY <2>1, <2>2, <2>3 DEF Dirty, StillDirty, LeftAlone, Alike
<1> QED
  BY <1>1, <1>2, <1>3, <1>4, <1>5 DEF Serve

LEMMA NextCatches ==
    ASSUME IInv, TInv, FInv, [Next]_vars
    PROVE  FInv'
<1> SUFFICES ASSUME Only(Reloaders)'
             PROVE  (Agree \/ \E s \in Sessions : Dirty(work[s]))'
  BY DEF FInv
<1>1. IInv' /\ KInv /\ KindsKept
  BY NextKeeps, NextKeepsTokens DEF TInv
<1>2. Only(Reloaders) /\ (Agree \/ \E s \in Sessions : Dirty(work[s]))
  <2>1. Only(Reloaders)
    <3> DEFINE K == Reloaders
    <3>1. Only(K)'
      BY DEF Reloaders, AllBut
    <3> HIDE DEF K
    <3> QED
      BY <1>1, <3>1, OnlyBefore DEF K
  <2> QED
    BY <2>1 DEF FInv
<1>3. ASSUME NEW s \in Sessions, Operate(s) \/ Refresh(s) \/ Serve(s) \/ Provider(s)
      PROVE  Agree' \/ \E r \in Sessions : Dirty(work'[r])
  <2>1. StillDirty(s) \/ Reloaded \/ LeftAlone(s)
    BY <1>1, <1>2, <1>3, OperateCatches, RefreshCatches, ServeCatches
  <2>2. CASE StillDirty(s)
    BY <2>2 DEF StillDirty
  <2>3. CASE Reloaded
    BY <2>3 DEF Reloaded, Agree
  <2>4. CASE LeftAlone(s)
    <3>1. CASE Agree
      BY <2>4, <3>1, AlikeAgrees DEF LeftAlone
    <3>2. CASE \E r \in Sessions : Dirty(work[r])
      <4>1. PICK r \in Sessions : Dirty(work[r])
        BY <3>2
      <4>2. work'[r] = work[r]
        BY <2>4, <4>1 DEF LeftAlone
      <4> QED
        BY <4>1, <4>2
    <3> QED
      BY <1>2, <3>1, <3>2
  <2> QED
    BY <2>1, <2>2, <2>3, <2>4
<1>4. CASE UNCHANGED <<store, pool, work>>
  BY <1>2, <1>4 DEF Agree
<1> QED
  BY <1>3, <1>4 DEF Next, Lapse, vars

\* When everybody is through, the pool holds the accounts that are enabled,
\* with their bans, whatever operations overlapped on the way.
THEOREM PoolCatchesUp == Spec => []PoolFollowsStore
<1>1. Init => FInv
  BY DEF Init, FInv, Agree
<1>2. IInv /\ TInv /\ FInv /\ [Next]_vars => FInv'
  BY NextCatches
<1>3. FInv => PoolFollowsStore
  <2> SUFFICES ASSUME FInv, Quiet, Only(Reloaders)
               PROVE  Agree
    BY DEF PoolFollowsStore, Reloaders, Agree
  <2> QED
    BY DEF FInv, Quiet, Dirty
<1> QED
  BY <1>1, <1>2, <1>3, TokensHold, AlwaysSound, PTL DEF Spec
=============================================================================
