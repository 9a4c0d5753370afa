--------------------------- MODULE PicBufs_proofs ---------------------------
(***************************************************************************)
(* Proofs about PicBufs for every number of buffers, banks and POCs and    *)
(* for every stream.                                                       *)
(***************************************************************************)
EXTENDS PicBufs, TLAPS

LEMMA Constants ==
  /\ NumPics \in Nat \ {0} /\ NumBanks \in Nat \ {0} /\ NumSlots \in Nat
  /\ 0 \in Pocs /\ NotQueued \notin Pocs
  /\ NoBuf \notin Bufs /\ NoBank \notin Banks
<1>1. NoBuf \notin Bufs /\ NoBank \notin Banks
  BY SizesAssumption DEF Bufs, Banks, NoBuf, NoBank
<1>2. NotQueued \notin Pocs /\ 0 \in Pocs
  BY PocsAssumption
<1> QED BY <1>1, <1>2, SizesAssumption

-----------------------------------------------------------------------------
(* What the operators of the managers do.                                  *)

(* ihevc_buf_mgr_release clears one use of one buffer and no other; a      *)
(* buffer that was free stays free, and one that is left without a use is  *)
(* free.                                                                   *)
LEMMA ReleaseOneUse ==
  ASSUME NEW st \in [Bufs -> SUBSET StatusBits], NEW id \in Bufs,
         NEW bit \in {REF, DISP}
  PROVE  /\ Released(st, id, bit) \in [Bufs -> SUBSET StatusBits]
         /\ \A k \in Bufs : k # id => Released(st, id, bit)[k] = st[k]
         /\ \A x \in {REF, DISP} :
              x \in Released(st, id, bit)[id] <=> x \in st[id] /\ x # bit
         /\ Released(st, id, bit)[id] # {DEC}
         /\ Released(st, id, bit)[id] # {} /\ DEC \in st[id]
              => DEC \in Released(st, id, bit)[id]
         /\ Released(st, id, bit)[id] \subseteq st[id]
BY DEF Released, StatusBits, REF, DISP, DEC

(* ihevc_dpb_mgr_insert_ref adds one picture and keeps the list intact.    *)
LEMMA InsertKeepsIntact ==
  ASSUME TypeOK, DpbIntact,
         NEW b \in Bufs, b \notin DpbBufs(dpbSlot),
         NEW s \in Slots, dpbSlot[s] = NoBuf,
         dpbSlot' = [dpbSlot EXCEPT ![s] = b],
         dpbList' = Linked(dpbList, s)
  PROVE  /\ dpbSlot' \in [Slots -> Bufs \cup {NoBuf}]
         /\ dpbList' \in Seq(Slots)
         /\ DpbIntact'
         /\ DpbBufs(dpbSlot') = DpbBufs(dpbSlot) \cup {b}
<1>0. /\ dpbSlot \in [Slots -> Bufs \cup {NoBuf}]
      /\ dpbList \in Seq(Slots)
      /\ IsIntact(dpbSlot, dpbList)
      /\ NoBuf \notin Bufs
  BY Constants DEF TypeOK, DpbIntact
<1>1. /\ dpbList' \in Seq(Slots)
      /\ Len(dpbList') = Len(dpbList) + 1
      /\ dpbList'[1] = s
      /\ \A n \in 1 .. Len(dpbList) : dpbList'[n + 1] = dpbList[n]
  BY <1>0 DEF Linked
<1>2. dpbSlot' \in [Slots -> Bufs \cup {NoBuf}]
  BY <1>0
<1>3. DpbBufs(dpbSlot') = DpbBufs(dpbSlot) \cup {b}
  BY <1>0 DEF DpbBufs
<1>4. \A n \in 1 .. Len(dpbList') :
        n # 1 => n - 1 \in 1 .. Len(dpbList) /\ dpbList'[n] = dpbList[n - 1]
  <2>1. SUFFICES ASSUME NEW n \in 1 .. Len(dpbList'), n # 1
                 PROVE  n - 1 \in 1 .. Len(dpbList) /\ dpbList'[n] = dpbList[n - 1]
    OBVIOUS
  <2>2. n - 1 \in 1 .. Len(dpbList) /\ (n - 1) + 1 = n
    BY <1>0, <1>1, <2>1
  <2> QED BY <1>0, <1>1, <2>2
<1>5. \A n \in 1 .. Len(dpbList) : dpbList[n] \in Slots /\ dpbList[n] # s
  BY <1>0 DEF IsIntact
<1>6. \A n \in 1 .. Len(dpbList') : dpbSlot'[dpbList'[n]] # NoBuf
  <2>1. SUFFICES ASSUME NEW n \in 1 .. Len(dpbList')
                 PROVE  dpbSlot'[dpbList'[n]] # NoBuf
    OBVIOUS
  <2>2. CASE n = 1
    BY <1>0, <1>1, <2>2
  <2>3. CASE n # 1
    <3>1. n - 1 \in 1 .. Len(dpbList) /\ dpbList'[n] = dpbList[n - 1]
      BY <1>4, <2>3
    <3>2. dpbSlot[dpbList[n - 1]] # NoBuf
      BY <1>0, <3>1 DEF IsIntact
    <3> QED BY <1>0, <1>5, <3>1, <3>2
  <2> QED BY <2>2, <2>3
<1>7. \A t \in Slots : dpbSlot'[t] # NoBuf => \E n \in 1 .. Len(dpbList') : dpbList'[n] = t
  <2>1. SUFFICES ASSUME NEW t \in Slots, dpbSlot'[t] # NoBuf
                 PROVE  \E n \in 1 .. Len(dpbList') : dpbList'[n] = t
    OBVIOUS
  <2>2. CASE t = s
    BY <1>0, <1>1, <2>2
  <2>3. CASE t # s
    <3>1. PICK n \in 1 .. Len(dpbList) : dpbList[n] = t
      BY <1>0, <2>1, <2>3 DEF IsIntact
    <3>2. n + 1 \in 1 .. Len(dpbList') /\ dpbList'[n + 1] = t
      BY <1>0, <1>1, <3>1
    <3> QED BY <1>0, <3>2
  <2> QED BY <1>0, <2>2, <2>3
<1>8. \A m, n \in 1 .. Len(dpbList') : dpbList'[m] = dpbList'[n] => m = n
  <2>1. SUFFICES ASSUME NEW m \in 1 .. Len(dpbList'), NEW n \in 1 .. Len(dpbList'),
                        dpbList'[m] = dpbList'[n]
                 PROVE  m = n
    OBVIOUS
  <2>2. CASE m = 1 \/ n = 1
    BY <1>0, <1>1, <1>4, <1>5, <2>1, <2>2
  <2>3. CASE m # 1 /\ n # 1
    <3>1. /\ m - 1 \in 1 .. Len(dpbList) /\ n - 1 \in 1 .. Len(dpbList)
          /\ dpbList[m - 1] = dpbList[n - 1]
      BY <1>4, <2>1, <2>3
    <3>2. m - 1 = n - 1
      BY <1>0, <3>1 DEF IsIntact
    <3> QED BY <1>0, <1>1, <3>2
  <2> QED BY <1>0, <2>2, <2>3
<1>9. \A t, u \in Slots : dpbSlot'[t] = dpbSlot'[u] /\ dpbSlot'[t] # NoBuf => t = u
  BY <1>0 DEF IsIntact, DpbBufs
<1>10. DOMAIN dpbSlot' = Slots
  BY <1>0, <1>2
<1>11. DpbIntact'
  BY <1>0, <1>6, <1>7, <1>8, <1>9, <1>10 DEF DpbIntact, IsIntact
<1> QED BY <1>0, <1>1, <1>2, <1>3, <1>11

(* ihevc_dpb_mgr_del_ref removes one picture and keeps the list intact.    *)
LEMMA UnlinkKeepsIntact ==
  ASSUME TypeOK, DpbIntact,
         NEW n \in 1 .. Len(dpbList),
         dpbSlot' = [dpbSlot EXCEPT ![dpbList[n]] = NoBuf],
         dpbList' = Unlinked(dpbList, n)
  PROVE  /\ dpbSlot' \in [Slots -> Bufs \cup {NoBuf}]
         /\ dpbList' \in Seq(Slots)
         /\ DpbIntact'
         /\ dpbSlot[dpbList[n]] \in DpbBufs(dpbSlot)
         /\ DpbBufs(dpbSlot') = DpbBufs(dpbSlot) \ {dpbSlot[dpbList[n]]}
<1>0. /\ dpbSlot \in [Slots -> Bufs \cup {NoBuf}]
      /\ dpbList \in Seq(Slots)
      /\ IsIntact(dpbSlot, dpbList)
      /\ NoBuf \notin Bufs
  BY Constants DEF TypeOK, DpbIntact
<1> DEFINE s == dpbList[n]
<1>1. Len(dpbList) \in Nat /\ s \in Slots /\ dpbSlot[s] # NoBuf /\ dpbSlot[s] \in Bufs
  BY <1>0 DEF IsIntact
<1>2. /\ dpbList' \in Seq(Slots)
      /\ Len(dpbList') = Len(dpbList) - 1
      /\ \A m \in 1 .. (Len(dpbList) - 1) :
           dpbList'[m] = IF m < n THEN dpbList[m] ELSE dpbList[m + 1]
  <2>1. Len(dpbList) - 1 \in Nat
    BY <1>0, <1>1
  <2>2. \A m \in 1 .. (Len(dpbList) - 1) : m \in 1 .. Len(dpbList) /\ m + 1 \in 1 .. Len(dpbList)
    BY <1>0, <1>1
  <2>3. \A m \in 1 .. (Len(dpbList) - 1) : (IF m < n THEN dpbList[m] ELSE dpbList[m + 1]) \in Slots
    BY <1>0, <2>2
  <2> QED BY <1>0, <2>1, <2>3 DEF Unlinked
<1>3. dpbSlot' \in [Slots -> Bufs \cup {NoBuf}]
  BY <1>0
<1>4. DpbBufs(dpbSlot') = DpbBufs(dpbSlot) \ {dpbSlot[s]}
  BY <1>0, <1>1 DEF DpbBufs, IsIntact
<1>5. dpbSlot[s] \in DpbBufs(dpbSlot)
  BY <1>0, <1>1 DEF DpbBufs
<1>6. \A m \in 1 .. Len(dpbList') : dpbList'[m] \in Slots /\ dpbList'[m] # s
  BY <1>0, <1>1, <1>2 DEF IsIntact
<1>7. \A m \in 1 .. Len(dpbList') : dpbSlot'[dpbList'[m]] # NoBuf
  <2>1. SUFFICES ASSUME NEW m \in 1 .. Len(dpbList') PROVE dpbSlot'[dpbList'[m]] # NoBuf
    OBVIOUS
  <2> DEFINE k == IF m < n THEN m ELSE m + 1
  <2>2. k \in 1 .. Len(dpbList) /\ dpbList'[m] = dpbList[k]
    BY <1>0, <1>1, <1>2
  <2>3. dpbSlot[dpbList[k]] # NoBuf
    BY <1>0, <2>2 DEF IsIntact
  <2> QED BY <1>0, <1>6, <2>2, <2>3
<1>8. \A t \in Slots : dpbSlot'[t] # NoBuf => \E m \in 1 .. Len(dpbList') : dpbList'[m] = t
  <2>1. SUFFICES ASSUME NEW t \in Slots, dpbSlot'[t] # NoBuf
                 PROVE  \E m \in 1 .. Len(dpbList') : dpbList'[m] = t
    OBVIOUS
  <2>2. t # s /\ dpbSlot[t] # NoBuf
    BY <1>0, <1>1, <2>1
  <2>3. PICK k \in 1 .. Len(dpbList) : dpbList[k] = t
    BY <1>0, <2>2 DEF IsIntact
  <2>4. CASE k < n
    BY <1>0, <1>1, <1>2, <2>3, <2>4, SMTT(30)
  <2>5. CASE ~(k < n)
    <3>1. k # n /\ k - 1 \in 1 .. (Len(dpbList) - 1) /\ ~(k - 1 < n)
      BY <1>0, <1>1, <2>2, <2>3, <2>5
    <3>2. dpbList'[k - 1] = dpbList[(k - 1) + 1] /\ (k - 1) + 1 = k
      BY <1>0, <1>1, <1>2, <3>1
    <3> QED BY <1>0, <1>2, <2>3, <3>1, <3>2
  <2> QED BY <1>0, <2>4, <2>5
<1>9. \A m, k \in 1 .. Len(dpbList') : dpbList'[m] = dpbList'[k] => m = k
  <2>1. SUFFICES ASSUME NEW m \in 1 .. Len(dpbList'), NEW k \in 1 .. Len(dpbList'),
                        dpbList'[m] = dpbList'[k]
                 PROVE  m = k
    OBVIOUS
  <2> DEFINE at(i) == IF i < n THEN i ELSE i + 1
  <2>2. /\ at(m) \in 1 .. Len(dpbList) /\ dpbList'[m] = dpbList[at(m)]
        /\ at(k) \in 1 .. Len(dpbList) /\ dpbList'[k] = dpbList[at(k)]
    BY <1>0, <1>1, <1>2
  <2>3. at(m) = at(k)
    BY <1>0, <2>1, <2>2, ZenonT(60) DEF IsIntact
  <2> QED BY <1>0, <1>1, <1>2, <2>3
<1>10. \A t, u \in Slots : dpbSlot'[t] = dpbSlot'[u] /\ dpbSlot'[t] # NoBuf => t = u
  BY <1>0 DEF IsIntact
<1>11. DOMAIN dpbSlot' = Slots
  BY <1>0, <1>3
<1>12. DpbIntact'
  BY <1>0, <1>7, <1>8, <1>9, <1>10, <1>11 DEF DpbIntact, IsIntact
<1> QED BY <1>0, <1>2, <1>3, <1>4, <1>5, <1>12

-----------------------------------------------------------------------------
(* The inductive invariant.                                                *)

(* Where a call stands: a buffer and a bank are being written from the     *)
(* picture's initialisation to its end, the buffer with DEC alone.         *)
CallInv ==
  /\ phase = "decode" => curBuf # NoBuf
  /\ curBuf # NoBuf => phase \in {"purge", "decode"} /\ picSt[curBuf] = {DEC}
  /\ curBuf # NoBuf <=> curBank # NoBank
  /\ phase # "idle" => slicePoc \in Pocs

(* Nothing is decoded before the application has handed buffers over.      *)
AttachInv ==
  /\ ~Shared => attached
  /\ ~attached => /\ phase = "idle"
                  /\ DpbBufs(dpbSlot) = {}
                  /\ Waiting(disp) = {}
                  /\ held = {}

(* A reference keeps the DEC bit, so that the release of its last use is   *)
(* the one that frees it.                                                  *)
RefHasDec == \A b \in Bufs : REF \in picSt[b] => DEC \in picSt[b]

CoreInv == TypeOK /\ DpbIntact /\ RefBitIsDpb /\ RefHasDec /\ CallInv /\ AttachInv

(* Where a picture stands between its decoding and its last view.          *)
OutputInv ==
  /\ dispBuf # NoBuf => /\ curBuf # NoBuf
                        /\ dispBuf \notin Waiting(disp) \cup held
  /\ curBuf # NoBuf => curBuf \in (Waiting(disp) \cup {dispBuf}) \ held
  /\ Waiting(disp) \cap held = {}
  /\ ~Shared => held = {}

UseInv == DispBitIsUse /\ NoLostBuffer /\ OutputInv

-----------------------------------------------------------------------------
(* The state ihevcd_init leaves, and the initial one.                      *)
LEMMA CoreInit == Init => CoreInv
<1>1. SUFFICES ASSUME Init PROVE CoreInv
  OBVIOUS
<1>2. TypeOK
  <2>1. /\ picSt \in [Bufs -> SUBSET StatusBits]
        /\ mvSt \in [Banks -> SUBSET StatusBits]
        /\ picPoc \in [Bufs -> Pocs] /\ mvPoc \in [Banks -> Pocs]
        /\ usedAsRef \in [Bufs -> BOOLEAN]
    BY <1>1, Constants DEF Init
  <2>2. /\ dpbSlot \in [Slots -> Bufs \cup {NoBuf}]
        /\ dpbList \in Seq(Slots)
        /\ disp \in [Bufs -> Pocs \cup {NotQueued}]
    BY <1>1 DEF Init
  <2>3. slot \in 0 .. NumSlots /\ backlog \in Int /\ attached \in BOOLEAN
    BY <1>1, Constants, ModesAssumption DEF Init
  <2> QED BY <1>1, <2>1, <2>2, <2>3 DEF Init, TypeOK, Phases
<1>3. DpbBufs(dpbSlot) = {} /\ Waiting(disp) = {}
  BY <1>1 DEF Init, DpbBufs, Waiting
<1>4. DpbIntact
  BY <1>1 DEF Init, DpbIntact, IsIntact
<1>5. RefBitIsDpb /\ RefHasDec
  BY <1>1, <1>3 DEF Init, RefBitIsDpb, RefHasDec
<1>6. CallInv /\ AttachInv
  BY <1>1, <1>3 DEF Init, CallInv, AttachInv
<1> QED BY <1>2, <1>4, <1>5, <1>6 DEF CoreInv

LEMMA CoreCleared ==
  ASSUME CoreInv, phase = "idle", Cleared,
         UNCHANGED <<phase, purgeAll, slot, curBuf, curBank, dispBuf>>
  PROVE  CoreInv'
<1>1. TypeOK'
  <2>1. /\ picSt' \in [Bufs -> SUBSET StatusBits]
        /\ mvSt' \in [Banks -> SUBSET StatusBits]
        /\ picPoc' \in [Bufs -> Pocs] /\ mvPoc' \in [Banks -> Pocs]
        /\ usedAsRef' \in [Bufs -> BOOLEAN]
    BY Constants DEF Cleared
  <2>2. /\ dpbSlot' \in [Slots -> Bufs \cup {NoBuf}]
        /\ dpbList' \in Seq(Slots)
        /\ disp' \in [Bufs -> Pocs \cup {NotQueued}]
    BY DEF Cleared
  <2>3. backlog' \in Int /\ attached' \in BOOLEAN
    BY ModesAssumption DEF Cleared
  <2> QED BY <2>1, <2>2, <2>3 DEF Cleared, TypeOK, CoreInv
<1>2. DpbBufs(dpbSlot') = {} /\ Waiting(disp') = {}
  BY DEF Cleared, DpbBufs, Waiting
<1>3. DpbIntact'
  BY DEF Cleared, DpbIntact, IsIntact
<1>4. RefBitIsDpb' /\ RefHasDec'
  BY <1>2 DEF Cleared, RefBitIsDpb, RefHasDec
<1>5. CallInv' /\ AttachInv'
  BY <1>2 DEF Cleared, CallInv, AttachInv, CoreInv
<1> QED BY <1>1, <1>3, <1>4, <1>5 DEF CoreInv

(* One release of a reference: the picture leaves the DPB and loses its    *)
(* REF bit, whichever picture of that POC it is.                           *)
LEMMA DelRefEffect ==
  ASSUME TypeOK, DpbIntact, NEW p, DelRef(p)
  PROVE  \E b \in Bufs :
           /\ b \in DpbBufs(dpbSlot)
           /\ picSt' = Released(picSt, b, REF)
           /\ DpbBufs(dpbSlot') = DpbBufs(dpbSlot) \ {b}
           /\ dpbSlot' \in [Slots -> Bufs \cup {NoBuf}]
           /\ dpbList' \in Seq(Slots)
           /\ DpbIntact'
<1>1. PICK n \in 1 .. Len(dpbList) :
        /\ picSt' = Released(picSt, dpbSlot[dpbList[n]], REF)
        /\ dpbSlot' = [dpbSlot EXCEPT ![dpbList[n]] = NoBuf]
        /\ dpbList' = Unlinked(dpbList, n)
  BY DEF DelRef
<1>3. /\ dpbSlot' \in [Slots -> Bufs \cup {NoBuf}]
      /\ dpbList' \in Seq(Slots)
      /\ DpbIntact'
      /\ dpbSlot[dpbList[n]] \in DpbBufs(dpbSlot)
      /\ DpbBufs(dpbSlot') = DpbBufs(dpbSlot) \ {dpbSlot[dpbList[n]]}
  BY <1>1, UnlinkKeepsIntact
<1>4. dpbSlot[dpbList[n]] \in Bufs
  BY <1>3 DEF DpbBufs, TypeOK
<1> QED BY <1>1, <1>3, <1>4

LEMMA InsertRefEffect ==
  ASSUME TypeOK, DpbIntact, NEW b \in Bufs, b \notin DpbBufs(dpbSlot), InsertRef(b)
  PROVE  /\ DpbBufs(dpbSlot') = DpbBufs(dpbSlot) \cup {b}
         /\ dpbSlot' \in [Slots -> Bufs \cup {NoBuf}]
         /\ dpbList' \in Seq(Slots)
         /\ usedAsRef' \in [Bufs -> BOOLEAN]
         /\ DpbIntact'
<1>1. PICK s \in Slots : /\ dpbSlot[s] = NoBuf
                         /\ dpbSlot' = [dpbSlot EXCEPT ![s] = b]
                         /\ dpbList' = Linked(dpbList, s)
                         /\ usedAsRef' = [usedAsRef EXCEPT ![b] = TRUE]
  BY DEF InsertRef, IsInsertSlot
<1>3. /\ dpbSlot' \in [Slots -> Bufs \cup {NoBuf}]
      /\ dpbList' \in Seq(Slots)
      /\ DpbIntact'
      /\ DpbBufs(dpbSlot') = DpbBufs(dpbSlot) \cup {b}
  BY <1>1, InsertKeepsIntact
<1>4. usedAsRef' \in [Bufs -> BOOLEAN]
  BY <1>1 DEF TypeOK
<1> QED BY <1>3, <1>4

-----------------------------------------------------------------------------
(* Steps that leave status words and the DPB alone.                        *)
LEMMA SameManagers ==
  ASSUME CoreInv, UNCHANGED <<picSt, dpbSlot, dpbList>>
  PROVE  DpbIntact' /\ RefBitIsDpb' /\ RefHasDec'
BY DEF CoreInv, DpbIntact, RefBitIsDpb, RefHasDec

LEMMA CoreFirstSlice ==
  ASSUME CoreInv,
         \/ \E p \in Pocs : FirstSliceIntra(p)
         \/ \E p \in Pocs, pocs \in SUBSET HeldPocs, inter \in BOOLEAN :
              FirstSliceRefs(p, pocs, inter)
  PROVE  CoreInv'
<1>1. PICK p \in Pocs :
        /\ phase = "idle" /\ MayDecode
        /\ slicePoc' = p
        /\ UNCHANGED <<attached, picSt, mvSt, picPoc, mvPoc, dpbSlot, dpbList, disp,
                       backlog, firstPic, flushMode, resetFlag, curBuf, curBank,
                       dispBuf, held>>
        /\ phase' \in {"idle", "purge"} /\ purgeAll' \in BOOLEAN
        /\ slot' \in {slot, 0}
        /\ usedAsRef' \in [Bufs -> BOOLEAN]
  <2>1. CASE \E p \in Pocs : FirstSliceIntra(p)
    BY <2>1 DEF FirstSliceIntra, EnterPurge, mgrVars, dpbVars, dispVars, CoreInv,
                TypeOK
  <2>2. CASE \E p \in Pocs, pocs \in SUBSET HeldPocs, inter \in BOOLEAN :
               FirstSliceRefs(p, pocs, inter)
    <3>1. PICK p \in Pocs, pocs \in SUBSET HeldPocs, inter \in BOOLEAN :
            FirstSliceRefs(p, pocs, inter)
      BY <2>2
    <3>2. usedAsRef' = Marked(pocs, FALSE)
      BY <3>1 DEF FirstSliceRefs
    <3>3. Marked(pocs, FALSE) \in [Bufs -> BOOLEAN]
      BY DEF Marked, CoreInv, TypeOK
    <3> QED BY <3>1, <3>2, <3>3
            DEF FirstSliceRefs, EnterPurge, dpbVars, dispVars, CoreInv, TypeOK
  <2> QED BY <2>1, <2>2
<1>2. attached
  BY <1>1 DEF MayDecode, CoreInv, AttachInv
<1>3. TypeOK'
  BY <1>1, Constants DEF CoreInv, TypeOK, Phases
<1>4. CallInv' /\ AttachInv'
  BY <1>1, <1>2, Constants DEF CoreInv, CallInv, AttachInv
<1> QED BY <1>1, <1>3, <1>4, SameManagers DEF CoreInv

LEMMA CoreNextSlice ==
  ASSUME CoreInv,
         \/ NextSliceIntra
         \/ \E pocs \in SUBSET HeldPocs, inter \in BOOLEAN :
              NextSliceRefs(pocs, inter)
  PROVE  CoreInv'
<1>1. /\ phase = "decode"
      /\ UNCHANGED <<attached, picSt, mvSt, picPoc, mvPoc, dpbSlot, dpbList, disp,
                     backlog, firstPic, flushMode, resetFlag, slicePoc, curBuf,
                     curBank, dispBuf, held>>
      /\ phase' \in {"decode", "purge"} /\ purgeAll' \in BOOLEAN
      /\ slot' \in {slot, 0}
      /\ usedAsRef' \in [Bufs -> BOOLEAN]
  <2>1. CASE NextSliceIntra
    BY <2>1 DEF NextSliceIntra, EnterPurge, mgrVars, dpbVars, dispVars, CoreInv,
                TypeOK
  <2>2. CASE \E pocs \in SUBSET HeldPocs, inter \in BOOLEAN :
               NextSliceRefs(pocs, inter)
    <3>1. PICK pocs \in SUBSET HeldPocs, inter \in BOOLEAN :
            NextSliceRefs(pocs, inter)
      BY <2>2
    <3>2. usedAsRef' = Marked(pocs, TRUE)
      BY <3>1 DEF NextSliceRefs
    <3>3. Marked(pocs, TRUE) \in [Bufs -> BOOLEAN]
      BY DEF Marked, CoreInv, TypeOK
    <3> QED BY <3>1, <3>2, <3>3
            DEF NextSliceRefs, EnterPurge, dpbVars, dispVars, CoreInv, TypeOK
  <2> QED BY <2>1, <2>2
<1>2. TypeOK'
  BY <1>1, Constants DEF CoreInv, TypeOK, Phases
<1>3. CallInv' /\ AttachInv'
  BY <1>1 DEF CoreInv, CallInv, AttachInv
<1> QED BY <1>1, <1>2, <1>3, SameManagers DEF CoreInv

(* A step of the release loop.                                             *)
LEMMA CorePurgeSlot == ASSUME CoreInv, PurgeSlot PROVE CoreInv'
<1>1. /\ phase = "purge" /\ slot' = slot + 1 /\ slot' \in 0 .. NumSlots
      /\ UNCHANGED <<attached, picPoc, usedAsRef, mvPoc, disp, backlog, firstPic,
                     flushMode, resetFlag, slicePoc, phase, purgeAll, curBuf,
                     curBank, dispBuf, held>>
  BY Constants DEF PurgeSlot, CoreInv, TypeOK, dispVars
<1>2. CASE MustRelease(slot)
  <2>1. DelRef(picPoc[dpbSlot[slot]]) /\ ReleaseBank(picPoc[dpbSlot[slot]])
    BY <1>2 DEF PurgeSlot
  <2>2. PICK b \in Bufs :
           /\ b \in DpbBufs(dpbSlot)
           /\ picSt' = Released(picSt, b, REF)
           /\ DpbBufs(dpbSlot') = DpbBufs(dpbSlot) \ {b}
           /\ dpbSlot' \in [Slots -> Bufs \cup {NoBuf}]
           /\ dpbList' \in Seq(Slots)
           /\ DpbIntact'
    BY <2>1, DelRefEffect DEF CoreInv
  <2>3. /\ picSt' \in [Bufs -> SUBSET StatusBits]
        /\ \A k \in Bufs : k # b => picSt'[k] = picSt[k]
        /\ \A x \in {REF, DISP} : x \in picSt'[b] <=> x \in picSt[b] /\ x # REF
    <3>1. picSt \in [Bufs -> SUBSET StatusBits] /\ REF \in {REF, DISP}
      BY DEF CoreInv, TypeOK
    <3> QED BY <2>2, <3>1, ReleaseOneUse
  <2>4. mvSt' \in [Banks -> SUBSET StatusBits]
    BY <2>1 DEF ReleaseBank, Released, CoreInv, TypeOK
  <2>5. TypeOK'
    BY <1>1, <2>2, <2>3, <2>4 DEF CoreInv, TypeOK
  <2>6. RefBitIsDpb' /\ RefHasDec'
    BY <2>2, <2>3 DEF CoreInv, RefBitIsDpb, RefHasDec
  <2>7. CallInv'
    <3>1. curBuf # NoBuf => curBuf \in Bufs /\ REF \notin picSt[curBuf]
      BY DEF CoreInv, CallInv, TypeOK, REF, DEC
    <3>2. curBuf # NoBuf => curBuf # b
      BY <2>2, <3>1 DEF CoreInv, RefBitIsDpb
    <3> QED BY <1>1, <2>3, <3>1, <3>2 DEF CoreInv, CallInv
  <2>8. AttachInv'
    BY <1>1 DEF CoreInv, AttachInv
  <2> QED BY <2>2, <2>5, <2>6, <2>7, <2>8 DEF CoreInv
<1>3. CASE ~MustRelease(slot)
  <2>1. UNCHANGED <<picSt, mvSt, dpbSlot, dpbList>>
    BY <1>3 DEF PurgeSlot, dpbVars
  <2>2. TypeOK'
    BY <1>1, <2>1 DEF CoreInv, TypeOK
  <2>3. CallInv' /\ AttachInv'
    BY <1>1, <2>1 DEF CoreInv, CallInv, AttachInv
  <2> QED BY <2>1, <2>2, <2>3, SameManagers DEF CoreInv
<1> QED BY <1>2, <1>3

(* The end of the loop, and the ways a slice yields no picture.            *)
LEMMA CoreNoPicture ==
  ASSUME CoreInv, PurgeDone \/ SkipPicture \/ NoFreeMvBank \/ NoFreePicBuf
  PROVE  CoreInv'
<1>1. /\ phase # "idle"
      /\ UNCHANGED <<attached, picSt, picPoc, usedAsRef, dpbSlot, dpbList, disp,
                     backlog, firstPic, flushMode, resetFlag, slicePoc, curBuf,
                     curBank, dispBuf, held>>
      /\ phase' = IF phase = "init" THEN "idle"
                  ELSE IF curBuf = NoBuf THEN "init" ELSE "decode"
      /\ purgeAll' \in BOOLEAN /\ slot' \in 0 .. NumSlots
  <2> USE DEF CoreInv, TypeOK, CallInv, mgrVars, dpbVars, dispVars
  <2>1. CASE PurgeDone
    <3>1. 0 \in 0 .. NumSlots
      BY Constants
    <3> QED BY <2>1, <3>1 DEF PurgeDone
  <2>2. CASE SkipPicture
    BY <2>2 DEF SkipPicture
  <2>3. CASE NoFreeMvBank
    BY <2>3 DEF NoFreeMvBank
  <2>4. CASE NoFreePicBuf
    BY <2>4 DEF NoFreePicBuf
  <2> QED BY <2>1, <2>2, <2>3, <2>4
<1>2. mvSt' \in [Banks -> SUBSET StatusBits] /\ mvPoc' \in [Banks -> Pocs]
  <2>1. CASE NoFreePicBuf
    <3>1. slicePoc \in Pocs
      BY <1>1 DEF CoreInv, CallInv, TypeOK
    <3>2. PICK k \in Banks : AcquireBank(k)
      BY <2>1 DEF NoFreePicBuf
    <3> QED BY <3>1, <3>2 DEF AcquireBank, Acquired, StatusBits, CoreInv, TypeOK
  <2>2. CASE ~NoFreePicBuf
    BY <2>2 DEF PurgeDone, SkipPicture, NoFreeMvBank, mgrVars, CoreInv, TypeOK
  <2> QED BY <2>1, <2>2
<1>3. TypeOK'
  BY <1>1, <1>2 DEF CoreInv, TypeOK, Phases
<1>4. CallInv' /\ AttachInv'
  BY <1>1 DEF CoreInv, CallInv, AttachInv
<1> QED BY <1>1, <1>3, <1>4, SameManagers DEF CoreInv

(* ihevcd_parse_pic_init acquires a bank and a buffer that no one uses.    *)
LEMMA CorePicInit == ASSUME CoreInv, PicInit PROVE CoreInv'
<1>1. PICK k \in Banks, b \in Bufs, frameOut \in FrameOutModes :
        /\ AcquireBank(k)
        /\ picSt[b] = {}
        /\ picSt' = Acquired(picSt, b)
        /\ picPoc' = [picPoc EXCEPT ![b] = slicePoc]
        /\ curBank' = k
        /\ curBuf' = b
        /\ Bump(Queued(disp, b, slicePoc), frameOut)
  BY DEF PicInit, IsNextFree, IsFree
<1>2. /\ phase = "init" /\ phase' = "decode" /\ slicePoc \in Pocs
      /\ attached
      /\ UNCHANGED <<attached, usedAsRef, dpbSlot, dpbList, firstPic, flushMode,
                     resetFlag, slicePoc, purgeAll, slot, held>>
  BY DEF PicInit, dpbVars, CoreInv, CallInv, AttachInv, TypeOK
<1>3. /\ picSt' \in [Bufs -> SUBSET StatusBits]
      /\ picSt'[b] = {DEC}
      /\ \A c \in Bufs : c # b => picSt'[c] = picSt[c]
  BY <1>1 DEF Acquired, StatusBits, CoreInv, TypeOK
<1>4. mvSt' \in [Banks -> SUBSET StatusBits] /\ mvPoc' \in [Banks -> Pocs]
  BY <1>1, <1>2 DEF AcquireBank, Acquired, StatusBits, CoreInv, TypeOK
<1>5. /\ disp' \in [Bufs -> Pocs \cup {NotQueued}]
      /\ dispBuf' \in Bufs \cup {NoBuf}
      /\ backlog' \in Int
  <2>1. Queued(disp, b, slicePoc) \in [Bufs -> Pocs \cup {NotQueued}]
    BY <1>2 DEF Queued, CoreInv, TypeOK
  <2>2. CASE backlog >= MaxReorder \/ frameOut
    <3>1. PICK c \in Bufs : /\ disp' = Dequeued(Queued(disp, b, slicePoc), c)
                            /\ dispBuf' = c
                            /\ backlog' = backlog - 1
      BY <1>1, <2>2 DEF Bump
    <3>2. Dequeued(Queued(disp, b, slicePoc), c) \in [Bufs -> Pocs \cup {NotQueued}]
      BY <2>1 DEF Dequeued
    <3> QED BY <3>1, <3>2 DEF CoreInv, TypeOK
  <2>3. CASE ~(backlog >= MaxReorder \/ frameOut)
    BY <1>1, <2>1, <2>3 DEF Bump, CoreInv, TypeOK
  <2> QED BY <2>2, <2>3
<1>6. TypeOK'
  BY <1>1, <1>2, <1>3, <1>4, <1>5 DEF CoreInv, TypeOK, Phases
<1>7. RefBitIsDpb' /\ RefHasDec'
  BY <1>1, <1>2, <1>3 DEF CoreInv, RefBitIsDpb, RefHasDec, REF, DEC
<1>8. CallInv' /\ AttachInv'
  BY <1>1, <1>2, <1>3, Constants DEF CoreInv, CallInv, AttachInv
<1>9. DpbIntact'
  BY <1>2 DEF CoreInv, DpbIntact
<1> QED BY <1>6, <1>7, <1>8, <1>9 DEF CoreInv

(* The status words at the end of a picture: the new picture has all its   *)
(* bits, less DISP when it is the one output, and the picture output in    *)
(* private mode loses DISP.                                                *)
LEMMA FinishEffect ==
  ASSUME CoreInv, FinishPicture
  PROVE  /\ picSt' \in [Bufs -> SUBSET StatusBits]
         /\ curBuf \in Bufs
         /\ \A b \in Bufs : REF \in picSt'[b] <=> REF \in picSt[b] \/ b = curBuf
         /\ \A b \in Bufs : DISP \in picSt'[b] <=>
              /\ DISP \in picSt[b] \/ b = curBuf
              /\ Shared \/ b # dispBuf
         /\ \A b \in Bufs : REF \in picSt'[b] /\ (DEC \in picSt[b] \/ b = curBuf)
              => DEC \in picSt'[b]
         /\ \A b \in Bufs : picSt'[b] # {} /\ b # curBuf => picSt[b] # {}
         /\ \A b \in Bufs : picSt'[b] = {DEC} => picSt[b] = {DEC} /\ b # curBuf
<1> DEFINE done == WithStatus(WithStatus(picSt, curBuf, REF), curBuf, DISP)
<1>1. curBuf \in Bufs /\ picSt[curBuf] = {DEC}
  BY DEF CoreInv, CallInv, TypeOK, FinishPicture
<1>2. picSt \in [Bufs -> SUBSET StatusBits] /\ dispBuf \in Bufs \cup {NoBuf}
  BY DEF CoreInv, TypeOK
<1>3. /\ done \in [Bufs -> SUBSET StatusBits]
      /\ done[curBuf] = {DEC, REF, DISP}
      /\ \A b \in Bufs : b # curBuf => done[b] = picSt[b]
  BY <1>1, <1>2 DEF WithStatus, StatusBits
<1>4. picSt' = Displayed(done)
  BY DEF FinishPicture
<1> HIDE DEF done
<1>5. DEC # REF /\ DEC # DISP /\ REF # DISP
  BY DEF DEC, REF, DISP
<1>6. CASE dispBuf # NoBuf /\ ~Shared
  <2>1. dispBuf \in Bufs /\ picSt' = Released(done, dispBuf, DISP)
    BY <1>2, <1>4, <1>6 DEF Displayed
  <2>2. /\ picSt' \in [Bufs -> SUBSET StatusBits]
        /\ \A b \in Bufs : b # dispBuf => picSt'[b] = done[b]
        /\ \A x \in {REF, DISP} : x \in picSt'[dispBuf] <=> x \in done[dispBuf] /\ x # DISP
        /\ picSt'[dispBuf] # {DEC}
        /\ picSt'[dispBuf] # {} /\ DEC \in done[dispBuf] => DEC \in picSt'[dispBuf]
        /\ picSt'[dispBuf] \subseteq done[dispBuf]
    <3>1. DISP \in {REF, DISP}
      OBVIOUS
    <3> QED BY <1>3, <2>1, <3>1, ReleaseOneUse
  <2>3. \A b \in Bufs : REF \in picSt'[b] <=> REF \in picSt[b] \/ b = curBuf
    BY <1>1, <1>3, <1>5, <2>2
  <2>4. \A b \in Bufs : DISP \in picSt'[b] <=>
              /\ DISP \in picSt[b] \/ b = curBuf
              /\ Shared \/ b # dispBuf
    BY <1>1, <1>3, <1>5, <1>6, <2>1, <2>2
  <2>5. \A b \in Bufs : REF \in picSt'[b] /\ (DEC \in picSt[b] \/ b = curBuf)
              => DEC \in picSt'[b]
    BY <1>1, <1>3, <1>5, <2>1, <2>2
  <2>6. \A b \in Bufs : picSt'[b] # {} /\ b # curBuf => picSt[b] # {}
    BY <1>3, <2>1, <2>2
  <2>7. \A b \in Bufs : picSt'[b] = {DEC} => picSt[b] = {DEC} /\ b # curBuf
    BY <1>3, <1>5, <2>1, <2>2
  <2> QED BY <1>1, <2>2, <2>3, <2>4, <2>5, <2>6, <2>7
<1>7. CASE ~(dispBuf # NoBuf /\ ~Shared)
  <2>1. picSt' = done /\ (Shared \/ dispBuf \notin Bufs)
    BY <1>4, <1>7, Constants DEF Displayed
  <2> QED BY <1>1, <1>3, <1>5, <2>1
<1> QED BY <1>6, <1>7

LEMMA CoreFinishPicture == ASSUME CoreInv, FinishPicture PROVE CoreInv'
<1>1. curBuf \in Bufs /\ curBuf \notin DpbBufs(dpbSlot) /\ curBank \in Banks
  <2>1. /\ curBuf \in Bufs /\ picSt[curBuf] = {DEC}
        /\ curBank \in Banks
    BY DEF CoreInv, CallInv, TypeOK, FinishPicture
  <2>2. REF \notin picSt[curBuf]
    BY <2>1 DEF DEC, REF
  <2> QED BY <2>1, <2>2 DEF CoreInv, RefBitIsDpb
<1>2. InsertRef(curBuf)
  BY DEF FinishPicture
<1>3. /\ DpbBufs(dpbSlot') = DpbBufs(dpbSlot) \cup {curBuf}
      /\ dpbSlot' \in [Slots -> Bufs \cup {NoBuf}]
      /\ dpbList' \in Seq(Slots)
      /\ usedAsRef' \in [Bufs -> BOOLEAN]
      /\ DpbIntact'
  BY <1>1, <1>2, InsertRefEffect DEF CoreInv
<1>4. mvSt' \in [Banks -> SUBSET StatusBits]
  BY <1>1 DEF FinishPicture, WithStatus, StatusBits, CoreInv, TypeOK
<1>5. held' \in SUBSET Bufs
  BY DEF FinishPicture, CoreInv, TypeOK
<1>6. TypeOK'
  <2>1. picSt' \in [Bufs -> SUBSET StatusBits]
    BY FinishEffect
  <2>2. /\ backlog' = backlog + 1 /\ firstPic' = FALSE /\ phase' = "idle"
        /\ curBuf' = NoBuf /\ curBank' = NoBank /\ dispBuf' = NoBuf
        /\ UNCHANGED <<attached, picPoc, mvPoc, disp, flushMode, resetFlag, slicePoc,
                       purgeAll, slot>>
    BY DEF FinishPicture
  <2>3. backlog' \in Int /\ phase' \in Phases
    BY <2>2 DEF CoreInv, TypeOK, Phases
  <2>4. /\ usedAsRef' \in [Bufs -> BOOLEAN]
        /\ dpbSlot' \in [Slots -> Bufs \cup {NoBuf}]
        /\ dpbList' \in Seq(Slots)
    BY <1>3
  <2> QED BY <1>4, <1>5, <2>1, <2>2, <2>3, <2>4 DEF CoreInv, TypeOK
<1>7. RefBitIsDpb' /\ RefHasDec'
  BY <1>3, FinishEffect DEF CoreInv, RefBitIsDpb, RefHasDec
<1>8. CallInv' /\ AttachInv'
  BY DEF FinishPicture, CoreInv, CallInv, AttachInv
<1> QED BY <1>3, <1>6, <1>7, <1>8 DEF CoreInv

(* Flags only.                                                             *)
LEMMA CoreFlags ==
  ASSUME CoreInv, SetFlushMode \/ ResolutionChange \/ FlushEnd
  PROVE  CoreInv'
<1>1. /\ UNCHANGED <<attached, picSt, mvSt, picPoc, usedAsRef, mvPoc, dpbSlot,
                     dpbList, disp, slicePoc, phase, purgeAll, slot, curBuf,
                     curBank, dispBuf, held>>
      /\ backlog' \in {0, backlog}
      /\ firstPic' \in BOOLEAN /\ flushMode' \in BOOLEAN /\ resetFlag' \in BOOLEAN
  <2> USE DEF mgrVars, dpbVars, callVars, CoreInv, TypeOK
  <2>1. CASE SetFlushMode
    BY <2>1 DEF SetFlushMode
  <2>2. CASE ResolutionChange
    BY <2>2 DEF ResolutionChange
  <2>3. CASE FlushEnd
    BY <2>3 DEF FlushEnd
  <2> QED BY <2>1, <2>2, <2>3
<1>2. TypeOK'
  BY <1>1 DEF CoreInv, TypeOK
<1>3. CallInv' /\ AttachInv'
  BY <1>1 DEF CoreInv, CallInv, AttachInv
<1> QED BY <1>1, <1>2, <1>3, SameManagers DEF CoreInv

(* Steps that clear the DISP bit of one buffer, or of none.                *)
LEMMA ReleaseDisplay ==
  ASSUME CoreInv, NEW b \in Bufs, UNCHANGED <<dpbSlot, dpbList, phase, curBuf>>,
         phase = "idle",
         picSt' = Released(picSt, b, DISP) \/ picSt' = picSt
  PROVE  /\ picSt' \in [Bufs -> SUBSET StatusBits]
         /\ DpbIntact' /\ RefBitIsDpb' /\ RefHasDec'
<1>1. /\ picSt \in [Bufs -> SUBSET StatusBits]
      /\ DISP \in {REF, DISP} /\ REF \in {REF, DISP} /\ REF # DISP
  BY DEF CoreInv, TypeOK, REF, DISP
<1>2. CASE picSt' = Released(picSt, b, DISP)
  <2>1. /\ picSt' \in [Bufs -> SUBSET StatusBits]
        /\ \A k \in Bufs : k # b => picSt'[k] = picSt[k]
        /\ REF \in picSt'[b] <=> REF \in picSt[b]
        /\ picSt'[b] # {} /\ DEC \in picSt[b] => DEC \in picSt'[b]
    BY <1>1, <1>2, ReleaseOneUse
  <2>2. RefBitIsDpb' /\ RefHasDec'
    BY <2>1 DEF CoreInv, RefBitIsDpb, RefHasDec
  <2> QED BY <2>1, <2>2 DEF CoreInv, DpbIntact
<1>3. CASE picSt' = picSt
  BY <1>1, <1>3, SameManagers
<1> QED BY <1>2, <1>3

LEMMA CoreFlushOne == ASSUME CoreInv, FlushOne PROVE CoreInv'
<1>1. PICK b \in Bufs :
        /\ b \in Waiting(disp)
        /\ disp' = Dequeued(disp, b)
        /\ picSt' = Released(picSt, b, DISP) \/ picSt' = picSt
        /\ held' = IF Shared THEN held \cup {b} ELSE held
  BY DEF FlushOne, IsNextOutput
<1>2. /\ phase = "idle" /\ flushMode' = TRUE
      /\ UNCHANGED <<attached, mvSt, picPoc, usedAsRef, mvPoc, dpbSlot, dpbList,
                     backlog, firstPic, resetFlag, slicePoc, phase, purgeAll, slot,
                     curBuf, curBank, dispBuf>>
  BY DEF FlushOne, InFlush, dpbVars, callVars
<1>3. /\ picSt' \in [Bufs -> SUBSET StatusBits]
      /\ DpbIntact' /\ RefBitIsDpb' /\ RefHasDec'
  BY <1>1, <1>2, ReleaseDisplay
<1>4. disp' \in [Bufs -> Pocs \cup {NotQueued}] /\ held' \in SUBSET Bufs
  BY <1>1 DEF Dequeued, CoreInv, TypeOK
<1>5. TypeOK'
  BY <1>2, <1>3, <1>4 DEF CoreInv, TypeOK
<1>6. CallInv' /\ AttachInv'
  BY <1>1, <1>2 DEF CoreInv, CallInv, AttachInv
<1> QED BY <1>3, <1>5, <1>6 DEF CoreInv

LEMMA CoreRelDisplayFrame ==
  ASSUME CoreInv, NEW b \in Bufs, RelDisplayFrame(b) PROVE CoreInv'
<1>1. /\ phase = "idle" /\ b \in held
      /\ picSt' = Released(picSt, b, DISP)
      /\ held' = held \ {b}
      /\ UNCHANGED <<attached, mvSt, picPoc, usedAsRef, mvPoc, dpbSlot, dpbList,
                     disp, backlog, firstPic, flushMode, resetFlag, slicePoc, phase,
                     purgeAll, slot, curBuf, curBank, dispBuf>>
  BY DEF RelDisplayFrame, dpbVars, dispVars, callVars
<1>2. /\ picSt' \in [Bufs -> SUBSET StatusBits]
      /\ DpbIntact' /\ RefBitIsDpb' /\ RefHasDec'
  BY <1>1, ReleaseDisplay
<1>3. TypeOK'
  BY <1>1, <1>2 DEF CoreInv, TypeOK
<1>4. CallInv' /\ AttachInv'
  BY <1>1 DEF CoreInv, CallInv, AttachInv
<1> QED BY <1>2, <1>3, <1>4 DEF CoreInv

(* ihevcd_set_display_frame: there is no reference yet.                    *)
LEMMA CoreSetDisplayFrame == ASSUME CoreInv, SetDisplayFrame PROVE CoreInv'
<1>1. /\ phase = "idle" /\ ~attached /\ attached' = TRUE
      /\ picSt' = [b \in Bufs |-> {DISP}]
      /\ held' = Bufs
      /\ UNCHANGED <<mvSt, picPoc, usedAsRef, mvPoc, dpbSlot, dpbList, disp, backlog,
                     firstPic, flushMode, resetFlag, slicePoc, phase, purgeAll, slot,
                     curBuf, curBank, dispBuf>>
  BY DEF SetDisplayFrame, dpbVars, dispVars, callVars
<1>2. TypeOK'
  BY <1>1 DEF CoreInv, TypeOK, StatusBits
<1>3. DpbBufs(dpbSlot') = {}
  BY <1>1 DEF CoreInv, AttachInv
<1>4. RefBitIsDpb' /\ RefHasDec'
  BY <1>1, <1>3 DEF RefBitIsDpb, RefHasDec, REF, DISP
<1>5. DpbIntact' /\ CallInv' /\ AttachInv'
  BY <1>1 DEF CoreInv, DpbIntact, CallInv, AttachInv
<1> QED BY <1>2, <1>4, <1>5 DEF CoreInv

LEMMA CoreNext == CoreInv /\ [Next]_vars => CoreInv'
<1>1. SUFFICES ASSUME CoreInv, [Next]_vars PROVE CoreInv'
  OBVIOUS
<1>2. CASE UNCHANGED vars
  BY <1>1, <1>2, SameManagers
     DEF vars, mgrVars, dpbVars, dispVars, callVars, CoreInv, TypeOK, CallInv,
         AttachInv
<1>3. CASE SliceHeader
  BY <1>1, <1>3, CoreFirstSlice, CoreNextSlice DEF SliceHeader
<1>4. CASE PurgeSlot
  BY <1>1, <1>4, CorePurgeSlot
<1>5. CASE PurgeDone \/ SkipPicture \/ NoFreeMvBank \/ NoFreePicBuf
  BY <1>1, <1>5, CoreNoPicture
<1>6. CASE PicInit
  BY <1>1, <1>6, CorePicInit
<1>7. CASE FinishPicture
  BY <1>1, <1>7, CoreFinishPicture
<1>8. CASE FlushOne
  BY <1>1, <1>8, CoreFlushOne
<1>9. CASE SetFlushMode \/ ResolutionChange \/ FlushEnd
  BY <1>1, <1>9, CoreFlags
<1>10. CASE FlushReset \/ Reset
  BY <1>1, <1>10, CoreCleared DEF FlushReset, Reset, InFlush
<1>11. CASE SetDisplayFrame
  BY <1>1, <1>11, CoreSetDisplayFrame
<1>12. CASE \E b \in Bufs : RelDisplayFrame(b)
  BY <1>1, <1>12, CoreRelDisplayFrame
<1> QED
  BY <1>1, <1>2, <1>3, <1>4, <1>5, <1>6, <1>7, <1>8, <1>9, <1>10, <1>11, <1>12
     DEF Next, DecodeStep, ControlCall

(* In every run, for every stream and in every mode, each variable has its *)
(* type, the DPB's list threads its occupied slots, and a buffer has its   *)
(* REF bit exactly while the DPB holds it.                                 *)
THEOREM CoreCorrect == Spec => []CoreInv
<1>1. Init => CoreInv
  BY CoreInit
<1>2. CoreInv /\ [Next]_vars => CoreInv'
  BY CoreNext
<1> QED BY <1>1, <1>2, PTL DEF Spec

(* Every variable keeps its type through every call of the API, so that no *)
(* index or status word leaves its range.                                  *)
THEOREM TypeCorrect == Spec => []TypeOK
<1>1. CoreInv => TypeOK
  BY DEF CoreInv
<1> QED BY <1>1, CoreCorrect, PTL

(* In every run the DPB's list threads exactly its occupied slots, through *)
(* every insertion, release of unused pictures and reset.                  *)
THEOREM DpbCorrect == Spec => []DpbIntact
<1>1. CoreInv => DpbIntact
  BY DEF CoreInv
<1> QED BY <1>1, CoreCorrect, PTL

(* A picture buffer has its REF bit exactly while the DPB holds it: the    *)
(* status words and the DPB, updated by separate calls, never disagree.    *)
THEOREM ReferencesCorrect == Spec => []RefBitIsDpb
<1>1. CoreInv => RefBitIsDpb
  BY DEF CoreInv
<1> QED BY <1>1, CoreCorrect, PTL

-----------------------------------------------------------------------------
(* The use of the buffers.  Two modes are excluded, those in which a flush *)
(* call does not keep track of the picture it takes from the queue.        *)
SafeModes == ~(Shared /\ Planar) /\ OutBufFits = {TRUE}

LEMMA BitsDiffer == DEC # REF /\ DEC # DISP /\ REF # DISP
BY DEF DEC, REF, DISP

LEMMA UseInit == Init => UseInv
<1>1. SUFFICES ASSUME Init PROVE UseInv
  OBVIOUS
<1>2. Waiting(disp) = {} /\ ToBeSeen = {}
  BY <1>1 DEF Init, Waiting, ToBeSeen
<1> QED BY <1>1, <1>2 DEF Init, UseInv, DispBitIsUse, NoLostBuffer, OutputInv

(* Between pictures, the pictures to be seen are those waiting and those   *)
(* the application owns.                                                   *)
LEMMA SeenBetweenPictures ==
  ASSUME CoreInv, OutputInv, curBuf = NoBuf
  PROVE  dispBuf = NoBuf /\ ToBeSeen = Waiting(disp) \cup held
<1>1. Waiting(disp) \subseteq Bufs /\ held \subseteq Bufs
  BY DEF Waiting, CoreInv, TypeOK
<1> QED BY <1>1, Constants DEF OutputInv, ToBeSeen

(* Steps the abstract pool does not see.                                   *)
LEMMA UseSame ==
  ASSUME UseInv, UNCHANGED <<picSt, dpbSlot, disp, held, curBuf, dispBuf>>
  PROVE  UseInv' /\ UNCHANGED Pool!vars
BY DEF UseInv, DispBitIsUse, NoLostBuffer, OutputInv, ToBeSeen, Pool!vars

LEMMA UsePurgeSlot ==
  ASSUME CoreInv, UseInv, PurgeSlot
  PROVE  UseInv' /\ (UNCHANGED Pool!vars \/ \E b \in Bufs : Pool!DropRef(b))
<1>1. UNCHANGED <<disp, held, curBuf, dispBuf>>
  BY DEF PurgeSlot, dispVars
<1>2. CASE MustRelease(slot)
  <2>1. PICK b \in Bufs :
           /\ b \in DpbBufs(dpbSlot)
           /\ picSt' = Released(picSt, b, REF)
           /\ DpbBufs(dpbSlot') = DpbBufs(dpbSlot) \ {b}
    <3>1. DelRef(picPoc[dpbSlot[slot]])
      BY <1>2 DEF PurgeSlot
    <3> QED BY <3>1, DelRefEffect DEF CoreInv
  <2>2. /\ picSt' \in [Bufs -> SUBSET StatusBits]
        /\ \A k \in Bufs : k # b => picSt'[k] = picSt[k]
        /\ \A x \in {REF, DISP} : x \in picSt'[b] <=> x \in picSt[b] /\ x # REF
        /\ picSt'[b] # {DEC}
    <3>1. picSt \in [Bufs -> SUBSET StatusBits] /\ REF \in {REF, DISP}
      BY DEF CoreInv, TypeOK
    <3> QED BY <2>1, <3>1, ReleaseOneUse
  <2>3. ToBeSeen' = ToBeSeen
    BY <1>1 DEF ToBeSeen
  <2>4. DispBitIsUse'
    BY <2>2, <2>3, BitsDiffer DEF UseInv, DispBitIsUse
  <2>5. picSt'[b] = {} \/ DISP \in picSt'[b]
    BY <2>2, BitsDiffer DEF StatusBits
  <2>6. NoLostBuffer'
    BY <1>1, <2>1, <2>2, <2>3, <2>4, <2>5 DEF UseInv, NoLostBuffer, DispBitIsUse
  <2>7. OutputInv'
    BY <1>1 DEF UseInv, OutputInv
  <2>8. Pool!DropRef(b)
    BY <1>1, <2>1, <2>3 DEF Pool!DropRef
  <2> QED BY <2>4, <2>6, <2>7, <2>8 DEF UseInv
<1>3. CASE ~MustRelease(slot)
  BY <1>1, <1>3, UseSame DEF PurgeSlot, dpbVars
<1> QED BY <1>2, <1>3

(* The buffer ihevcd_parse_pic_init acquires is in no use.                 *)
LEMMA UsePicInit ==
  ASSUME CoreInv, UseInv, PicInit
  PROVE  UseInv' /\ \E b \in Bufs : Pool!Take(b)
<1>1. PICK b \in Bufs, frameOut \in FrameOutModes :
        /\ picSt[b] = {}
        /\ picSt' = Acquired(picSt, b)
        /\ curBuf' = b
        /\ Bump(Queued(disp, b, slicePoc), frameOut)
  BY DEF PicInit, IsNextFree, IsFree
<1>2. /\ curBuf = NoBuf /\ slicePoc \in Pocs /\ b # NoBuf
      /\ UNCHANGED <<dpbSlot, held>>
  BY Constants DEF PicInit, dpbVars, CoreInv, CallInv, TypeOK
<1>3. ToBeSeen = Waiting(disp) \cup held
  BY <1>2, SeenBetweenPictures DEF UseInv
<1>4. b \notin DpbBufs(dpbSlot) /\ b \notin ToBeSeen
  BY <1>1 DEF CoreInv, RefBitIsDpb, UseInv, DispBitIsUse
<1> DEFINE queue == Queued(disp, b, slicePoc)
<1>5. Waiting(queue) = Waiting(disp) \cup {b} /\ queue \in [Bufs -> Int]
  <2>1. /\ disp \in [Bufs -> Pocs \cup {NotQueued}] /\ disp[b] = NotQueued
        /\ slicePoc # NotQueued
    BY <1>2, <1>3, <1>4, Constants DEF CoreInv, TypeOK, Waiting
  <2>2. queue = [disp EXCEPT ![b] = slicePoc]
    BY <2>1 DEF Queued
  <2>3. Pocs \subseteq Int /\ NotQueued \in Int
    BY PocsAssumption DEF NotQueued
  <2> QED BY <1>2, <2>1, <2>2, <2>3 DEF Waiting
<1>6. \/ \E c \in Waiting(queue) : dispBuf' = c /\ Waiting(disp') = Waiting(queue) \ {c}
      \/ dispBuf' = NoBuf /\ Waiting(disp') = Waiting(queue)
  <2>1. CASE backlog >= MaxReorder \/ frameOut
    <3>1. PICK c \in Waiting(queue) : dispBuf' = c /\ disp' = Dequeued(queue, c)
      BY <1>1, <2>1 DEF Bump, IsNextOutput
    <3>2. Waiting(disp') = Waiting(queue) \ {c}
      BY <1>5, <3>1 DEF Waiting, Dequeued
    <3> QED BY <3>1, <3>2
  <2>2. CASE ~(backlog >= MaxReorder \/ frameOut)
    BY <1>1, <2>2 DEF Bump
  <2> QED BY <2>1, <2>2
<1> HIDE DEF queue
<1>7. Waiting(disp) \subseteq Bufs /\ NoBuf \notin Bufs /\ held \subseteq Bufs
  BY Constants DEF Waiting, CoreInv, TypeOK
<1>8. ToBeSeen' = ToBeSeen
  BY <1>1, <1>2, <1>3, <1>4, <1>5, <1>6, <1>7 DEF ToBeSeen
<1>9. /\ picSt'[b] = {DEC}
      /\ \A c \in Bufs : c # b => picSt'[c] = picSt[c]
  BY <1>1 DEF Acquired, CoreInv, TypeOK
<1>10. DispBitIsUse'
  BY <1>4, <1>8, <1>9, BitsDiffer DEF UseInv, DispBitIsUse
<1>11. NoLostBuffer'
  <2>1. SUFFICES ASSUME NEW c \in Bufs, picSt'[c] # {}
                 PROVE  c \in DpbBufs(dpbSlot)' \cup ToBeSeen' \cup {curBuf'}
    BY DEF NoLostBuffer
  <2>2. CASE c # b
    <3>1. c \in DpbBufs(dpbSlot) \cup ToBeSeen \cup {NoBuf}
      BY <1>2, <1>9, <2>1, <2>2 DEF UseInv, NoLostBuffer
    <3>2. c # NoBuf
      BY Constants
    <3> QED BY <1>2, <1>8, <3>1, <3>2
  <2> QED BY <1>1, <2>2
<1>12. OutputInv'
  BY <1>1, <1>2, <1>3, <1>4, <1>5, <1>6, <1>7 DEF UseInv, OutputInv
<1>13. Pool!Take(b)
  BY <1>1, <1>2, <1>4, <1>8 DEF Pool!Take
<1> QED BY <1>10, <1>11, <1>12, <1>13 DEF UseInv

(* At the end of a picture it is a reference and to be seen; a private     *)
(* buffer that was copied to the application has been seen.                *)
LEMMA UseFinish ==
  ASSUME CoreInv, UseInv, FinishPicture
  PROVE  UseInv' /\ \E b \in Bufs : Pool!Publish(b)
<1>1. /\ curBuf \in Bufs /\ curBuf # NoBuf
      /\ curBuf' = NoBuf /\ dispBuf' = NoBuf /\ disp' = disp
      /\ held' = IF dispBuf # NoBuf /\ Shared THEN held \cup {dispBuf} ELSE held
  BY Constants, FinishEffect DEF FinishPicture
<1>2. /\ DpbBufs(dpbSlot') = DpbBufs(dpbSlot) \cup {curBuf}
      /\ curBuf \notin DpbBufs(dpbSlot)
  <2>1. curBuf \notin DpbBufs(dpbSlot)
    BY <1>1, BitsDiffer DEF CoreInv, CallInv, RefBitIsDpb
  <2> QED BY <1>1, <2>1, InsertRefEffect DEF FinishPicture, CoreInv
<1>3. /\ Waiting(disp) \subseteq Bufs /\ held \subseteq Bufs /\ NoBuf \notin Bufs
      /\ curBuf \notin held
      /\ dispBuf \in Bufs \cup {NoBuf}
  BY <1>1, Constants
     DEF Waiting, CoreInv, TypeOK, UseInv, OutputInv, CallInv, FinishPicture
<1>4. /\ ToBeSeen = ((Waiting(disp) \cup {dispBuf}) \ {curBuf, NoBuf}) \cup held
      /\ ToBeSeen' = Waiting(disp) \cup held'
  BY <1>1, <1>3 DEF ToBeSeen
<1>5. /\ curBuf \in Waiting(disp) \cup {dispBuf}
      /\ dispBuf # NoBuf => dispBuf \notin Waiting(disp) \cup held
      /\ ~Shared => held = {}
      /\ Waiting(disp) \cap held = {}
  BY <1>1 DEF UseInv, OutputInv
<1>6. ASSUME Shared \/ dispBuf = NoBuf
      PROVE  DispBitIsUse' /\ Pool!Publish(curBuf)
  <2>1. ToBeSeen' = ToBeSeen \cup {curBuf}
    BY <1>1, <1>3, <1>4, <1>5, <1>6
  <2>2. \A b \in Bufs : DISP \in picSt'[b] <=> DISP \in picSt[b] \/ b = curBuf
    BY <1>3, <1>6, FinishEffect
  <2> QED BY <1>1, <1>2, <2>1, <2>2 DEF UseInv, DispBitIsUse, Pool!Publish
<1>7. ASSUME ~Shared /\ dispBuf # NoBuf
      PROVE  DispBitIsUse' /\ Pool!Publish(curBuf)
  <2>1. /\ ToBeSeen' = (ToBeSeen \cup {curBuf}) \ {dispBuf}
        /\ dispBuf \in ToBeSeen \cup {curBuf}
    BY <1>1, <1>3, <1>4, <1>5, <1>7
  <2>2. \A b \in Bufs : DISP \in picSt'[b] <=>
          (DISP \in picSt[b] \/ b = curBuf) /\ b # dispBuf
    BY <1>7, FinishEffect
  <2> QED BY <1>1, <1>2, <2>1, <2>2 DEF UseInv, DispBitIsUse, Pool!Publish
<1>8. DispBitIsUse' /\ Pool!Publish(curBuf)
  BY <1>6, <1>7
<1>9. NoLostBuffer'
  <2>1. SUFFICES ASSUME NEW b \in Bufs, picSt'[b] # {}
                 PROVE  b \in DpbBufs(dpbSlot)' \cup ToBeSeen' \cup {curBuf'}
    BY DEF NoLostBuffer
  <2>2. CASE REF \in picSt'[b]
    BY <1>2, <2>2, FinishEffect DEF CoreInv, RefBitIsDpb
  <2>3. CASE DISP \in picSt'[b]
    BY <1>8, <2>3 DEF DispBitIsUse
  <2>4. CASE picSt'[b] = {DEC}
    <3>1. picSt[b] = {DEC} /\ b # curBuf
      BY <2>4, FinishEffect
    <3>2. b \in DpbBufs(dpbSlot) \cup ToBeSeen
      BY <3>1 DEF UseInv, NoLostBuffer
    <3> QED BY <3>1, <3>2, BitsDiffer DEF UseInv, DispBitIsUse, CoreInv, RefBitIsDpb
  <2>5. picSt'[b] \subseteq {DEC, REF, DISP}
    BY FinishEffect DEF StatusBits
  <2> QED BY <2>1, <2>2, <2>3, <2>4, <2>5
<1>10. OutputInv'
  BY <1>1, <1>3, <1>5 DEF OutputInv
<1> QED BY <1>1, <1>8, <1>9, <1>10 DEF UseInv

(* One use of one buffer that someone has seen: a picture a flush outputs, *)
(* or a buffer the application gives back.                                 *)
LEMMA UseSeen ==
  ASSUME CoreInv, UseInv, NEW b \in Bufs, b \in ToBeSeen,
         curBuf = NoBuf, UNCHANGED <<dpbSlot, curBuf, dispBuf>>,
         picSt' = Released(picSt, b, DISP),
         ToBeSeen' = ToBeSeen \ {b}
  PROVE  DispBitIsUse' /\ NoLostBuffer' /\ Pool!Seen(b)
<1>1. /\ picSt' \in [Bufs -> SUBSET StatusBits]
      /\ \A k \in Bufs : k # b => picSt'[k] = picSt[k]
      /\ \A x \in {REF, DISP} : x \in picSt'[b] <=> x \in picSt[b] /\ x # DISP
      /\ picSt'[b] # {DEC}
  <2>1. picSt \in [Bufs -> SUBSET StatusBits] /\ DISP \in {REF, DISP}
    BY DEF CoreInv, TypeOK
  <2> QED BY <2>1, ReleaseOneUse
<1>2. DispBitIsUse'
  BY <1>1, BitsDiffer DEF UseInv, DispBitIsUse
<1>3. picSt'[b] = {} \/ REF \in picSt'[b]
  BY <1>1, BitsDiffer DEF StatusBits
<1>4. REF \in picSt'[b] => b \in DpbBufs(dpbSlot)
  BY <1>1 DEF CoreInv, RefBitIsDpb
<1>5. NoLostBuffer'
  BY <1>1, <1>3, <1>4 DEF UseInv, NoLostBuffer
<1>6. Pool!Seen(b)
  BY DEF Pool!Seen
<1> QED BY <1>2, <1>5, <1>6

(* A flush call returns one picture to the application: a copy of it when  *)
(* the buffers are private, the buffer itself when they are shared.        *)
LEMMA UseFlushOne ==
  ASSUME CoreInv, UseInv, SafeModes, FlushOne
  PROVE  UseInv' /\ (UNCHANGED Pool!vars \/ \E b \in Bufs : Pool!Seen(b))
<1>1. PICK b \in Bufs :
        /\ b \in Waiting(disp)
        /\ disp' = Dequeued(disp, b)
        /\ picSt' = IF Shared THEN picSt ELSE Released(picSt, b, DISP)
        /\ held' = IF Shared THEN held \cup {b} ELSE held
  BY DEF FlushOne, IsNextOutput, SafeModes
<1>2. /\ phase = "idle" /\ curBuf = NoBuf
      /\ UNCHANGED <<dpbSlot, curBuf, dispBuf>>
  BY DEF FlushOne, InFlush, dpbVars, callVars, CoreInv, CallInv
<1>3. dispBuf = NoBuf /\ ToBeSeen = Waiting(disp) \cup held
  BY <1>2, SeenBetweenPictures DEF UseInv
<1>4. Waiting(disp') = Waiting(disp) \ {b}
  BY <1>1 DEF Waiting, Dequeued, CoreInv, TypeOK
<1>5. Waiting(disp) \subseteq Bufs /\ held \subseteq Bufs /\ NoBuf \notin Bufs
  BY Constants DEF Waiting, CoreInv, TypeOK
<1>6. ToBeSeen' = Waiting(disp') \cup held'
  BY <1>1, <1>2, <1>3, <1>4, <1>5 DEF ToBeSeen
<1>7. Waiting(disp) \cap held = {} /\ (~Shared => held = {})
  BY DEF UseInv, OutputInv
<1>8. OutputInv'
  BY <1>1, <1>2, <1>3, <1>4, <1>7 DEF OutputInv
<1>9. CASE Shared
  <2>1. ToBeSeen' = ToBeSeen /\ picSt' = picSt
    BY <1>1, <1>3, <1>4, <1>6, <1>9
  <2>2. DispBitIsUse' /\ NoLostBuffer' /\ UNCHANGED Pool!vars
    BY <1>2, <2>1 DEF UseInv, DispBitIsUse, NoLostBuffer, Pool!vars
  <2> QED BY <1>8, <2>2 DEF UseInv
<1>10. CASE ~Shared
  <2>1. /\ ToBeSeen' = ToBeSeen \ {b} /\ b \in ToBeSeen
        /\ picSt' = Released(picSt, b, DISP)
    BY <1>1, <1>3, <1>4, <1>6, <1>7, <1>10
  <2>2. DispBitIsUse' /\ NoLostBuffer' /\ Pool!Seen(b)
    BY <1>2, <2>1, UseSeen
  <2> QED BY <1>8, <2>2 DEF UseInv
<1> QED BY <1>9, <1>10

LEMMA UseRelDisplayFrame ==
  ASSUME CoreInv, UseInv, NEW b \in Bufs, RelDisplayFrame(b)
  PROVE  UseInv' /\ Pool!Seen(b)
<1>1. /\ b \in held /\ curBuf = NoBuf
      /\ picSt' = Released(picSt, b, DISP)
      /\ held' = held \ {b}
      /\ UNCHANGED <<dpbSlot, disp, curBuf, dispBuf>>
  BY DEF RelDisplayFrame, dpbVars, dispVars, callVars, CoreInv, CallInv
<1>2. dispBuf = NoBuf /\ ToBeSeen = Waiting(disp) \cup held
  BY <1>1, SeenBetweenPictures DEF UseInv
<1>3. /\ Waiting(disp) \subseteq Bufs /\ held \subseteq Bufs /\ NoBuf \notin Bufs
      /\ Waiting(disp) \cap held = {}
  BY Constants DEF Waiting, CoreInv, TypeOK, UseInv, OutputInv
<1>4. ToBeSeen' = ToBeSeen \ {b} /\ b \in ToBeSeen
  BY <1>1, <1>2, <1>3 DEF ToBeSeen
<1>5. DispBitIsUse' /\ NoLostBuffer' /\ Pool!Seen(b)
  BY <1>1, <1>4, UseSeen
<1>6. OutputInv'
  BY <1>1, <1>2, <1>3 DEF UseInv, OutputInv
<1> QED BY <1>5, <1>6 DEF UseInv

(* The application's buffers arrive when nothing has been decoded.         *)
LEMMA UseSetDisplayFrame ==
  ASSUME CoreInv, UseInv, SetDisplayFrame
  PROVE  UseInv' /\ Pool!HandOver
<1>1. /\ Shared /\ curBuf = NoBuf
      /\ DpbBufs(dpbSlot) = {} /\ Waiting(disp) = {} /\ held = {}
      /\ picSt' = [b \in Bufs |-> {DISP}] /\ held' = Bufs
      /\ UNCHANGED <<dpbSlot, disp, curBuf, dispBuf>>
  BY DEF SetDisplayFrame, dpbVars, dispVars, callVars, CoreInv, CallInv, AttachInv
<1>2. dispBuf = NoBuf /\ ToBeSeen = {}
  BY <1>1, SeenBetweenPictures DEF UseInv
<1>3. ToBeSeen' = Bufs
  BY <1>1, <1>2, Constants DEF ToBeSeen
<1>4. DispBitIsUse' /\ NoLostBuffer'
  BY <1>1, <1>3 DEF DispBitIsUse, NoLostBuffer
<1>5. OutputInv'
  BY <1>1, <1>2 DEF OutputInv
<1>6. Pool!HandOver
  BY <1>1, <1>2, <1>3 DEF Pool!HandOver
<1> QED BY <1>4, <1>5, <1>6 DEF UseInv

LEMMA UseCleared ==
  ASSUME CoreInv, UseInv, phase = "idle", Cleared, UNCHANGED <<curBuf, dispBuf>>
  PROVE  UseInv' /\ Pool!Clear
<1>1. /\ curBuf = NoBuf /\ curBuf' = NoBuf
      /\ picSt' = [b \in Bufs |-> {}] /\ held' = {}
  BY DEF Cleared, CoreInv, CallInv
<1>2. dispBuf' = NoBuf
  BY <1>1 DEF UseInv, OutputInv
<1>3. Waiting(disp') = {} /\ DpbBufs(dpbSlot') = {}
  BY DEF Cleared, Waiting, DpbBufs
<1>4. ToBeSeen' = {}
  BY <1>1, <1>2, <1>3 DEF ToBeSeen
<1>5. UseInv'
  BY <1>1, <1>2, <1>3, <1>4 DEF UseInv, DispBitIsUse, NoLostBuffer, OutputInv
<1>6. Pool!Clear
  BY <1>1, <1>3, <1>4 DEF Pool!Clear
<1> QED BY <1>5, <1>6

(* Every other step leaves the buffers and the queue as they are.          *)
LEMMA UseOther ==
  ASSUME CoreInv, UseInv,
         \/ SliceHeader \/ PurgeDone \/ SkipPicture \/ NoFreeMvBank \/ NoFreePicBuf
         \/ SetFlushMode \/ ResolutionChange \/ FlushEnd \/ UNCHANGED vars
  PROVE  UseInv' /\ UNCHANGED Pool!vars
<1> USE DEF mgrVars, dpbVars, dispVars, callVars
<1> SUFFICES UNCHANGED <<picSt, dpbSlot, disp, held, curBuf, dispBuf>>
  BY UseSame
<1>1. CASE SliceHeader
  BY <1>1 DEF SliceHeader, FirstSliceIntra, FirstSliceRefs, NextSliceIntra,
              NextSliceRefs
<1>2. CASE PurgeDone \/ SkipPicture \/ NoFreeMvBank \/ NoFreePicBuf
  BY <1>2 DEF PurgeDone, SkipPicture, NoFreeMvBank, NoFreePicBuf
<1>3. CASE SetFlushMode \/ ResolutionChange \/ FlushEnd
  BY <1>3 DEF SetFlushMode, ResolutionChange, FlushEnd
<1>4. CASE UNCHANGED vars
  BY <1>4 DEF vars
<1> QED BY <1>1, <1>2, <1>3, <1>4

LEMMA UseNext ==
  ASSUME CoreInv, UseInv, SafeModes, [Next]_vars
  PROVE  UseInv' /\ [Pool!Next]_(Pool!vars)
<1>1. CASE PurgeSlot
  BY <1>1, UsePurgeSlot DEF Pool!Next
<1>2. CASE PicInit
  BY <1>2, UsePicInit DEF Pool!Next
<1>3. CASE FinishPicture
  BY <1>3, UseFinish DEF Pool!Next
<1>4. CASE FlushOne
  BY <1>4, UseFlushOne DEF Pool!Next
<1>5. CASE \E b \in Bufs : RelDisplayFrame(b)
  BY <1>5, UseRelDisplayFrame DEF Pool!Next
<1>6. CASE SetDisplayFrame
  BY <1>6, UseSetDisplayFrame DEF Pool!Next
<1>7. CASE FlushReset \/ Reset
  BY <1>7, UseCleared DEF FlushReset, Reset, InFlush, Pool!Next
<1>8. CASE \/ SliceHeader \/ PurgeDone \/ SkipPicture \/ NoFreeMvBank \/ NoFreePicBuf
           \/ SetFlushMode \/ ResolutionChange \/ FlushEnd \/ UNCHANGED vars
  BY <1>8, UseOther
<1> QED
  BY <1>1, <1>2, <1>3, <1>4, <1>5, <1>6, <1>7, <1>8 DEF Next, DecodeStep, ControlCall

LEMMA UseCorrect == SafeModes => (Spec => [](CoreInv /\ UseInv))
<1>1. SUFFICES ASSUME SafeModes PROVE Spec => [](CoreInv /\ UseInv)
  OBVIOUS
<1>2. Init => CoreInv /\ UseInv
  BY CoreInit, UseInit
<1>3. CoreInv /\ UseInv /\ [Next]_vars => (CoreInv /\ UseInv)'
  BY <1>1, CoreNext, UseNext
<1> QED BY <1>2, <1>3, PTL DEF Spec

(* Where flush calls keep track of what they output, a buffer has its DISP *)
(* bit exactly while it is still to be seen.                               *)
THEOREM DisplayCorrect == SafeModes => (Spec => []DispBitIsUse)
<1>1. UseInv => DispBitIsUse
  BY DEF UseInv
<1> QED BY <1>1, UseCorrect, PTL

(* In the same modes a buffer in no use is free for the next picture:      *)
(* ihevc_buf_mgr_get_next_free will find it, after any order of releases   *)
(* by the DPB, by the display queue and by the application.                *)
THEOREM NothingLost == SafeModes => (Spec => []NoLostBuffer)
<1>1. UseInv => NoLostBuffer
  BY DEF UseInv
<1> QED BY <1>1, UseCorrect, PTL

(* In the same modes ihevcd_decode never writes to a buffer that the       *)
(* application has not released.                                           *)
THEOREM ApplicationCorrect == SafeModes => (Spec => []AppOwnsUntilRelease)
<1>1. UseInv => AppOwnsUntilRelease
  BY DEF UseInv, OutputInv, AppOwnsUntilRelease
<1> QED BY <1>1, UseCorrect, PTL

(* In the same modes, whatever the stream, the picture buffers behave as   *)
(* the abstract pool: a buffer is decoded into only when it is neither a   *)
(* reference nor still to be seen.                                         *)
THEOREM PoolRefined == SafeModes => (Spec => RefinesPool)
<1>1. SUFFICES ASSUME SafeModes PROVE Spec => RefinesPool
  OBVIOUS
<1>2. Init => Pool!Init
  <2>1. SUFFICES ASSUME Init PROVE Pool!Init
    OBVIOUS
  <2>2. Waiting(disp) = {} /\ DpbBufs(dpbSlot) = {}
    BY <2>1 DEF Init, Waiting, DpbBufs
  <2> QED BY <2>1, <2>2 DEF Init, Pool!Init, ToBeSeen
<1>3. CoreInv /\ UseInv /\ [Next]_vars => [Pool!Next]_(Pool!vars)
  BY <1>1, UseNext
<1> QED BY <1>1, <1>2, <1>3, UseCorrect, PTL DEF Spec, RefinesPool, Pool!Spec

(* In the same modes, the decoder leaves flush mode only when every buffer *)
(* marked for display is in the application's hands.                       *)
THEOREM FlushCorrect == SafeModes => (Spec => FlushReturnsAll)
<1>1. SUFFICES ASSUME SafeModes PROVE Spec => FlushReturnsAll
  OBVIOUS
<1> DEFINE Returned == flushMode /\ ~flushMode' =>
                         \A b \in Bufs : DISP \in picSt'[b] => b \in held'
<1>2. ASSUME CoreInv, UseInv, [Next]_vars PROVE Returned
  <2>1. SUFFICES ASSUME flushMode, ~flushMode' PROVE Returned
    OBVIOUS
  <2>2. FlushEnd \/ FlushReset \/ Reset
    <3> USE DEF dispVars, MayDecode
    <3>1. ~SliceHeader
      BY <2>1 DEF SliceHeader, FirstSliceIntra, FirstSliceRefs, NextSliceIntra,
                  NextSliceRefs
    <3>2. ~PurgeSlot /\ ~PurgeDone /\ ~SkipPicture /\ ~NoFreeMvBank /\ ~NoFreePicBuf
      BY <2>1 DEF PurgeSlot, PurgeDone, SkipPicture, NoFreeMvBank, NoFreePicBuf
    <3>3. ~PicInit /\ ~FinishPicture /\ ~FlushOne
      BY <2>1 DEF PicInit, FinishPicture, FlushOne
    <3>4. ~SetFlushMode /\ ~ResolutionChange /\ ~SetDisplayFrame
      BY <2>1 DEF SetFlushMode, ResolutionChange, SetDisplayFrame
    <3>5. ~ \E b \in Bufs : RelDisplayFrame(b)
      BY <2>1 DEF RelDisplayFrame
    <3>6. ~ UNCHANGED vars
      BY <2>1 DEF vars
    <3> QED
      BY <1>2, <3>1, <3>2, <3>3, <3>4, <3>5, <3>6 DEF Next, DecodeStep, ControlCall
  <2>3. CASE FlushEnd
    <3>1. /\ Waiting(disp) = {} /\ curBuf = NoBuf
          /\ UNCHANGED <<picSt, held>>
      BY <1>2, <2>3 DEF FlushEnd, InFlush, mgrVars, CoreInv, CallInv
    <3>2. ToBeSeen = held
      BY <1>2, <3>1, SeenBetweenPictures DEF UseInv
    <3> QED BY <1>2, <3>1, <3>2 DEF UseInv, DispBitIsUse
  <2>4. CASE FlushReset \/ Reset
    BY <2>4 DEF FlushReset, Reset, Cleared
  <2> QED BY <2>2, <2>3, <2>4
<1>3. CoreInv /\ UseInv /\ [Next]_vars => [Returned]_vars
  BY <1>2
<1> QED BY <1>1, <1>3, UseCorrect, PTL DEF Spec, FlushReturnsAll

=============================================================================
