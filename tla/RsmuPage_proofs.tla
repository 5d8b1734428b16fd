-------------------------- MODULE RsmuPage_proofs --------------------------
(***************************************************************************)
(* Proofs about RsmuPage for any clients, pages, offsets and values: types,*)
(* that every transfer is on its page, and that paged access implements    *)
(* the flat register file, all under CacheIsSound.                         *)
(***************************************************************************)
EXTENDS RsmuPage, TLAPS

USE PageAssumption DEF PageAssumption

(* The lock excludes clients from each other between their page write and  *)
(* their transfer, and rsmu->page, once set, is the page of the device.    *)
Exclusive == \A c \in Clients : pc[c] \in {"page", "access"} <=> lock = c
CacheRight == cache \in Pages => hwPage = cache
OnItsPage == \A c \in Clients : pc[c] = "access" => cache = Page(c)
Answering == \A c \in Clients : answer[c] = Pending <=> pc[c] # "idle"

IInv == TypeOK /\ Exclusive /\ CacheRight /\ OnItsPage /\ Answering

LEMMA InitIInv ==
  ASSUME CacheIsSound, Init
  PROVE  IInv
BY DEF CacheIsSound, Init, IInv, TypeOK, Exclusive, CacheRight, OnItsPage, Answering,
       Requests, Addresses

LEMMA CallIInv ==
  ASSUME CacheIsSound, IInv, NEW c \in Clients, NEW r \in Requests, Call(c, r)
  PROVE  IInv'
BY DEF IInv, TypeOK, Exclusive, CacheRight, OnItsPage, Answering, Call, Goto, Page

LEMMA LockIInv ==
  ASSUME CacheIsSound, IInv, NEW c \in Clients, Lock(c)
  PROVE  IInv'
BY DEF IInv, TypeOK, Exclusive, CacheRight, OnItsPage, Answering, Lock, Locked, Goto, Page

LEMMA PageIInv ==
  ASSUME CacheIsSound, IInv, NEW c \in Clients,
         SamePage(c) \/ WritePage(c) \/ WritePageFails(c)
  PROVE  IInv'
<1> USE DEF IInv, TypeOK, Exclusive, CacheRight, OnItsPage, Answering, Goto, Page
<1>0. Page(c) \in Pages
  BY DEF Requests, Addresses
<1>1. CASE SamePage(c)
  BY <1>1 DEF SamePage
<1>2. CASE WritePage(c)
  BY <1>0, <1>2 DEF WritePage, Remember
<1>3. CASE WritePageFails(c)
  BY <1>3 DEF WritePageFails, CacheAfterError, Errs, Return, CacheIsSound
<1> QED BY <1>1, <1>2, <1>3

LEMMA AddressedTyped ==
  ASSUME TypeOK, NEW c \in Clients
  PROVE  Addressed(c) \in Addresses
BY DEF TypeOK, Addressed, Addresses, Offset, Requests

LEMMA StoredTyped ==
  ASSUME TypeOK, NEW c \in Clients, request[c].val # Nothing, Stored(c)
  PROVE  regs' \in [Addresses -> Vals]
<1>1. request[c].val \in Vals
  BY DEF TypeOK, Requests
<1> QED BY <1>1, AddressedTyped DEF TypeOK, Stored

LEMMA AccessIInv ==
  ASSUME CacheIsSound, IInv, NEW c \in Clients,
         Read(c) \/ Write(c) \/ AccessFails(c)
  PROVE  IInv'
<1> USE DEF IInv, Exclusive, CacheRight, OnItsPage, Answering, Goto, Page, Return
<1>1. CASE Read(c)
  <2>1. regs[Addressed(c)] \in Vals
    BY AddressedTyped DEF TypeOK
  <2> QED BY <1>1, <2>1 DEF Read, TypeOK
<1>2. CASE Write(c)
  <2>1. regs' \in [Addresses -> Vals] /\ request[c].val \in Vals
    BY <1>2, StoredTyped DEF Write, TypeOK, Requests
  <2> QED BY <1>2, <2>1 DEF Write, TypeOK
<1>3. CASE AccessFails(c)
  <2>1. regs' \in [Addresses -> Vals]
    BY <1>3, StoredTyped DEF AccessFails, TypeOK
  <2> QED BY <1>3, <2>1 DEF AccessFails, Errs, TypeOK
<1> QED BY <1>1, <1>2, <1>3

LEMMA NextIInv ==
  ASSUME CacheIsSound, IInv, [Next]_vars
  PROVE  IInv'
<1>1. CASE UNCHANGED vars
  BY <1>1 DEF vars, IInv, TypeOK, Exclusive, CacheRight, OnItsPage, Answering, Page
<1>2. CASE Reload
  BY <1>2 DEF Reload, CacheIsSound, IInv, TypeOK, Exclusive, CacheRight, OnItsPage,
              Answering, Page
<1> QED BY <1>1, <1>2, CallIInv, LockIInv, PageIInv, AccessIInv DEF Next

THEOREM PageInvariant == CacheIsSound /\ Spec => []IInv
<1> SUFFICES ASSUME CacheIsSound PROVE Spec => []IInv
  OBVIOUS
<1>1. Init => IInv
  BY InitIInv
<1>2. IInv /\ [Next]_vars => IInv'
  BY NextIInv
<1>3. QED
  BY <1>1, <1>2, PTL DEF Spec

(* Clients, cache, page and registers keep their types.                    *)
THEOREM PageTypes == CacheIsSound /\ Spec => []TypeOK
<1>1. IInv => TypeOK
  BY DEF IInv
<1>2. QED
  BY <1>1, PageInvariant, PTL

(* No transfer goes out while the device is on another page: a page in     *)
(* flight is the cached one, and the cached one is the device's.           *)
LEMMA OnPage ==
  ASSUME IInv
  PROVE  AccessOnItsPage
BY DEF IInv, TypeOK, OnItsPage, CacheRight, AccessOnItsPage, Page, Requests, Addresses

THEOREM AccessesOnTheirPage == CacheIsSound /\ Spec => []AccessOnItsPage
<1>1. IInv => AccessOnItsPage
  BY OnPage
<1>2. QED
  BY <1>1, PageInvariant, PTL

-----------------------------------------------------------------------------
(* Refinement of the flat register file. *)

LEMMA InitRefines ==
  ASSUME Init
  PROVE  File!FileInit
BY DEF Init, File!FileInit, Requests, File!Requests

LEMMA AddressedIsAsked ==
  ASSUME IInv, NEW c \in Clients, pc[c] = "access"
  PROVE  Addressed(c) = request[c].addr
<1>1. request[c].addr \in Pages \X Offsets
  BY DEF IInv, TypeOK, Requests, Addresses
<1>2. hwPage = request[c].addr[1]
  BY OnPage DEF AccessOnItsPage, Page
<1> QED BY <1>1, <1>2 DEF Addressed, Offset

LEMMA NextRefines ==
  ASSUME CacheIsSound, IInv, [Next]_vars
  PROVE  [File!FileNext]_(File!fileVars)
<1> USE DEF IInv, Answering, Goto, Return
<1>1. ASSUME NEW c \in Clients, NEW r \in Requests, Call(c, r)
      PROVE  File!Ask(c, r) /\ r \in File!Requests
  BY <1>1 DEF Call, File!Ask, Requests, File!Requests
<1>2. ASSUME NEW c \in Clients, Lock(c) \/ SamePage(c) \/ WritePage(c)
      PROVE  UNCHANGED File!fileVars
  BY <1>2 DEF Lock, SamePage, WritePage, File!fileVars
<1>3. ASSUME NEW c \in Clients, WritePageFails(c)
      PROVE  File!Refuse(c)
  BY <1>3 DEF WritePageFails, File!Refuse, File!Answer
<1>4. ASSUME NEW c \in Clients, Read(c)
      PROVE  File!ServeRead(c)
  BY <1>4, AddressedIsAsked DEF Read, File!ServeRead, File!Answer
<1>5. ASSUME NEW c \in Clients, Write(c)
      PROVE  File!ServeWrite(c)
  BY <1>5, AddressedIsAsked DEF Write, Stored, File!ServeWrite, File!Answer, File!Stored
<1>6. ASSUME NEW c \in Clients, AccessFails(c)
      PROVE  File!Refuse(c)
  BY <1>6, AddressedIsAsked
     DEF AccessFails, Stored, File!Refuse, File!Answer, File!Stored
<1>7. CASE Reload
  BY <1>7 DEF Reload, File!fileVars
<1>8. CASE UNCHANGED vars
  BY <1>8 DEF vars, File!fileVars
<1> QED
  BY <1>1, <1>2, <1>3, <1>4, <1>5, <1>6, <1>7, <1>8 DEF Next, File!FileNext

(* Paged access, with its cache, its lock and its failures, is the flat    *)
(* register file.                                                          *)
THEOREM PageImplementsFile == CacheIsSound /\ Spec => ImplementsFile
<1> SUFFICES ASSUME CacheIsSound PROVE Spec => ImplementsFile
  OBVIOUS
<1>1. Init => File!FileInit
  BY InitRefines
<1>2. IInv /\ [Next]_vars => [File!FileNext]_(File!fileVars)
  BY NextRefines
<1>3. Spec => []IInv
  BY PageInvariant
<1>4. QED
  BY <1>1, <1>2, <1>3, PTL DEF Spec, ImplementsFile, File!FileSpec
=============================================================================
