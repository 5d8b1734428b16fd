----------------------------- MODULE RsmuPage -----------------------------
(***************************************************************************)
(* Paged register access of the RSMU bus drivers                           *)
(* (linux/drivers/mfd/rsmu_i2c.c and rsmu_spi.c).  A register is addressed *)
(* by a page and an offset: the bus only carries the offset, the page is   *)
(* in a register of the device which the driver writes first, unless its   *)
(* cached copy rsmu->page says that the device is on that page already.    *)
(* regmap holds its lock over one register; a page write and the transfer  *)
(* that follows are two bus transactions and either may fail.              *)
(***************************************************************************)
EXTENDS Naturals

CONSTANTS
  Clients,         \* threads of the drivers and of the character device
  Nobody,          \* owner of a free regmap lock
  Pages, Offsets, Vals,
  Nothing, Pending, Failed,   \* see RegisterFile
  CachedAtProbe,   \* what a zeroed rsmu->page stands for: on ClockMatrix no
                   \* page at all, on 82P33 over SPI the page 0
  PowerUpPage,     \* the page a device is on after power up
  Reloadable,      \* may the bus driver be unbound and bound again
  PageWriteLands,  \* may a page write that failed have reached the device
  MaxErrors        \* bound on failed transactions

ASSUME PageAssumption ==
  /\ Nobody \notin Clients
  /\ PowerUpPage \in Pages
  /\ {Reloadable, PageWriteLands} \subseteq BOOLEAN
  /\ MaxErrors \in Nat
  /\ Nothing \notin Vals
  /\ Pending \notin Vals \cup {Failed}

(* Under these conditions the cached page is right. *)
CacheIsSound ==
  /\ ~PageWriteLands
  /\ CachedAtProbe \in Pages => PowerUpPage = CachedAtProbe /\ ~Reloadable

VARIABLES
  pc,       \* per client: "idle", "lock", "page" or "access"
  request,  \* per client: page, offset and value
  answer,   \* per client: Pending, Failed or the value
  lock,     \* owner of the regmap lock
  cache,    \* rsmu->page
  hwPage,   \* the page register of the device
  regs,     \* the registers of the device
  errs      \* failed transactions so far

vars == <<pc, request, answer, lock, cache, hwPage, regs, errs>>

Addresses == Pages \X Offsets
Requests  == [addr : Addresses, val : Vals \cup {Nothing}]

TypeOK ==
  /\ pc \in [Clients -> {"idle", "lock", "page", "access"}]
  /\ request \in [Clients -> Requests]
  /\ answer \in [Clients -> Vals \cup {Pending, Failed}]
  /\ lock \in Clients \cup {Nobody}
  /\ cache \in Pages \cup {CachedAtProbe}
  /\ hwPage \in Pages
  /\ regs \in [Addresses -> Vals]
  /\ errs \in 0..MaxErrors

Init ==
  /\ pc = [c \in Clients |-> "idle"]
  /\ request \in [Clients -> Requests]
  /\ answer = [c \in Clients |-> Failed]
  /\ lock = Nobody
  /\ cache = CachedAtProbe
  /\ hwPage = PowerUpPage
  /\ regs \in [Addresses -> Vals]
  /\ errs = 0

Goto(c, label) == pc' = [pc EXCEPT ![c] = label]

(* regmap_read or regmap_write of one register. *)
Call(c, r) ==
  /\ pc[c] = "idle"
  /\ Goto(c, "lock")
  /\ request' = [request EXCEPT ![c] = r]
  /\ answer' = [answer EXCEPT ![c] = Pending]
  /\ UNCHANGED <<lock, cache, hwPage, regs, errs>>

MutantLocked(c) == pc[c] = "lock" /\ lock' = c
Locked(c) == pc[c] = "lock" /\ lock = Nobody /\ lock' = c

Lock(c) ==
  /\ Locked(c)
  /\ Goto(c, "page")
  /\ UNCHANGED <<request, answer, cache, hwPage, regs, errs>>

Return(c, a) ==
  /\ Goto(c, "idle")
  /\ answer' = [answer EXCEPT ![c] = a]
  /\ lock' = Nobody
  /\ UNCHANGED request

Page(c)   == request[c].addr[1]
Offset(c) == request[c].addr[2]

-----------------------------------------------------------------------------
(* rsmu_write_page_register *)

SamePage(c) ==
  /\ pc[c] = "page"
  /\ cache = Page(c)
  /\ Goto(c, "access")
  /\ UNCHANGED <<request, answer, lock, cache, hwPage, regs, errs>>

Remember(c) == cache' = Page(c)

WritePage(c) ==
  /\ pc[c] = "page"
  /\ cache # Page(c)
  /\ hwPage' = Page(c)
  /\ Remember(c)
  /\ Goto(c, "access")
  /\ UNCHANGED <<request, answer, lock, regs, errs>>

Errs == errs < MaxErrors /\ errs' = errs + 1

MutantRememberOnError(c) == cache' = Page(c)
CacheAfterError(c) == UNCHANGED cache

WritePageFails(c) ==
  /\ pc[c] = "page"
  /\ cache # Page(c)
  /\ Errs
  /\ CacheAfterError(c)
  /\ UNCHANGED hwPage \/ (PageWriteLands /\ hwPage' \in Pages)
  /\ Return(c, Failed)
  /\ UNCHANGED regs

-----------------------------------------------------------------------------
(* The transfer itself: the device uses the page it is on. *)

Addressed(c) == <<hwPage, Offset(c)>>

Read(c) ==
  /\ pc[c] = "access" /\ request[c].val = Nothing
  /\ Return(c, regs[Addressed(c)])
  /\ UNCHANGED <<cache, hwPage, regs, errs>>

Stored(c) == regs' = [regs EXCEPT ![Addressed(c)] = request[c].val]

Write(c) ==
  /\ pc[c] = "access" /\ request[c].val # Nothing
  /\ Stored(c)
  /\ Return(c, request[c].val)
  /\ UNCHANGED <<cache, hwPage, errs>>

(* A failed write may have reached its register. *)
AccessFails(c) ==
  /\ pc[c] = "access"
  /\ Errs
  /\ UNCHANGED regs \/ (request[c].val # Nothing /\ Stored(c))
  /\ Return(c, Failed)
  /\ UNCHANGED <<cache, hwPage>>

(* The bus driver is unbound and bound again: kzalloc clears rsmu->page,   *)
(* the device keeps its page.                                              *)
Reload ==
  /\ Reloadable
  /\ \A c \in Clients : pc[c] = "idle"
  /\ cache' = CachedAtProbe
  /\ UNCHANGED <<pc, request, answer, lock, hwPage, regs, errs>>

Next ==
  \/ \E c \in Clients :
       \/ \E r \in Requests : Call(c, r)
       \/ Lock(c)
       \/ SamePage(c) \/ WritePage(c) \/ WritePageFails(c)
       \/ Read(c) \/ Write(c) \/ AccessFails(c)
  \/ Reload

Spec == Init /\ [][Next]_vars

-----------------------------------------------------------------------------
(* A transfer only goes out while the device is on the page its register   *)
(* belongs to: nothing that happened since rsmu->page was last set, another*)
(* client, a failure or a new driver, has moved the device elsewhere.      *)
AccessOnItsPage == \A c \in Clients : pc[c] = "access" => hwPage = Page(c)

(* Paged access with its cache, lock and failures is the flat register     *)
(* file the drivers believe in: no read answers with another register and  *)
(* no write lands in one.                                                  *)
File == INSTANCE RegisterFile WITH mem <- regs
ImplementsFile == File!FileSpec
=============================================================================
