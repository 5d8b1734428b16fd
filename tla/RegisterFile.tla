--------------------------- MODULE RegisterFile ---------------------------
(***************************************************************************)
(* What register access promises to the drivers: one flat register file.  *)
(* A client asks to read or write one register; the answer to a read is    *)
(* what the file holds at some moment between question and answer, a       *)
(* write that is answered is in the file, and a failed access answers      *)
(* Failed and touches no other register than the one it addresses.         *)
(***************************************************************************)
CONSTANTS Clients, Addresses, Vals,
          Nothing,   \* value of a request that writes nothing: a read
          Pending,   \* answer of a request still under way
          Failed     \* answer of a request that failed

VARIABLES mem,       \* the register file
          request,   \* per client: the register it addresses and the value
          answer     \* per client: Pending, Failed or the value

fileVars == <<mem, request, answer>>

Requests == [addr : Addresses, val : Vals \cup {Nothing}]

FileInit ==
  /\ mem \in [Addresses -> Vals]
  /\ request \in [Clients -> Requests]
  /\ answer = [c \in Clients |-> Failed]

Ask(c, r) ==
  /\ answer[c] # Pending
  /\ request' = [request EXCEPT ![c] = r]
  /\ answer' = [answer EXCEPT ![c] = Pending]
  /\ UNCHANGED mem

Answer(c, a) ==
  /\ answer[c] = Pending
  /\ answer' = [answer EXCEPT ![c] = a]
  /\ UNCHANGED request

ServeRead(c) ==
  /\ request[c].val = Nothing
  /\ Answer(c, mem[request[c].addr])
  /\ UNCHANGED mem

Stored(c) == mem' = [mem EXCEPT ![request[c].addr] = request[c].val]

ServeWrite(c) ==
  /\ request[c].val # Nothing
  /\ Answer(c, request[c].val)
  /\ Stored(c)

(* A failed write may have reached the register. *)
Refuse(c) ==
  /\ Answer(c, Failed)
  /\ UNCHANGED mem \/ (request[c].val # Nothing /\ Stored(c))

FileNext ==
  \E c \in Clients :
    (\E r \in Requests : Ask(c, r)) \/ ServeRead(c) \/ ServeWrite(c) \/ Refuse(c)

FileSpec == FileInit /\ [][FileNext]_fileVars
===========================================================================
