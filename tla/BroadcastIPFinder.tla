--------------------------- MODULE BroadcastIPFinder ---------------------------
(***************************************************************************)
(* The class BroadcastIPFinder of src/BroadcastIPFinder.cpp: the loop that *)
(* asks the system for its adapters until they fit in the block, and what  *)
(* the constructor makes of them.  An address and a mask are words of      *)
(* Width bits (32), each the set of its bits that are set.                 *)
(***************************************************************************)
EXTENDS Integers, Sequences

CONSTANTS Width,        (* bits of an address                              *)
          Sizes,        (* bytes the adapters may take                     *)
          FirstSize,    (* 8 * 1024                                        *)
          MaxChanges,   (* bound: how often that number changes            *)
          Adapters      (* what GetAdaptersAddresses returns: sequences of *)
                        (* addresses with their adapter's state, whether   *)
                        (* they are IPv4, and the prefix                   *)

VARIABLES shift32,      (* what shifting a word by its width gives         *)
          needed,       (* bytes the adapters take now                     *)
          changes,      (* how often that has changed                      *)
          pc,           (* "allocate", "ask", "read", "create" or "done"   *)
          ipAdapterAddressesSize,
          block,            (* bytes of the allocated block, 0 for none    *)
          adapters,         (* what is still to be read of it              *)
          nicsIPv4AndMask,  (* ... with the prefix of each mask            *)
          mLocalIPs, mBroadcastIPs

lists == <<adapters, nicsIPv4AndMask, mLocalIPs, mBroadcastIPs>>
vars  == <<shift32, needed, changes, pc, ipAdapterAddressesSize, block, lists>>

Bits  == 0 .. Width - 1
Words == SUBSET Bits
Ones  == Bits

Entries == [up : BOOLEAN, ipv4 : BOOLEAN, address : Words, prefix : Nat]
Nics    == [ipv4 : Words, mask : Words, prefix : Nat]

TypeOK ==
  /\ shift32 \in {{}, Ones}
  /\ needed \in Sizes
  /\ changes \in 0 .. MaxChanges
  /\ pc \in {"allocate", "ask", "read", "create", "done"}
  /\ ipAdapterAddressesSize \in Sizes \cup {FirstSize}
  /\ block \in Sizes \cup {FirstSize, 0}
  /\ adapters \in Seq(Entries)
  /\ nicsIPv4AndMask \in Seq(Nics)
  /\ mLocalIPs \in Seq(Words) /\ mBroadcastIPs \in Seq(Words)

Init ==
  /\ shift32 \in {{}, Ones}
  /\ needed \in Sizes /\ changes = 0
  /\ pc = "allocate" /\ ipAdapterAddressesSize = FirstSize /\ block = 0
  /\ adapters = <<>> /\ nicsIPv4AndMask = <<>>
  /\ mLocalIPs = <<>> /\ mBroadcastIPs = <<>>

(* An adapter comes or goes.                                               *)
AdaptersChange ==
  /\ changes < MaxChanges /\ pc # "done"
  /\ changes' = changes + 1
  /\ needed' \in Sizes \ {needed}
  /\ UNCHANGED <<shift32, pc, ipAdapterAddressesSize, block, lists>>

MakeBroadcastAddressIPv4(address, mask) == address \cup (Ones \ mask)

ShiftLeft(word, by) == IF by = Width THEN shift32 ELSE {bit + by : bit \in word} \cap Bits

(* Mutated: shifted by the prefix.                                         *)
MaskOfHost(prefix) == IF prefix <= Width THEN ShiftLeft(Ones, prefix) ELSE Ones

MaskOf(prefix) == IF prefix <= Width THEN ShiftLeft(Ones, Width - prefix) ELSE Ones

Usable(entry) == entry.up /\ entry.ipv4

Goto(from, to) == pc = from /\ pc' = to

(* Without memory GetNICsIPv4AndMask returns nothing.                      *)
HeapAlloc ==
  /\ \/ Goto("allocate", "ask") /\ block' = ipAdapterAddressesSize
     \/ Goto("allocate", "create") /\ UNCHANGED block
  /\ UNCHANGED <<shift32, needed, changes, ipAdapterAddressesSize, lists>>

(* Mutated: the block is allocated once.                                   *)
TooSmallKeepsBlock ==
  /\ pc = "ask" /\ needed > ipAdapterAddressesSize
  /\ ipAdapterAddressesSize' = needed
  /\ UNCHANGED <<shift32, needed, changes, pc, block, lists>>

(* Mutated: the block is allocated again with the old size.                *)
TooSmallForgets ==
  /\ Goto("ask", "allocate") /\ needed > ipAdapterAddressesSize
  /\ block' = 0
  /\ UNCHANGED <<shift32, needed, changes, ipAdapterAddressesSize, lists>>

(* ERROR_BUFFER_OVERFLOW: the size that is needed comes back.              *)
TooSmall ==
  /\ Goto("ask", "allocate") /\ needed > ipAdapterAddressesSize
  /\ block' = 0 /\ ipAdapterAddressesSize' = needed
  /\ UNCHANGED <<shift32, needed, changes, lists>>

OtherError ==
  /\ Goto("ask", "create")
  /\ block' = 0
  /\ UNCHANGED <<shift32, needed, changes, ipAdapterAddressesSize, lists>>

Filled ==
  /\ Goto("ask", "read") /\ needed <= ipAdapterAddressesSize
  /\ adapters' \in Adapters
  /\ UNCHANGED <<shift32, needed, changes, ipAdapterAddressesSize, block, nicsIPv4AndMask,
                 mLocalIPs, mBroadcastIPs>>

Nic(entry) ==
  [ipv4 |-> entry.address, mask |-> MaskOf(entry.prefix), prefix |-> entry.prefix]

(* GetNICsIPv4AndMask: one turn of its loops, and their end.               *)
ReadAddress ==
  /\ pc = "read" /\ adapters # <<>>
  /\ adapters' = Tail(adapters)
  /\ nicsIPv4AndMask' = IF Usable(Head(adapters)) THEN Append(nicsIPv4AndMask, Nic(Head(adapters)))
                                                  ELSE nicsIPv4AndMask
  /\ UNCHANGED <<shift32, needed, changes, pc, ipAdapterAddressesSize, block, mLocalIPs,
                 mBroadcastIPs>>

HeapFree ==
  /\ Goto("read", "create") /\ adapters = <<>>
  /\ block' = 0
  /\ UNCHANGED <<shift32, needed, changes, ipAdapterAddressesSize, lists>>

CreateBroadcastAddressesIPv4 ==
  /\ Goto("create", "done")
  /\ mLocalIPs' = [i \in DOMAIN nicsIPv4AndMask |-> nicsIPv4AndMask[i].ipv4]
  /\ mBroadcastIPs' =
       Append([i \in DOMAIN nicsIPv4AndMask |->
                 MakeBroadcastAddressIPv4(nicsIPv4AndMask[i].ipv4, nicsIPv4AndMask[i].mask)], Ones)
  /\ UNCHANGED <<shift32, needed, changes, ipAdapterAddressesSize, block, adapters, nicsIPv4AndMask>>

Finds ==
  \/ HeapAlloc \/ TooSmall \/ OtherError \/ Filled \/ ReadAddress \/ HeapFree
  \/ CreateBroadcastAddressesIPv4
Next == AdaptersChange \/ Finds

(* The thread of the constructor goes on.                                  *)
Spec     == Init /\ [][Next]_vars
FairSpec == Spec /\ WF_vars(Finds)

(* GetAdaptersAddresses is told the size of the block it writes to, the    *)
(* block is there while it is read, and there is none when another one is  *)
(* allocated and none is left after that.                                  *)
BlockFits ==
  /\ pc = "ask" => block = ipAdapterAddressesSize
  /\ pc = "read" => block = ipAdapterAddressesSize
  /\ pc \in {"allocate", "create", "done"} => block = 0

(* The addresses whose first prefix bits are those of address.             *)
Subnet(address, prefix) ==
  {word \in Words : \A bit \in Bits : bit >= Width - prefix => (bit \in word <=> bit \in address)}

(* The broadcast address of every local one, in order, has all the bits of *)
(* all the addresses of its subnet and is one of them; after them comes    *)
(* that of everybody.  A prefix of 0 is left out, its shift is undefined.  *)
BroadcastIsHighest == pc = "done" =>
  /\ Len(mBroadcastIPs) = Len(mLocalIPs) + 1 /\ mBroadcastIPs[Len(mBroadcastIPs)] = Ones
  /\ \A i \in DOMAIN mLocalIPs : nicsIPv4AndMask[i].prefix \in 1 .. Width =>
       LET subnet == Subnet(mLocalIPs[i], nicsIPv4AndMask[i].prefix) IN
         mBroadcastIPs[i] \in subnet /\ mBroadcastIPs[i] = UNION subnet

(* The loop ends once the adapters stop changing.                          *)
ConstructorReturns == <>(pc = "done")

=============================================================================
