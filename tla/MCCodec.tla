------------------------------ MODULE MCCodec -------------------------------
(***************************************************************************)
(* The header checks of hypervisor_connection against the rule of the     *)
(* design (section 4.4): "operation in {read, write, invalid}, payload    *)
(* size is a positive multiple of the sector size, payload size <= the    *)
(* maximum packet bytes, not all-zero", over a small set of headers and   *)
(* the sector sizes a metadata record can announce.                       *)
(***************************************************************************)
EXTENDS Codec

VARIABLES hdr,          \* the header just read
          sector_size   \* metaData->sector_size of the connection

SectorSizes == {512, 4096}
Headers ==
  [sector : {0, 10}, num_sectors : {0, 1}, op : {OP_READ, OP_WRITE, 3},
   size : {-512, 0, 500, 512, MAX_BYTES_SENT, MAX_BYTES_SENT + 512}]

Init == hdr \in Headers /\ sector_size \in SectorSizes
Next == hdr' \in Headers /\ sector_size' \in SectorSizes
Spec == Init /\ [][Next]_<<hdr, sector_size>>

(* The rule of section 4.4 for a connection with this sector size.        *)
DesignValid(h, ss) ==
  /\ h.op \in {OP_READ, OP_WRITE, OP_INVALID}
  /\ h.size > 0
  /\ h.size % ss = 0
  /\ h.size <= MAX_BYTES_SENT
  /\ ~(h.sector = 0 /\ h.num_sectors = 0 /\ h.op = 0 /\ h.size = 0)

(* hypervisor_connection forwards exactly the headers the design accepts: *)
(* its checks (157-183) reject every header the rule rejects and no other. *)
ChecksMatchDesign == ValidHeader(hdr) <=> DesignValid(hdr, sector_size)
=============================================================================
