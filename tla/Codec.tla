------------------------------- MODULE Codec --------------------------------
(***************************************************************************)
(* The stream header of dis_comm.h and the checks hypervisor_connection   *)
(* applies to every header it reads (dis_hypervisor.c 141-183).  A header *)
(* is a record of its four packed fields; the integers are C int/int32_t, *)
(* so sizes are taken from the signed 32-bit range.                       *)
(***************************************************************************)
EXTENDS Integers

OP_READ == 0
OP_WRITE == 1
OP_INVALID == 2

DISK_SECTOR_SIZE == 512
MAX_SECTORS_SENT == 1024
MAX_BYTES_SENT == DISK_SECTOR_SIZE * MAX_SECTORS_SENT

(* sizeof(DiskIntrospectionHeader) with pack(1): 8 + 4 + 4 + 4 bytes.     *)
HEADER_SIZE == 20

(* C's % truncates toward zero: -500 % 512 = -500, not 12.                *)
CRem(a, b) == IF a >= 0 THEN a % b ELSE -((-a) % b)

(* The header passes every check before the payload read (157-183):      *)
(* not above MAX_BYTES_SENT, a known op, size divisible by 512, and not   *)
(* all four fields zero.                                                   *)
ValidHeader(h) ==
  /\ ~(h.size > MAX_BYTES_SENT)
  /\ h.op \in {OP_INVALID, OP_WRITE, OP_READ}
  /\ CRem(h.size, 512) = 0
  /\ ~(h.sector = 0 /\ h.num_sectors = 0 /\ h.op = 0 /\ h.size = 0)

(* packetSize of dis_hypervisor.c 141: the bytes the record occupies.     *)
PacketSize(h) == h.size + HEADER_SIZE
=============================================================================
