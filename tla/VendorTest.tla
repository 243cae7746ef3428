------------------------------ MODULE VendorTest ------------------------------
(***************************************************************************)
(* vepu-vendor-test.c: one frame through the vendor's encoder driver, with *)
(* the register classes written by the program and a single call that      *)
(* passes them all and blocks.  A register that points to a buffer holds   *)
(* the buffer's file descriptor and an offset in one word; the kernel puts *)
(* the device address there.  Kernel and hardware are external, modelled   *)
(* by what the program's opening comment says of them.                     *)
(***************************************************************************)
EXTENDS Integers, Sequences, FiniteSets, FiniteSetsExt

CONSTANTS Sizes         \* the <<width, height>> it is started with

\* Up to here none of the 32-bit products of the program wraps.
Largest == 65535

ASSUME VendorConstantsOK == Sizes \subseteq (1..Largest) \X (1..Largest)

VARIABLE vt

Align(x, a) == ((x + a - 1) \div a) * a
AtLeast(x, least) == IF x < least THEN least ELSE x

W16 == Align(vt.size[1], 16)
H16 == Align(vt.size[2], 16)
W64 == Align(vt.size[1], 64)
H64 == Align(vt.size[2], 16) + 16
BsSize == 128 * 1024
PixelHdr == Align((W64 * H64) \div 64, 8192)
PixelBdy == (W64 * H64 * 3) \div 2

\* The six buffers, in the order of allocation.
Buffers == << <<"src", (W16 * H16 * 3) \div 2>>, <<"bs", BsSize>>,
              <<"reconw", PixelHdr + PixelBdy>>,
              <<"thumbw", AtLeast(Align((W64 \div 64) * (H64 \div 64) * 256, 8192), 8192)>>,
              <<"smearw", AtLeast(Align(W64 \div 64, 16) * Align(H64 \div 16, 16), 4096)>>,
              <<"meiw", 4096>> >>

SizeOf(b) == Buffers[CHOOSE i \in DOMAIN Buffers : Buffers[i][1] = b][2]

VendorInit == \E size \in Sizes :
          vt = [pc |-> "alloc", size |-> size, fds |-> <<>>, regs |-> <<>>, batch |-> <<>>,
                hw |-> <<>>, saved |-> -1, code |-> -1]

VendorExit(code) == [vt EXCEPT !.pc = "exit", !.code = code]

LowestFree(used) == CHOOSE n \in 3..20 : n \notin used /\ \A k \in 3..(n - 1) : k \in used

(***************************************************************************)
(* The heap's descriptor is open while the buffer's is made.  A heap that  *)
(* is missing or refuses is passed over; when none is left the program     *)
(* ends.                                                                   *)
(***************************************************************************)
Alloc ==
  /\ vt.pc = "alloc" /\ Len(vt.fds) < Len(Buffers)
  /\ LET used == {vt.fds[i] : i \in DOMAIN vt.fds}
         heap == LowestFree(used)
     IN vt' = [vt EXCEPT !.fds = Append(@, LowestFree(used \cup {heap}))] \/ vt' = VendorExit(1)

Fd(b) == vt.fds[CHOOSE i \in DOMAIN Buffers : Buffers[i][1] = b]

\* What 22 bits of offset reach.
Reach == 4194304

\* Mutant: the offset starts at bit 12.
fdw12(fd, offset) == <<fd % 1024, (offset * 4) % Reach>>

\* Ten bits of descriptor, the offset in the 22 above it: a pair stands for the word.
fdw(fd, offset) == <<fd % 1024, offset % Reach>>

Luma == W16 * H16

\* Only the words of the picture class that point somewhere: 0xffffffff,
\* which turns the temporal references off, is no pointer.
Pointers ==
  [ADR_SRC0 |-> fdw(Fd("src"), 0), ADR_SRC1 |-> fdw(Fd("src"), Luma),
   ADR_SRC2 |-> fdw(Fd("src"), Luma),
   RFPW_H |-> fdw(Fd("reconw"), 0), RFPW_B |-> fdw(Fd("reconw"), PixelHdr),
   RFPR_H |-> fdw(Fd("reconw"), 0), RFPR_B |-> fdw(Fd("reconw"), PixelHdr),
   DSPW |-> fdw(Fd("thumbw"), 0), DSPR |-> fdw(Fd("thumbw"), 0),
   SMEAR_WR |-> fdw(Fd("smearw"), 0), SMEAR_RD |-> fdw(Fd("smearw"), 0),
   MEIW |-> fdw(Fd("meiw"), 0),
   BSBB |-> fdw(Fd("bs"), 0), BSBT |-> fdw(Fd("bs"), BsSize - 1),
   ADR_BSBS |-> fdw(Fd("bs"), 0), BSBR |-> fdw(Fd("bs"), 0)]

SetRegisters == /\ vt.pc = "alloc" /\ Len(vt.fds) = Len(Buffers)
                /\ vt' = [vt EXCEPT !.regs = Pointers, !.pc = "open"]

Message(cmd, class, last) == [cmd |-> cmd, class |-> class, last |-> last]

\* Every message but the last says that more follow.
Messages == << Message("INIT_CLIENT_TYPE", "", FALSE),
               Message("SET_REG_WRITE", "BASE", FALSE), Message("SET_REG_WRITE", "PIC", FALSE),
               Message("SET_REG_WRITE", "RC", FALSE), Message("SET_REG_WRITE", "PAR", FALSE),
               Message("SET_REG_WRITE", "SQI", FALSE), Message("SET_REG_WRITE", "SCL", FALSE),
               Message("SET_REG_READ", "ST", FALSE),
               Message("POLL_HW_FINISH", "", TRUE) >>

Open == /\ vt.pc = "open"
        /\ vt' = [vt EXCEPT !.batch = Messages, !.pc = "submit"] \/ vt' = VendorExit(1)

\* What the kernel makes of a word: the buffer of that descriptor, and the offset.
Imported(word) == LET B == {i \in DOMAIN vt.fds : vt.fds[i] = word[1]}
                  IN <<IF B = {} THEN "none" ELSE Buffers[Min(B)][1], word[2]>>

(***************************************************************************)
(* The call: the kernel reads messages up to the last one, starts the      *)
(* hardware with the classes it was given, waits, and copies the status.   *)
(***************************************************************************)
Cfg ==
  /\ vt.pc = "submit"
  /\ \/ vt' = VendorExit(1)
     \/ LET n == Min({k \in DOMAIN vt.batch : vt.batch[k].last})
            seen == {vt.batch[k] : k \in 1..n}
        IN \E bs_lgth \in {0, 1000, BsSize} :
             vt' = [vt EXCEPT !.pc = "result", !.saved = bs_lgth,
                      !.hw = [classes |-> {m.class : m \in {x \in seen : x.cmd = "SET_REG_WRITE"}},
                              client |-> vt.batch[1].cmd = "INIT_CLIENT_TYPE",
                              waits |-> \E m \in seen : m.cmd = "POLL_HW_FINISH",
                              at |-> [r \in DOMAIN vt.regs |-> Imported(vt.regs[r])]]]

\* The length is the hardware's; when it is 0 no file is written.
Result == vt.pc = "result" /\ vt' = VendorExit(0)

VendorNext == Alloc \/ SetRegisters \/ Open \/ Cfg \/ Result

VendorSpec == VendorInit /\ [][VendorNext]_vt
-----------------------------------------------------------------------------
\* How much the hardware reads or writes from a register's address on.
Extent(r) == CASE r = "ADR_SRC0" -> Luma
               [] r \in {"ADR_SRC1", "ADR_SRC2"} -> Luma \div 2
               [] r \in {"RFPW_H", "RFPR_H"} -> (W64 * H64) \div 64
               [] r \in {"RFPW_B", "RFPR_B"} -> PixelBdy
               [] r \in {"DSPW", "DSPR"} -> (W64 \div 64) * (H64 \div 64) * 256
               [] r \in {"SMEAR_WR", "SMEAR_RD"} -> (W64 \div 64) * (H64 \div 16)
               [] OTHER -> 1

Region(r) == [buffer |-> vt.hw.at[r][1], from |-> vt.hw.at[r][2],
              to |-> vt.hw.at[r][2] + Extent(r)]

Apart(p, q) == p.buffer # q.buffer \/ p.to <= q.from \/ q.to <= p.from

(***************************************************************************)
(* The hardware starts with all six classes and a client, every pointer    *)
(* the kernel resolved leads to a region inside one buffer, and the first  *)
(* frame reads the buffers it writes.  Luma and chroma of the source are   *)
(* apart exactly while the offset of the chroma is in reach, header and    *)
(* body of the reconstruction while that of the body is; beyond, as with   *)
(* 2048x2048, the offset wraps and chroma is read from the luma.           *)
(***************************************************************************)
HardwareGetsTheFrame ==
  vt.pc = "result" =>
    /\ vt.hw.client /\ vt.hw.waits
    /\ vt.hw.classes = {"BASE", "PIC", "RC", "PAR", "SQI", "SCL"}
    /\ \A r \in DOMAIN vt.hw.at : /\ vt.hw.at[r][1] # "none"
                                  /\ Region(r).to <= SizeOf(Region(r).buffer)
    /\ Apart(Region("ADR_SRC0"), Region("ADR_SRC1")) <=> Luma < Reach
    /\ Apart(Region("RFPW_H"), Region("RFPW_B")) <=> PixelHdr < Reach
    /\ \A p \in {<<"RFPW_H", "RFPR_H">>, <<"RFPW_B", "RFPR_B">>, <<"DSPW", "DSPR">>,
                 <<"SMEAR_WR", "SMEAR_RD">>} : vt.hw.at[p[1]] = vt.hw.at[p[2]]
=============================================================================
