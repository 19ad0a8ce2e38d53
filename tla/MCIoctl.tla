------------------------------ MODULE MCIoctl ------------------------------
(***************************************************************************)
(* Two threads and two dwords of configuration space.  The requests reach  *)
(* every branch: one and two dwords, a size that is no multiple of four,   *)
(* every kind of parameter error, D0, D1 and D3hot, and every file         *)
(* operation.                                                              *)
(***************************************************************************)
EXTENDS FileOps

Request(c, b, w, d) == [cmd |-> c, b0 |-> b, rw |-> w, d0 |-> d]

Power == {Request("SUSPEND", 0, "RD", s) : s \in {0, 1, 3}}
           \cup {Request(c, 0, "RD", 0) : c \in {"RESUME", "GET_POWER"}}
           \cup {Request("CFG_RW", 0, "WR", 6)}

Ipc == {Request("IPC", s, "RD", 0) : s \in Targets \cup {"none"}}
         \cup {Request("WAIT_INT", "SMC", "RD", 0)}

Data == {Request("CFG_RW", 0, "RD", s) : s \in {0, 4}}
          \cup {Request("BAR_RW", 1, "RD", 4), Request("BAR_RW", 2, "WR", 6),
                Request("READ_ROM", 0, "RD", 0),
                Request("DMAISR_SET", 1, "RD", 0)}

\* The firmware's answer may come while a power request holds io_mutex.
Both == {Request("SUSPEND", 0, "RD", 3), Request("RESUME", 0, "RD", 0),
         Request("GET_POWER", 0, "RD", 0), Request("IPC", "SMC", "RD", 0),
         Request("IPC", "FEC", "RD", 0), Request("WAIT_INT", "SMC", "RD", 0)}

\* Two pages of two units: positions below, in and beyond the buffer, counts
\* within and across its end
Buffer == {Request("LSEEK", o, "SET", 0) : o \in {-1, 3, 5}}
            \cup {Request("LSEEK", 2, w, 0) : w \in {"CUR", "END"}}
            \cup {Request("RW_BUF", 0, "RD", n) : n \in {1, 5}}

Maps == {Request("BAR_MMAP", b, "RD", n) : b \in {0, 1, 2, 6}, n \in {1, 2, 3}}
          \cup {Request("BUF_MMAP", o, "RD", n) : o \in 0 .. 2, n \in {1, 2}}
          \cup {Request(c, 0, "RD", 0) : c \in {"OPEN", "BUF_IOCTL"}}

MCRegionSize == [r \in 0 .. 6 |-> IF r = 0 THEN 3 ELSE IF r = 2 THEN 4 ELSE 0]

MCMixes == {Power, Ipc, Both, Data, Buffer, Maps}
=============================================================================
