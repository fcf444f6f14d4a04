----------------------------- MODULE MCBootMap -----------------------------
(* Pages of 8 bytes, the loader's map of 50 of them, tables of 8 entries.     *)
EXTENDS BootMap

entry(b, s, t) == [base |-> b, size |-> s, type |-> t]

MCEbda   == piece(64, 16)
MCScreen == piece(88, 5)

\* Low memory up to the BIOS, high memory to `end' and what lies behind it, more
\* behind the loader's map, one entry over some of it, and an empty one.
Firmware(end, t, high, over) ==
    << entry(0, 78, "usable"), entry(78, 2, "rsvd"), entry(96, 8, "rsvd"),
       entry(104, end - 104, "usable"), entry(end, 12, t), entry(high, 61, "usable"),
       over, entry(110, 0, "bad_mem") >>

\* The overlapping entry lies inside usable memory, across its end, or on it.
Overs(end) ==
    {entry(260, 9, "other"), entry(end - 6, 10, "rsvd"), entry(end - 6, 18, "bad_mem"),
     entry(end + 2, 4, "rsvd"), entry(250, 20, "usable"), entry(end - 3, 3, "nvs")}

Orders(s) == {s, [k \in DOMAIN s |-> s[Len(s) + 1 - k]],
              [k \in DOMAIN s |-> s[((k + 2) % Len(s)) + 1]]}

MCMachines ==
    UNION { {[firmware |-> f, kernel_size |-> k, initrd_size |-> n, cmdlen |-> 3] :
                f \in Orders(Firmware(end, t, end + 80, over)), k \in {20, 27}, n \in {5}}
             \cup {[firmware |-> <<entry(0, 78, "usable"), entry(104, end - 104, "usable")>>,
                    kernel_size |-> k, initrd_size |-> n, cmdlen |-> c] :
                      k \in {9, 20}, n \in {5, 10, 14}, c \in {0, 2}}
          : <<end, t, over>> \in
              UNION {{e} \X {"acpi_rec", "rsvd"} \X Overs(e) : e \in {323, 400, 408}} }
=============================================================================
