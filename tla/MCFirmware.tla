---------------------------- MODULE MCFirmware -------------------------------
(* The handler at the address it has in firmware/exe.dump (0x1b8), three       *)
(* frames, and register contents before boot that are not the handler.         *)
EXTENDS FirmwareProps

MCirq_entry == {3, 4, 5, 7, 8}
MCBits      == {3, 4, 5, 7, 8}
MCPlaces    == {{}, {3, 7}}
=============================================================================
