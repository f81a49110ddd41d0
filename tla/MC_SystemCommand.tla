--------------------------- MODULE MC_SystemCommand ---------------------------
(* HAPPlatformSystemCommandRunWithEnvironment for TLC: the character sets  *)
(* and program names the .cfg files cannot write.                          *)
EXTENDS SystemCommand

\* A plain program name and one with a space, which the code quotes.
MCPrograms == {<<"a">>, <<"a", Sp, "a">>}

\* Arguments of letters and spaces only.
MCArgCharsPlain == {"a", Sp}

\* Every character the command-line rules treat specially.
MCArgCharsAll == {"a", Sp, Tab, Dq, Bs}

=============================================================================
