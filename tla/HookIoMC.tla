------------------------------ MODULE HookIoMC ------------------------------
\* TLC instance of HookIo on its own; LibraryMC runs it among the others.
EXTENDS HookIo
=============================================================================
