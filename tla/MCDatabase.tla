----------------------------- MODULE MCDatabase -----------------------------
EXTENDS Database

CONSTANTS startup, saver, main, signal, page1, page2

MCProcesses == {{startup}, {saver, main, signal}, {page1, page2}}
MCCalls(t) == CASE t = startup -> {"create"}
                [] t = saver -> {"insert"}
                [] t = main  -> {"delete", "optimize"}
                [] t = signal -> {"delete", "optimize"}
                [] t = page1 -> {"page"}
                [] OTHER     -> {"page", "mem_max"}
MCMaxCalls(t) == IF t \in {saver, page1, page2} THEN 2 ELSE 1
MCBeneath(t) == IF t = signal THEN main ELSE NoThread
==============================================================================
