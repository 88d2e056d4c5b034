----------------------------- MODULE MCMiniEdit -----------------------------
(* A page of five rows of two columns, so that two rows or one are left    *)
(* below the header and divider, and files of six bytes, which wrap, and   *)
(* scroll the page.  The longer header wraps too.                          *)
EXTENDS MiniEdit

const_Header == {<<"h">>, <<"h", "h", "h">>}
const_Message == <<"m", Newline>>

(* What has scrolled off is never read again; nor is the page in the shell *)
(* or once the cursor is astray, until opening a file clears it.           *)
PageView == << IF mode = "editing" /\ ~astray THEN [t EXCEPT !.past = <<>>] ELSE Fresh,
               mode, file, header, edit_buffer, astray >>
=============================================================================
