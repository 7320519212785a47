----------------------- MODULE MCTemplateSubmissions -----------------------
(* Up to three documents of one editor and an edit by somebody else; the    *)
(* .cfg files give the bounds.                                              *)
EXTENDS TemplateSubmissions
=============================================================================
