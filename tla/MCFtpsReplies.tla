---------------------------- MODULE MCFtpsReplies ----------------------------
EXTENDS FtpsReplies

\* Two digits and every separator the parsers know; two codes of these digits.
MCCodes     == {<<"2", "2", "0">>, <<"2", "0", "0">>}
MCTextChars == {"0", "2", "(", ")", ",", "-", " "}
=============================================================================
