------------------------------- MODULE MCScrape -------------------------------
EXTENDS ScrapeService

Page(signs, text, main, js) ==
    [signs |-> signs, header |-> "unknown", extension |-> "unknown", printable |-> FALSE, parses |-> TRUE,
     text |-> text, main |-> main, scripts |-> 0, paragraphs |-> 0,
     emptyRoot |-> FALSE, asksForJs |-> js, skeleton |-> FALSE, framework |-> FALSE]

\* A page of text, one that asks for JavaScript, a broken document, and bytes of no kind.
MCBodies == {Page({"html", "xml"}, 600, 500, FALSE), Page({"html"}, 100, 100, TRUE),
             [Page({"pdf", "html"}, 0, 0, FALSE) EXCEPT !.parses = FALSE],
             Page({}, 0, 0, FALSE)}

\* A place for each of two tabs, one tab for two scrapes, and one scrape at a time.
MCConfigs == {[enabled |-> TRUE, pages |-> 2, scrapes |-> 2], [enabled |-> TRUE, pages |-> 1, scrapes |-> 2],
              [enabled |-> FALSE, pages |-> 1, scrapes |-> 1]}
=============================================================================
