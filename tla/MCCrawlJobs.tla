---------------------------- MODULE MCCrawlJobs ----------------------------
\* Instances of CrawlJobs: as many jobs as the store has places, and one more.
EXTENDS CrawlJobs
=============================================================================
